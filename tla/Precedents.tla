----------------------------- MODULE Precedents -----------------------------
(***************************************************************************)
(* Grounds and precedents of a First Appeal (backend/app/domain/           *)
(* appeal_engine): chosen from the log and from what a denial says, never  *)
(* by the model. A text is the set of the key phrases in it.               *)
(***************************************************************************)
EXTENDS Sequences, Naturals

\* The phrases that cite each section.
PRECEDENTS ==
  [ s8_1_a |-> {"national security", "sovereignty", "strategic interest", "8(1)(a)"},
    s8_1_b |-> {"contempt of court", "sub judice", "8(1)(b)"},
    s8_1_d |-> {"commercial confidence", "trade secret", "competitive position", "8(1)(d)"},
    s8_1_e |-> {"fiduciary", "8(1)(e)"},
    s8_1_g |-> {"endanger life", "physical safety", "informant", "8(1)(g)"},
    s8_1_h |-> {"impede investigation", "ongoing investigation", "prosecution", "8(1)(h)"},
    s8_1_i |-> {"cabinet paper", "council of ministers", "8(1)(i)"},
    s8_1_j |-> {"personal information", "invasion of privacy", "8(1)(j)"},
    s9     |-> {"copyright", "section 9 exemption"},
    s8_1   |-> {"parliament", "legislature", "public interest override",
                "larger public interest"} ]

MatchPrecedents(text) == { s \in DOMAIN PRECEDENTS : PRECEDENTS[s] \cap text # {} }

\* For the open items (a function to their excerpts), who is cited for which.
PrecedentMatches(items) ==
  UNION { {i} \X MatchPrecedents(items[i]) : i \in DOMAIN items }

ELIGIBLE_STATUSES ==
  {"FIRST_APPEAL_ELIGIBLE", "FIRST_APPEAL_FILED", "SECOND_APPEAL_ELIGIBLE", "COMPLETED"}

GROUNDS_CITATION == {"NO_RESPONSE", "INCOMPLETE_RESPONSE"}

\* The latest event of the log that makes a ground, if there is one.
GroundsTrigger(log) ==
  { log[i] : i \in { i \in DOMAIN log :
      /\ log[i] \in GROUNDS_CITATION
      /\ \A j \in (i + 1)..Len(log) : log[j] \notin GROUNDS_CITATION } }
=============================================================================
