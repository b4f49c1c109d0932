-------------------------- MODULE ResponseAnalysis --------------------------
(***************************************************************************)
(* Answer Integrity: what the classifier's output may be, and what         *)
(* record_response stores of it.                                           *)
(*                                                                         *)
(* An excerpt is abstracted to its relation with the response text:        *)
(* "absent" (None), "verbatim" (a non-blank substring of the text),        *)
(* "blank" (empty or whitespace) and "fabricated" (not in the text).       *)
(***************************************************************************)
EXTENDS Sequences, Naturals

CONSTANT Items        \* the ledger of one application

Classified == { "ANSWERED", "PARTIALLY_ANSWERED", "NOT_ANSWERED",
                "POTENTIALLY_DEFICIENT" }
ItemStatus == Classified \cup {"PENDING"}
Excerpt    == { "absent", "verbatim", "blank", "fabricated" }

ItemRow == [status : ItemStatus, excerpt : Excerpt]
NewItem == [status |-> "PENDING", excerpt |-> "absent"]

\* A classification that passes the schema: never PENDING, and no excerpt
\* when the item was not answered.
SchemaValid(c) ==
  /\ c.status # "PENDING"
  /\ c.status = "NOT_ANSWERED" => c.excerpt = "absent"

Classification == { c \in ItemRow : SchemaValid(c) }

\* Mutant of Verdict: the excerpt is trusted as the model gave it.
VerdictUnchecked(c) == [status |-> c.status, excerpt |-> c.excerpt]

\* The hallucination check: an excerpt that is blank or not in the response
\* downgrades the item and is dropped.
Verdict(c) ==
  IF c.excerpt \in {"blank", "fabricated"}
  THEN [status |-> "POTENTIALLY_DEFICIENT", excerpt |-> "absent"]
  ELSE [status |-> c.status, excerpt |-> c.excerpt]

\* One answer of the model, by ledger item: the last classification naming
\* the item, or NotNamed. Classifications of other items are dropped.
NotNamed == [status |-> "PENDING", excerpt |-> "absent"]
AiOutput == [Items -> Classification \cup {NotNamed}]

\* The ledger in the session after the classifications are applied to the
\* copy it loaded.
ApplyOutput(ledger, output) ==
  [i \in Items |-> IF output[i] = NotNamed THEN ledger[i] ELSE Verdict(output[i])]

=============================================================================
