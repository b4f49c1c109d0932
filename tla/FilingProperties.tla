-------------------------- MODULE FilingProperties --------------------------
(* What filing a request promises, whatever becomes of its calls.          *)
EXTENDS FilingFlow

\* The events the page's calls left on the log of an application.
PageSteps(row) == { i \in DOMAIN row.log : row.log[i].actor = "page" }

\* The event the n-th call leaves.
LeftBy(n) == IF n = 1 THEN "DRAFT_CREATED" ELSE Calls[n]

\* The page's events are those of its first m calls, one each and in order.
MadeInOrder(row, m) ==
  \E at \in [1..m -> PageSteps(row)] :
    /\ PageSteps(row) = { at[n] : n \in 1..m }
    /\ \A n \in 1..m : /\ row.log[at[n]].type = LeftBy(n)
                      /\ \A k \in 1..m : k < n => at[k] < at[n]

\* A case linked to an application of the backend is about the same request
\* to the same authority, though the text may be edited while the calls are
\* answered, and no other case is linked to it (CreateCasePage.handleCreate:
\* the certificate of the link is one of this request).
LinkedIsSameRequest ==
  \A r \in DOMAIN records : records[r].app # NoApp =>
    /\ records[r].text = db[records[r].app].text
    /\ records[r].authority = db[records[r].app].authority
    /\ \A q \in DOMAIN records : records[q].app = records[r].app => q = r

\* One visit of the page leaves at most one case, however often the button is
\* pressed and whatever fails in between.
OneCasePerVisit ==
  \A q, r \in DOMAIN records : records[q].visit = records[r].visit => q = r

\* What the backend answered for it has committed, in the order of the calls,
\* and at most one call more: of a call that was lost (createEvent is awaited
\* one by one; record_event answers after its commit).
AnsweredIsCommitted ==
  \A i \in DOMAIN filings :
    LET f == filings[i]
        answered == f.call - 1
    IN f.app # NoApp =>
         \E m \in {answered, answered + 1} \cap DOMAIN Calls : MadeInOrder(db[f.app], m)

\* An application a finished filing did not link to its case is a bare draft:
\* only the first answer can be lost without the link. Garbled answers and
\* closed tabs are other ends.
OrphansAreDrafts ==
  \A a \in DOMAIN db :
    (filings[db[a].by].state = "done" /\ filings[db[a].by].app # a)
      => MadeInOrder(db[a], 1)

\* "Filing..." is some day over: a case is opened, an error shown or the page
\* left, whatever becomes of the four calls.
PressEnds == page.creating ~> ~page.creating
-----------------------------------------------------------------------------
(* What a document says and the program does not do.                       *)

\* A refused transition leaves an audit row (STATE_MACHINE.md).
RejectionsAudited ==
  refused > 0 => \E a \in DOMAIN db : Len(db[a].audit) > Len(db[a].log)
=============================================================================
