--------------------------- MODULE DeskProperties ---------------------------
(* What certificates, drafts and the model client promise.                 *)
EXTENDS Desk

\* What a process calls valid is exactly a certificate as it was issued, about
\* the request as it is stored now, signed with the key the process would sign
\* with itself, whatever was done to the key file since it read it
\* (certificate.py: it "proves that a specific application existed, with a
\* specific original request"; keys.py: both keys come from the cached one).
ValidMeansIssued ==
  \A p \in Procs, c \in issued : \A copy \in Copies(c) :
    Verdict(p, copy) = "valid" <=>
      /\ copy \in issued
      /\ copy.request = row.request
      /\ copy.id = procs[p].id /\ copy.sig.key = SigningKey(p)

\* A draft's one ground is an event of the log, and the precedents it cites
\* are for its own open items, though the case may move on while the model
\* writes (compiler.py: the citation is "selected by the triggering event").
DraftStandsOnLog ==
  \A t \in Busy : tasks[t].feature = "appeal" =>
    LET draft == AppealDraft(tasks[t])
    IN /\ Cardinality(draft.ground) = 1
       /\ \A g \in draft.ground : \E i \in DOMAIN row.log : row.log[i] = g
       /\ \A m \in draft.matches : m[1] \in DOMAIN draft.items /\ draft.items[m[1]] # {}

\* However many requests wait for the model, and whatever it answers, every
\* process has a free connection again and again.
PoolFreesUp == \A p \in Procs : []<>HasConnection(p)
=============================================================================
