-------------------------------- MODULE Desk --------------------------------
(***************************************************************************)
(* What the backend's processes do for one application besides driving it: *)
(* ask the language model (backend/app/domain/ai/client.py) to decompose a *)
(* request, to classify a response and to draft a First Appeal             *)
(* (appeal_engine/compiler.py), and sign and verify evidence certificates  *)
(* (backend/app/domain/evidence). A request that asks the model with a     *)
(* database session holds a connection of its process's pool for as long   *)
(* as it waits: up to two calls of 30 seconds each.                        *)
(***************************************************************************)
EXTENDS RtiStateMachine, Precedents, FiniteSets

CONSTANTS
  Items,      \* the ledger of the application
  Phrases,    \* what an excerpt may say
  Procs,      \* server processes
  Tasks,      \* requests that ask the model
  NoProc,
  PoolSize,   \* connections of a process
  MaxLog,     \* events after which the case is left alone
  MaxKeys,    \* signing keys ever configured
  MaxCerts    \* certificates handed out

ASSUME NoProcAssumption == NoProc \notin Procs
ASSUME BoundsAssumption == {PoolSize, MaxLog, MaxKeys, MaxCerts} \subseteq Nat

VARIABLES
  row,      \* the application: request text, status, log and ledger
  config,   \* the key in the configured file, and the configured key id
  procs,    \* of each process: the key id it started with, the key it cached
  tasks,    \* requests that wait for the model
  issued    \* certificates handed out

vars == <<row, config, procs, tasks, issued>>
-----------------------------------------------------------------------------
(* The application.                                                        *)

ItemRow == [status : {"PENDING", "ANSWERED", "NOT_ANSWERED"}, excerpt : SUBSET Phrases]

\* The ledger's unanswered items, with what their excerpts say.
OpenItems == { i \in Items : row.items[i].status # "ANSWERED" }
OpenExcerpts == [i \in OpenItems |-> row.items[i].excerpt]

Moved(r, to) == [r EXCEPT !.status = to, !.log = Append(@, to)]

\* Every other step of the case, the responses excepted.
MoveCase ==
  /\ Len(row.log) < MaxLog
  /\ \E to \in ApplicationStatus \ {"RESPONSE_RECEIVED"} :
       IsTransitionAllowed(row.status, to) /\ row' = Moved(row, to)
  /\ UNCHANGED <<config, procs, tasks, issued>>

\* Somebody changes the request's text in the database.
EditRequest ==
  /\ row.request = "filed" /\ row' = [row EXCEPT !.request = "edited"]
  /\ UNCHANGED <<config, procs, tasks, issued>>
-----------------------------------------------------------------------------
(* Processes.                                                              *)

Idle == [feature |-> "none", proc |-> NoProc, replies |-> <<>>, ground |-> {}, items |-> <<>>]
Busy == { t \in Tasks : tasks[t].feature # "none" }

\* A decomposition has no session.
InUse(p) == Cardinality({ t \in Busy : tasks[t].proc = p /\ tasks[t].feature # "doctor" })
HasConnection(p) == InUse(p) < PoolSize

\* A process ends with the requests it serves, and starts with the id then
\* configured.
Restart(p) ==
  /\ procs' = [procs EXCEPT ![p] = [id |-> config.id, key |-> 0]]
  /\ tasks' = [t \in Tasks |-> IF tasks[t].proc = p THEN Idle ELSE tasks[t]]
  /\ UNCHANGED <<row, config, issued>>

\* The operator replaces the key file, and may configure a new id for it.
ReplaceKey ==
  /\ config.key < MaxKeys
  /\ \E id \in {config.id, "key-02"} : config' = [key |-> config.key + 1, id |-> id]
  /\ UNCHANGED <<row, procs, tasks, issued>>
-----------------------------------------------------------------------------
(* Certificates.                                                           *)

\* The file is read once, and the key kept.
SigningKey(p) == IF procs[p].key = 0 THEN config.key ELSE procs[p].key
KeyCached(p)  == procs' = [procs EXCEPT ![p].key = SigningKey(p)]
PublicKey(p) == SigningKey(p)

\* A signature covers the fields it was made over: the request as it was
\* hashed, and the id of the key.
CanonicalPayload(request, id) == <<request, id>>
Certificate(request, id, sig) == [request |-> request, id |-> id, sig |-> sig]

IssueCertificate(p) ==
  /\ HasConnection(p) /\ Cardinality(issued) < MaxCerts
  /\ issued' = issued \cup
       { Certificate(row.request, procs[p].id,
           [key |-> SigningKey(p), over |-> CanonicalPayload(row.request, procs[p].id)]) }
  /\ KeyCached(p)
  /\ UNCHANGED <<row, config, tasks>>

\* The copies that come back: as issued, or with a field miscopied.
Copies(c) == {c} \cup [request : {"filed", "edited"}, id : {c.id}, sig : {c.sig}]
               \cup [request : {c.request}, id : {"key-01", "key-02"}, sig : {c.sig}]

\* Mutant of Verdict: the row is not compared any more.
VerdictOfSignature(p, c) ==
  IF c.id # procs[p].id THEN "Unknown key identifier"
  ELSE IF c.sig # [key |-> PublicKey(p), over |-> CanonicalPayload(c.request, c.id)]
  THEN "Signature verification failed"
  ELSE "valid"

\* The checks in their order; the key is read for the second.
Verdict(p, c) ==
  IF c.id # procs[p].id THEN "Unknown key identifier"
  ELSE IF c.sig # [key |-> PublicKey(p), over |-> CanonicalPayload(c.request, c.id)]
  THEN "Signature verification failed"
  ELSE IF c.request # row.request THEN "Certificate no longer matches the current record"
  ELSE "valid"

\* Anybody may have any copy verified. One with the configured key id has the
\* key read and kept before the database is asked, whatever comes of it.
VerifyCertificate(p) ==
  /\ KeyCached(p)
  /\ UNCHANGED <<row, config, tasks, issued>>
-----------------------------------------------------------------------------
(* The language model.                                                     *)

\* What a call comes to: an answer the schema accepts, one it rejects, an
\* HTTP or network failure, or an error nobody catches.
Reply == {"valid", "invalid", "failed", "broken"}

Asking(feature, p, ground, items) ==
  [feature |-> feature, proc |-> p, replies |-> <<>>, ground |-> ground, items |-> items]

Begin(t, task) ==
  /\ t \notin Busy
  /\ tasks' = [tasks EXCEPT ![t] = task]
  /\ UNCHANGED <<row, config, procs, issued>>

BeginDecompose(t, p) == Begin(t, Asking("doctor", p, {}, <<>>))

BeginResponse(t, p) ==
  /\ HasConnection(p) /\ IsTransitionAllowed(row.status, "RESPONSE_RECEIVED")
  /\ Begin(t, Asking("answer", p, {}, <<>>))

\* Mutant of BeginDraft: without an event to go by, silence is the ground.
BeginDraftBySilence(t, p) ==
  /\ HasConnection(p) /\ row.status \in ELIGIBLE_STATUSES
  /\ Begin(t, Asking("appeal", p,
       IF GroundsTrigger(row.log) = {} THEN {"NO_RESPONSE"} ELSE GroundsTrigger(row.log),
       OpenExcerpts))

\* Refused before the case is eligible, and without a ground in its log.
BeginDraft(t, p) ==
  /\ HasConnection(p) /\ row.status \in ELIGIBLE_STATUSES /\ GroundsTrigger(row.log) # {}
  /\ Begin(t, Asking("appeal", p, GroundsTrigger(row.log), OpenExcerpts))

\* One more call after an answer the schema rejects.
AsksAgain(replies) == Len(replies) < 2 /\ replies[Len(replies)] = "invalid"

\* The draft: facts and citations are the compiler's, the wording the model's.
\* It is the answer of its request and is stored nowhere.
AppealDraft(task) ==
  [ground |-> task.ground, items |-> task.items, matches |-> PrecedentMatches(task.items)]

\* A valid answer to "answer" is written to the ledger, one to the others
\* goes back to whoever asked.
Deliver(task) ==
  IF task.feature = "answer"
  THEN /\ Len(row.log) < MaxLog
       /\ \E items \in [Items -> ItemRow] :
            row' = Moved([row EXCEPT !.items = items], "RESPONSE_RECEIVED")
  ELSE UNCHANGED row

\* Mutant of ModelReplies: an error nobody catches leaves the session open.
ModelRepliesLeaking(t) ==
  /\ t \in Busy /\ tasks[t].feature # "leaked"
  /\ \E reply \in Reply :
       LET replies == Append(tasks[t].replies, reply)
       IN CASE reply = "valid" -> Deliver(tasks[t]) /\ tasks' = [tasks EXCEPT ![t] = Idle]
            [] reply = "broken" ->
                 tasks' = [tasks EXCEPT ![t].feature = "leaked"] /\ UNCHANGED row
            [] OTHER -> /\ tasks' = [tasks EXCEPT ![t] =
                              IF AsksAgain(replies) THEN [@ EXCEPT !.replies = replies] ELSE Idle]
                        /\ UNCHANGED row
  /\ UNCHANGED <<config, procs, issued>>

ModelReplies(t) ==
  /\ t \in Busy
  /\ \E reply \in Reply :
       LET replies == Append(tasks[t].replies, reply)
       IN IF reply = "valid"
          THEN Deliver(tasks[t]) /\ tasks' = [tasks EXCEPT ![t] = Idle]
          ELSE /\ tasks' = [tasks EXCEPT ![t] =
                              IF AsksAgain(replies) THEN [@ EXCEPT !.replies = replies] ELSE Idle]
               /\ UNCHANGED row
  /\ UNCHANGED <<config, procs, issued>>
-----------------------------------------------------------------------------
Init ==
  /\ row = [ request |-> "filed", status |-> "UNDER_PROCESSING", log |-> <<"UNDER_PROCESSING">>,
             items |-> [i \in Items |-> [status |-> "PENDING", excerpt |-> {}]] ]
  /\ config = [key |-> 1, id |-> "key-01"]
  /\ procs = [p \in Procs |-> [id |-> "key-01", key |-> 0]]
  /\ tasks = [t \in Tasks |-> Idle]
  /\ issued = {}

Serve ==
  \E p \in Procs :
    \/ IssueCertificate(p) \/ VerifyCertificate(p) \/ Restart(p)
    \/ \E t \in Tasks : BeginDecompose(t, p) \/ BeginResponse(t, p) \/ BeginDraft(t, p)

Next == MoveCase \/ EditRequest \/ ReplaceKey \/ Serve \/ \E t \in Tasks : ModelReplies(t)

Spec == Init /\ [][Next]_vars

\* A call of the model ends, by its timeout at the latest.
FairSpec == Spec /\ \A t \in Tasks : WF_vars(ModelReplies(t))
=============================================================================
