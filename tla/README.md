# Verification of RTI-Reimagined (Suchna Rakshak)

TLA+ models of the parts of this repository that carry its logic, TLC
configurations that check them on small instances, and TLAPS proofs of what
matters most for every instance. Paths below are relative to `src/`.

## 1. The system

A citizen files a Right-to-Information request, an authority must answer in 30
days, and silence or an incomplete answer opens a first appeal. Two halves keep
a case, and they meet only when a request is created:

* the **backend** (FastAPI, SQLAlchemy, PostgreSQL) drives an application
  through a state machine with an event log and statutory deadlines;
* the **frontend** (React) keeps its own record of every case, with a
  hash-chained trail, in the browser's localStorage; citizen and officer pages
  share it.

### Inventory

| Component | State | Operations | Meets |
|---|---|---|---|
| State machine (`backend/app/domain/case_engine/state_machine.py`) | none | transition table, `validate_transition` | consulted by all writers of a status |
| Case engine (`case_engine/service.py`, `api/v1/applications.py`) | rows of `applications`, `application_events`, `deadlines`, `appeals`, `information_items`, `audit_logs` | create, record event, record response, file first appeal | called by requests, the sweep and Answer Integrity, each in a session of its own |
| Rights Clock and sweep (`deadline_engine/`, `repositories/deadlines.py`, `api/v1/dev_tools.py`) | `deadlines` | start at `UNDER_PROCESSING`, sweep, simulate a miss | case engine |
| Answer Integrity (`response_analysis/classifier.py`, `ai/schemas.py`) | `information_items` | classify a response, check excerpts | language model, case engine |
| Language model client (`ai/client.py`) | none | one call, one retry of an invalid answer | external service, database connections held meanwhile |
| Appeal engine (`appeal_engine/`) | none (reads) | compile a draft from the history | case engine, language model |
| Evidence certificates (`evidence/`) | signing key, cached per process | issue, verify | `applications`, key file |
| Case store (`frontend/src/domain/store.ts`) | records, notifications, demo flag in localStorage | create, submit, add event/evidence/audit, move stage, appeal, clear | all pages, in every tab |
| Trail integrity (`domain/integrity.ts`) | none | hash chain, verify | case store, offline copy |
| Offline copy (`offline/citizenRecord.ts`) | copies in localStorage | sync, import, export | citizen's workspace |
| Workspaces (`pages/citizen/*`, `pages/gov/*`) | the rendered record | handlers and effects | case store |
| Demo workspace (`domain/seed.ts`) | five seeded cases | load once, clear | case store |
| Request creation and API client (`CreateCasePage.tsx`, `lib/api.ts`) | none | create, three events, then the local case | backend, case store |
| Sessions (`lib/demoIdentity.ts`, `ProtectedRoute.tsx`, `LoginPage.tsx`, `App.tsx`) | role session | start, end, guard routes | pages, demo workspace |
| Derived views (`actionEngine.ts`, `legalRules.ts`, `selectors.ts`) | none | functions of the stored cases | pages |
| Pages of the citizen and of the officer (`pages/citizen/*`, `pages/gov/*`, the two shells) | none | list, count, offer, warn | derived views |
| Application Doctor (`lib/applicationDoctor.ts`) | none | rewrite of a text, heuristic scores | request creation |
| Service worker (`public/sw.js`) | one cache: shell and assets | install, activate, fetch | browser, static host |

### What is hard in it

* **Stale copies in the backend.** PostgreSQL runs at READ COMMITTED, rows carry
  no version and nothing takes a row lock; SQLAlchemy's identity map keeps the
  first copy a session loads. A transition is validated against that copy and
  written later, in `record_response` after as much as a minute of waiting for
  the language model.
* **Overlap of sweeps and requests.** A sweep holds a batch of copies while
  others commit.
* **Read, await, write whole in the frontend.** Every asynchronous operation of
  the store reads a record, waits for SHA-256 and saves the record it read.
* **Several tabs.** They share localStorage but not notifications of writes; a
  tab decides from what it last rendered.
* **Operations that outlive what they work on.** Clearing the workspace cancels
  nothing in flight; the script of a pressed button or of a demo load goes on
  after its page was left; a request may be executed after its caller gave up.
* **Calls that fail in the middle.** Filing is four calls and two local saves
  without a transaction around them.
* **Waiting for a language model.** Up to two calls, each with a timeout of 30 seconds
  on its socket operations, with a database connection and copies held meanwhile.
* **Versions side by side.** A signing key cached per process, a shell and assets
  cached per browser, while the original is replaced.
* **The same judgement made many times.** Two shells and a dozen pages decide by
  status, by stage or by date what is open, late, due soon or appealable.

For each component the properties that make it correct are named in section 3;
`PROJECT.json` lists every hazard at its line with the properties that watch it.

## 2. Modules

| Module | Models | Uses |
|---|---|---|
| `RtiStateMachine` | the transition table | |
| `ResponseAnalysis` | schema of a classification, the excerpt check, its application to a ledger | |
| `CaseLifecycle` | **abstract**: what the engine promises of one case | `RtiStateMachine` |
| `CaseEngine` | all writers of a case in overlapping database sessions | `RtiStateMachine`, `ResponseAnalysis` |
| `CaseEngineProperties` | its properties, the refinement mapping to `CaseLifecycle`, fairness | `CaseEngine` |
| `CaseEngineProofs` | TLAPS: types, clock, well-founded history, grounds | `CaseEngineProperties` |
| `CaseEngineHistoryProofs` | TLAPS: status, silence, appeals, dates, evidence, deadlines | `CaseEngineProofs` |
| `LifecycleProofs` | TLAPS: the refinement of `CaseLifecycle`, the order of the log, one session | `CaseEngineHistoryProofs` |
| `MCCaseEngine` | instances for TLC | `CaseEngineProperties` |
| `CaseTrail` | a browser record, stages, the hash chain | |
| `CaseStore` | the store's operations, the pages that call them, tabs | `CaseTrail` |
| `CaseStoreProperties`, `MCCaseStore` | its properties, instances | `CaseStore` |
| `CaseStoreProofs` | TLAPS: every safety property of the store | `CaseStoreProperties` |
| `SeedWorkspace` | the five seeded cases with their dates | `CaseTrail` |
| `CaseViews` | selectors, next action, process rules | `SeedWorkspace` |
| `CitizenPages`, `OfficerPages` | what each screen lists, counts, offers and warns of | `CaseViews` |
| `Workspace` | one tab: session, routes, demo workspace, and the work of both desks | `CitizenPages`, `OfficerPages` |
| `WorkspaceProperties`, `MCWorkspace` | its properties, instances | `Workspace` |
| `WorkspaceProofs` | TLAPS: every property of run `Workspace` | `WorkspaceProperties` |
| `FilingFlow` | the create page, its four calls, the backend's half with its audit rows | `RtiStateMachine` |
| `FilingProperties`, `MCFiling` | its properties, instances | `FilingFlow` |
| `FilingProofs` | TLAPS: the safety properties of filing | `FilingProperties` |
| `Precedents` | grounds and precedents of an appeal | |
| `Desk` | processes that ask the model, draft appeals, sign and verify certificates | `RtiStateMachine`, `Precedents` |
| `DeskProperties`, `MCDesk` | its properties, instances | `Desk` |
| `DeskProofs` | TLAPS: verdicts and drafts | `DeskProperties` |
| `OfflineShell` | the service worker, its cache, tabs, deployments, the network | |
| `OfflineShellProperties`, `MCOfflineShell` | its properties, instances | `OfflineShell` |
| `OfflineShellProofs` | TLAPS: the safety properties of the worker | `OfflineShellProperties` |

### CaseEngine

`row`, `events`, `deadlines`, `appeals` and `ledger` are the tables; `sess[s]` is
the state of one SQLAlchemy session: where it stands (`pc`), its identity map
(`loaded`, `items`), the deadline it read (`seen`), and for a sweep the
applications left (`batch`). A session is cut exactly where the code reads or
writes the database:

| Code | Actions |
|---|---|
| `POST /applications` | `CreateApplication` (one transaction) |
| `POST /{id}/events` → `record_event` | `PostEvent` (load, validate), `CommitEvent` (side effects, event, commit) |
| `POST /{id}/appeal/file` → `file_first_appeal` | `BeginAppeal`, `CommitAppeal` (row, status, event in one commit; the unique constraint is its guard) |
| `POST /{id}/response` → `record_response` | `BeginResponse`, `ReadItems`, `CommitResponse` (any schema-valid answer) |
| `run_deadline_sweep` | `SweepQuery`, `SweepNext`, `SweepReadClock`, `CommitNoResponse` |
| `simulate_deadline_miss` | `BeginSimulate`, `Backdate`, then the sweep in the same session |
| any failure before a commit, rollback | `Abort` |

`FlushedRow` and `FlushedItem` are the unit of work: an UPDATE names only the
columns that differ from the loaded copy, so two commits merge by column. A
flush before the commit takes the row lock, so a later writer waits and then
overwrites; since no other session can see or pass it, flush and commit are one
action. A rejected request changes nothing and is not a step. Event types
outside the enumeration stand as `INFORMATIONAL`; the text of requests and
responses is left out, an excerpt is only *absent*, *verbatim*, *blank* or
*fabricated*. An event's time is the start of its transaction, as `now()` is in
PostgreSQL. Every application is created with the same ledger, `Items` (empty in the runs
that are not about responses).

### CaseStore

`store`, `notifications`, `demo` and `copies` are the four localStorage entries;
`page[p]` is what tab `p` has rendered; `task[t]` is an operation suspended in
`appendEventInternal`, holding the record it read. JavaScript runs to its next
await, so an operation is one action before the await and one after it; a second
operation called right after the first (`submitCase` after `createCase`,
`addEvent` after `fileFirstAppeal` or after the release) is begun by the action
that ends the first. `Write` is `writeAll` with its listeners: the page of the
writing tab is rendered again and, in the citizen's workspace, the effect that
refreshes the offline copy runs; pages of other tabs keep what they show, for
nothing listens to the storage event. React's effects are taken to run before
the next operation of the same tab.

A digest is the sequence of contents it commits to, so SHA-256 is an injection.
The audit log is the set of kinds of entry in it. `uuid` numbers the fresh ids.
The five seeded cases are represented by the overdue one, the only kind from
which an appeal can be filed; its seeded documents, which no event names
(`seed.ts:263`), are left out of `evidence`; with them `DocumentsMatchTrail` would not
hold of that case.

### Workspace, CitizenPages, OfficerPages

`cases`, `session` and `demo` are localStorage entries; `screen` and `gate` are
what the tab shows; `pending` holds the loads of the demo workspace that wait for
their hash chains, each with where it navigates to when done. `App.tsx` starts a
load for a demo session, `enterDemo` starts the session before the load and
navigates after it, so everything may happen in between, a sign-in with another
role included. Operations on cases are atomic here: how two of them overlap is the
subject of `CaseStore`, whose trail and chain are left out in turn.

Time is in half days, because `daysRemainingFor` rounds a difference to the
nearest day and a window is at "0 days" on both sides of its end. A screen is an
operator: the record of the sets it lists, the numbers it counts and the judgements
it makes of a case, each computed the way that file computes it, from the status,
the stage, the events or the date. A list is the set of its ids; its order, its
wording and the search box are left out. The record of a screen is the whole screen:
it also has fields that no property reads (average days, the pipeline, documents).

### FilingFlow

`page` is the create page; each press of "File RTI" is an element of `filings`, a
script that stands at one of its four calls (`call`) or at the local saves; the
call in progress is sent, answered `ok` or answered `error` (`net`). A call that is
given up while it is sent becomes one of the `strays`, which the backend may still
execute. `db` is the backend's applications, with log and audit rows written in one
commit; another client of the API may post events on them.

| Code | Actions |
|---|---|
| steps of `CreateCasePage.tsx` | `Edit`, `ChooseAuthority`, `Continue`, `Back`, `ApplyDoctor`, `KeepMyWording`, `EditRequestText` |
| `ApplicationDoctorPage` "Use this revision" | `UseRevision` |
| `handleCreate` up to its first await | `HandleCreate` |
| the backend executes a call and answers | `Serve`, `ServeStray` |
| `await api...`: answer, rejection, unreadable success | `Receive`, `LoseCall`, `GarbleAnswer` |
| `createCase`, `submitCase`, offline copy, navigation | `StoreCase` |
| leaving, other pages, closing the tab | `LeavePage`, `OpenCreate`, `FollowCreateLink`, `CloseTab` |

A text is its kind of wording and how often the Doctor rewrote it.

### Desk

`procs[p]` is what a server process read when it started or first signed: the key
id and the cached key; `config` is the file and the id that a restart would read.
`tasks[t]` is a request that waits for the model, with the replies so far and, for
an appeal, the ground and open items it has already read. `ModelReplies` is one
reply and what `_complete_structured` makes of it: `valid`, `invalid` (once more),
`failed` (an end), or `broken`, an exception that no clause catches. All but the
decomposition hold a connection, so they may only begin while one is free. A
signature is the key and the payload it was made over. Anybody may have any
certificate verified, and one that bears the configured key id has the key read and
cached, whatever the verdict.

### OfflineShell

`deployed` is the version the host serves; an asset of an earlier one is gone, and a
host that rewrites (`frontend/public/_redirects`) answers it with index.html and
200, one that does not with 404. `cache` is the worker's one cache. `writes` holds
the responses that wait for `caches.open` to be cloned: each is stored, or lost
because the page has read the body first (`sw.js:45`, `sw.js:60`). An offline page
whose asset is not stored waits for it in the model; in the code the load of its script
fails (`sw.js:62`) and only a new navigation tries again. For what a page is given that
allows more than the code does; `ReadyAgain` rests on visits, which repeat.

## 3. What is checked

Every run disables the deadlock check: all requests may have been made, the
clock or the log may be at its bound, and then the system rightly rests.

| Run | Question | Instance |
|---|---|---|
| `Overlap` | do row, dates, clock, appeal, grounds and evidence agree with the log, whatever two requests and a sweep interleave? | 1 application, 1 item, 2 requests, 1 sweeper, log of 9, from the acknowledgement on |
| `Serial` | does the engine implement `CaseLifecycle` when operations do not overlap? | 1 session, 1 item, dev tools, log of 9, from creation on |
| `Sweeps` | is a lapsed case eventually declared silent, and no other? | 2 applications, 1 request, 1 fair sweeper, log of 7 |
| `StoreFiling` | do chain, version, stage, status, documents and notifications agree with the trail under two operations in two tabs? | a case created there, or at READY_TO_RELEASE; ids up to 5 |
| `StoreOneTask` | do trails only grow, one operation at a time, from two tabs? | demo case, 1 checklist item |
| `Workspace` | where do the screens of both sides agree, by what do they differ where they do not, and do sessions and demo loads end behind the right door? | the demo workspace moved on beside a request in its last half day (N) and a fresh one ready for release (P), or nothing; one further operation, one half day |
| `Filing` | do browser and backend agree on what was answered, whatever becomes of the calls? | 2 visits, 2 presses, 6 moves on the page, 1 event of another client |
| `Desk` | are verdicts, drafts and connections right while model, key and case change? | 1 process, 2 connections, 2 requests, 2 keys, log of 5 |
| `OfflineShell` | does a page run its own version, and does the app become ready for offline use again? | 2 tabs, 2 versions, a host that rewrites |

Starting points other than `Init` (`FiledInit`, `ReadyInit`, `PastInit` in the MC
modules) are reachable states written out, to reach late behaviour within the
bounds.

What the less obvious properties are for:

* `OpenCasesAccounted`, `RemedyOfferedTogether`: `selectors.ts`
  and `actionEngine.ts` promise that "the whole product agrees", but the shells, the
  authority metrics, the deadline page of the officer and four tabs filter by
  themselves. They do not agree everywhere: some go by the status and some by the
  date. The properties relate screens to each other, never to the selector they are
  built from, and say in both directions where two screens have the same cases and
  which cases one has beyond another, so that nothing is lost or counted twice. The
  promise itself is not what they show.
* `LapseShownByClocks`: which part of the screens tells that a window has lapsed
  (the clocks) and which does only if the status is OVERDUE (rules, attention lists,
  the bar).
* `ReleasedKeptByDateOnly`: the stages of the authority go on under an appeal, and the
  release overwrites its status. The case is then off every list that looks at the
  status, and on those that look at the date alone exactly as long as its days say.
* `WarnedBeforeLapse`: half-day rounding at both ends of a window.
* `RightDoor`: the navigation at the end of a demo load meets whoever is signed in
  by then.
* `OneCasePerVisit`, `OrphansAreDrafts`, `AnsweredIsCommitted`: what the swallowed
  errors of `handleCreate` may leave behind, and nothing more.
* `ValidMeansIssued`: a process goes by the key it cached on both sides, so it
  accepts what it would sign itself, and a signature that still verifies is not
  enough.
* `PoolFreesUp`: every end of a call gives the connection back.
* `RunsItsOwnCode`, `DeployedAssetIsGenuine`: stale-while-revalidate and a
  rewriting host never mix versions. On such a host the cache may well hold
  index.html under the key of an *earlier* version's asset, when a page of that
  version asks for it late; that version is never deployed again: versions only go forward in the model. After
  a rollback to it, an offline page would meet index.html under its asset's key.

**Bounds.** Two sessions (or two tasks and two tabs) are enough for every race of
the code: each is between one reader and one writer, a third repeats one of the
two roles; `Overlap` has three. `MaxEvents`, `MaxUuid`, `MaxLog` bound only where
an operation may *begin* or what a delivered answer may still append, never what
one that began may do to other state. `MaxTime` leaves the clock room to lapse a
deadline (`ResponsePeriod` is one tick) and to move on. `NotificationLimit` is 1,
so the list is cut within a run. Two presses in two visits are the smallest number
in which a case could be linked to another press's application, two versions the
smallest in which shell and asset may differ. In `Workspace` the half day is the
one in which the window of case N lapses, and the one operation ranges over every
seeded case, so every status, stage and side of the due date meets every screen; a
release well before the due date, which no seeded case can have, is case P's.

### Runs that refute a claim of the code

| Run | Claim | What happens |
|---|---|---|
| `IllegalOverwrite` | the status moves only along the table (`service.py:189`) | a response or request in flight overwrites another's transition |
| `LapseOffersAppeal` | "Missed deadlines become drafted appeals" (`LoginPage.tsx:92`) | `markOverdue` has no caller, so a case filed in the browser lapses and no screen of the citizen offers its appeal; the officer's deadline page alone lists it as "appeal eligible" |
| `RejectionsAudited` | an illegal transition is "recorded in `audit_logs`" (`STATE_MACHINE.md:34`) | it raises before anything is written |

`LapseOffersAppeal` is checked under a fair clock and fair loads; the citizen and
the officer need not act, which is what the claim says.

`Serial` and `StoreOneTask` show that without overlap the properties hold; the other
passing runs show what survives it. Consequences of the same causes that were seen
while modelling, and are kept as hazards with a note rather than as runs:

* a check on a copy that nothing protects until the commit also lets two sweeps
  declare the same silence twice (`sweep.py:4` expects the second to be refused),
  a NO_RESPONSE follow a recorded response, a filed case be back at
  FIRST_APPEAL_ELIGIBLE, and an item be NOT_ANSWERED with the excerpt of another
  response;
* the log, ordered by transaction start (`events.py:18`), may end in a status the
  case is not in (`LogOrderTellsStatus` holds for one session only);
* in the browser, the later of two overlapping saves drops the other's event
  (`TrailAppendOnly` holds for one operation at a time only), and the save that ends
  a stage change drops the audit entry its own call wrote before the await
  (`store.ts:266`), with no second actor at all;
* the copy of a case open in one tab stays behind what another tab stored, a demo
  case is saved back after the workspace was cleared, and a second demo load resets
  cases already worked on;
* no transition stops the response clock when a response is recorded
  (`service.py:289`, against the comment at 260), so its deadline stays ACTIVE;
* "active", "due soon" and "overdue" mean different things on different screens
  (`selectors.ts:2-4` says they do not). Active leaves the appeals out on the
  citizen's overview (`OverviewPage.tsx:81`) and counts them on My RTIs
  (`MyCasesPage.tsx:28`). The officer's Deadlines badge (`GovShell.tsx`) counts by
  status, the page it leads to by date, appeals included. The overdue cases of the
  authorities and of Analytics include the first appeals, those of Operations do not,
  so two overdue rates differ; the authorities' due soon includes what was answered
  in its last days (all stated in `OpenCasesAccounted`);
* the officer's "Overdue — appeal eligible" (`GovDeadlinesPage.tsx:38`) lists the
  lapsed cases that no other surface offers, and those already appealed
  (`RemedyOfferedTogether`);
* a lapsed case that nothing has marked reads as calm wherever the status decides:
  "No action required yet" on the legal tabs (`legalRules.ts:64`), "Monitor — no
  action needed yet" on the officer's overview, a plain bar, and no place under
  "Action required" or in the Urgent queue, while every clock shows it overdue
  (`LapseShownByClocks`);
* an answered case stays where only the date is looked at: under "On track" of the
  citizen's deadlines, beside "Responded", while more than five days are left
  (`DeadlinesPage.tsx:24`; line 43 promises "every open request"), in the officer's
  Urgent queue (`CaseQueuePage.tsx:24`) and under the authorities' "Due soon" in the
  last five, and both clocks show it overdue afterwards (`ReleasedKeptByDateOnly`);
* a garbled success answer shows "Could not create this request" although the backend
  has it, and pressing again makes a second application there;
* answers to navigations are stored as the shell whatever their status (`sw.js:45`),
  so after an error page the app opens offline only once a later visit has
  replaced it (`ReadyAgain`).

### Fairness

* `Sweeps`: `sweep.py:6-8` describes "a sweep that runs repeatedly" and
  `docs/engineering/CODEX_BUILD_SPEC.md:197` a scheduled check, run by
  `backend/scripts/run_deadline_sweep.py`: starting a due sweep is weakly fair.
  Its later steps are strongly fair, because a run may fail and roll back (`Abort`
  stays enabled and unfair) but not every run fails at the same step. Requests and
  time are not assumed fair.
* `Filing`: a call is some day answered or given up (a browser ends every fetch, and
  rejects it if the connection is gone), and a script whose promise is settled is
  resumed. The backend, strays and the citizen are not fair: `PressEnds` holds even
  if nothing is ever served. A promise that never settles is outside the model.
* `Desk`: a call of the model ends, if only because a socket operation of it times
  out after 30 seconds (`client.py`; the timeout is not one of the whole call).
  Nothing else is fair.
* `OfflineShell`: `ReadyAgain` is about a citizen who keeps visiting while the
  network lasts: visits, and loads of assets that are not all answered with errors,
  are strongly fair, and so is the storing of what the current version answers, for
  the clone is late by chance and not always. Deployments are not fair, and what an
  older version left in `writes` may be stored or lost at any time.
* `LapseOffersAppeal`: the clock goes on and a load ends.

## 4. What is proved

Every safety property and action property that a passing run checks, and the
refinement of `CaseLifecycle`, is also a theorem: for any number of applications,
cases, tabs, requests, tasks, sessions, processes and versions, any period and any
bounds. The only assumptions are those the modules state on their constants, and
three theorems suppose what their runs suppose, that operations do not overlap
(`Sessions = {s}`, `Tasks = {t}` for some `s`, `t`). All are about `Spec`, from its
`Init`; the starting points of the MC modules are TLC's alone. Every inductive
invariant was checked by TLC before it was proved: by whole state spaces of the runs'
instances, but for the service worker's, which was checked in part.

### The case engine

In `CaseEngineProofs`:

* `TypeCorrect`: `Spec => [](TypeOK /\ SessionsSound)`;
* `ClockArmed`: `Spec => []RightsClockArmed`;
* `HistoryFounded`: `Spec => [](StatusesAreLogged /\ HistoryWellFounded)`;
* `GroundsFound`: `Spec => []GroundsAlwaysFound`.

In `CaseEngineHistoryProofs`:

* `StatusIsLast`: `Spec => []StatusIsLastCommitted`;
* `SilenceAfterLapse`: `Spec => []SilenceOnlyAfterLapse`;
* `AppealsMatch`: `Spec => []AppealsMatchFilings`;
* `StampsMatch`: `Spec => []StampsMatchHistory`;
* `EvidenceGenuine`: `Spec => []EvidenceIsFromAResponse`;
* `DeadlinesMatch`: `Spec => []DeadlinesMatchHistory`.

The argument. What a stale session commits is harmless as long as its copy was
once true. `SessionsSound` says that a session between load and commit holds a
copy for which its event is a legal transition: it is inductive because copies
do not change between those steps. `StatusesAreLogged` says that any status, in a
row or in a copy however old, is in the log, and the log only grows. From both,
the event a session commits follows by an edge from a logged status, which is
`HistoryWellFounded`; that the appeal statuses have their ground in the log is
then a matter of which edges lead there. `RightsClockArmed` needs that the only
commit that ends an ACTIVE deadline, NO_RESPONSE, also leaves UNDER_PROCESSING,
even if the row was changed since its copy was loaded, because its copy was
itself UNDER_PROCESSING and the status column therefore differs and is written.

The second module reduces every step to three kinds (`LogStep`): an application is
created, one event is committed on it (`Commitment`), or its row and log stay. On
top of that each property has the strengthening it needs:

* `StatusIsLastCommitted` is inductive with `SessionsSound`: a commit writes the
  status of the event it appends, because by `SessionsSound` the edge leads from its
  copy to a *different* status, so the column is flushed.
* `SilenceOnlyAfterLapse` needs that every application in a sweep's batch, or held by
  a session about to commit NO_RESPONSE, has a lapsed deadline already; deadlines are
  never removed and the clock never goes back (`LapseLasts`).
* `AppealsMatchFilings` needs the count of an event in an appended log
  (`OccurrencesAppend`), and that only `CommitAppeal` commits a filing.
* `StampsMatchHistory` needs `CopiesDated`: every date a session's copy carries, the row
  carries too, so a flush by column clears none.
* `EvidenceIsFromAResponse` needs `CopiesQuote`: the ledger copies a session holds
  satisfy the property themselves, however old they are.
* `DeadlinesMatchHistory` is a matter of counting: a commit adds at most one deadline
  and ends at most one.

### The lifecycle (`LifecycleProofs`, one session)

* `EngineImplementsLifecycle`: `Spec => ImplementsLifecycle`;
* `LogOrderTells`: `Spec => []LogOrderTellsStatus`.

The invariant `Serial`: every copy the session holds is the row as it stands, so the
edge its event was checked against leads from the row; a case has one deadline, from
UNDER_PROCESSING on, ACTIVE while it is there (no cycle of the table passes through
UNDER_PROCESSING), so NO_RESPONSE finds and marks it; logs are in the order of their
timestamps and end before the session began. It is what overlapping breaks: with two
sessions each of the three fails. The mapping's trail, `StatusTrail`, is a recursive
function of the log. That it is well defined and that an appended event adds its
status (`StatusTrailAppend`) is proved by induction over the length of the log, with
the least element of a set of naturals (`NatSetInduction`, from `WFMin`) in the place
of the library's induction theorems, which take an operator. Each step then maps to
`Open`, `Proceed`, `StartClock`, `DeclareSilence`, `FileAppeal` or a stutter.

### The case store (`CaseStoreProofs`)

`TypeCorrect`, `EveryTrailVerifies`, `StageIsOnTrail`, `StatusIsOnTrail`,
`DocumentsAreOnTrail`, `NotificationsLead`: the six invariants, whatever operations of
whatever tabs overlap; and `TrailsOnlyGrow`: `Spec => TrailAppendOnly` with one task.

The stored records alone are not inductive: what a suspended operation saves was read
earlier. `InFlight` says of the record it holds that it lacks only its chain, and that
stage, documents and the status the operation is *going to* write (`StatusDue`) agree
with its trail; `PagesOK` and `CopiesOK` say that what a tab shows or an offline copy
holds was once saved. A save is then sound whatever it overwrites. `ChainVerifies`
and `SettledGood` are the lemmas about the hash chain. Trails only grow because, with
one task, the stored trail is a prefix of the one the task holds (`Ahead`).

### Filing (`FilingProofs`)

`SameRequest`, `OneCaseEach`, `AnswersHold`, `OrphansBare`: the four invariants. The
invariant ties three things to each other: a script knows the application it made
(`FilingOK`), a call given up is what the script sent last (`StrayOK`), and the log of
an application holds the calls that were answered, in order, and at most one more
(`Reached`): exactly one while a call is answered `ok` and not yet received, none if it
was given up and is still astray. One case per visit rests on the button: while the
page is there and not creating, no script of the visit is alive (`ButtonMeansNone`).

### The desk (`DeskProofs`)

`OnlyIssuedIsValid` and `DraftsStandOnLog`. A certificate in circulation is signed over
its own fields, under whatever key (`Signed`), so one that verifies under the key of a
process is one it would sign itself; a draft that waits for the model holds a single
ground that the log, which only grows, still shows (`Grounded`). That the last grounding
event of a log is one (`TriggerIsOne`) is a lemma.

### The workspace (`WorkspaceProofs`)

`SeedsAreThere`, `DoorIsRight`, `OpenAccounted`, `RemedyTogether`, `LapseOnClocks`,
`KeptByDateOnly`, `WarnedFirst`: five invariants and the two action properties.

`CaseOK` is the heart of it. The surfaces judge a case by four different fields;
where they agree, and where what they differ by can be told, it is because these do:
released in stage, status and trail at once; OVERDUE only
where the window closed more than a rounding ago; and each seeded case in one of the
few statuses it can come to (`CanBe`), for no operation makes a case overdue. On top
come the seeds themselves (`SeedCaseIsOK`), the rounding of half days, and counts of
unions of disjoint sets of cases (`OpenAccounted`). The doors need that a closed tab has no
load waiting, and that a demo session has its cases or a load that builds them
(`TabOK`).

### The service worker (`OfflineShellProofs`)

`AlwaysAnswered`, `NeverMixesVersions`, `DeployedGenuine`. `Answered` says what a host
may have answered when an asset of version v was asked for: that asset, or index.html
of a *later* version, which is why the key of the deployed version never holds it. It
is stated of the cache and of every response still waiting to be stored alike.

## 5. Only model-checked

Liveness under fairness (`LapsedCaseIsDeclared`, `PressEnds`, `PoolFreesUp`,
`ReadyAgain`) is outside the prover, and so is what the runs of section 3 refute. What
the theorems assume of constants beyond the modules' assumptions is only that one
session, or one task, is all there is, where that is said. `MCWorkspace` has a
recursive operator (`MovedTo`, which builds a starting point); no module with a theorem
uses it.

## 6. Not modelled

* Rendering, charts, translation, formatting, marketing and help pages, search, the
  lists of trails, notifications and authorities, the page that verifies an uploaded
  certificate: they read. Marking a notification read sets a flag no other part looks at.
* The scores and findings of the Application Doctor: regular expressions over the
  wording. Its rewrite and its hand-over to the create page are in `FilingFlow`.
* The prompts of the language model and the text of drafts.
* Migrations, configuration, application wiring, seeding scripts.
* Functions without a caller: `create_deadline`, `first_appeal_due`,
  `markOverdue`, `addVersion`. So a case created in the browser never becomes
  OVERDUE, and no FIRST_APPEAL deadline is ever made.
* The status code of an answer (a racing filing escapes as a 500, `service.py:326`),
  a full localStorage, and who an audit entry names.
* Import and export of the offline copy as a file.

## 7. Plan

Done: the case engine, the case store with tabs, the filing flow, the desk, the
workspace with the pages of both sides, the service worker; and the proofs of all
their safety properties and of the engine's refinement of its lifecycle.

Left, most important first.

1. Abstract specifications of two more components, with their refinements proved: an
   append-only trail per case, implemented by `CaseStore` with one task (`TrailsOnlyGrow`
   and `EveryTrailVerifies` hold most of it); one valid answer or one failure,
   implemented by the model client of `Desk`.
2. What survives of the lifecycle when sessions overlap: the abstract specification in
   which a case may be replayed from an earlier point (`HistoryWellFounded`), and the
   engine's refinement of it for any number of sessions.
3. The workspace from a workspace with cases of any past, with `CaseOK` as its
   assumption in the place of `Init`.
4. Import and export of the offline copy, with a copy older than the stored case.
