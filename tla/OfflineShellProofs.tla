-------------------------- MODULE OfflineShellProofs --------------------------
(***************************************************************************)
(* Proofs about the service worker for any set of tabs, any number of      *)
(* deployments and both kinds of host.                                     *)
(***************************************************************************)
EXTENDS OfflineShellProperties, TLAPS

-----------------------------------------------------------------------------
(* The invariant the proofs induct on.                                     *)

Bodies == [what : {"none", "error", "shell", "asset"}, of : Nat]

TypeOK ==
  /\ deployed \in Versions
  /\ worker \in {"none", "installed", "active"}
  /\ cache \in [{SHELL} \cup Versions -> Bodies]
  /\ writes \subseteq [key : {SHELL} \cup Versions, body : Bodies]
  /\ page \in [Tabs -> [shell : Bodies, asset : Bodies, controlled : BOOLEAN]]

\* A shell the host has served, or its error page.
Served(body) == body = Error \/ \E v \in 1..deployed : body = Shell(v)

\* What the host may have answered with ok when version v's asset was asked
\* for: the asset, or index.html of a later version.
Answered(v, body) == body = Asset(v) \/ \E d \in (v + 1)..deployed : body = Shell(d)

\* The cache, and what is on its way there.
CacheGenuine ==
  /\ cache[SHELL] = None \/ Served(cache[SHELL])
  /\ \A v \in Versions : cache[v] = None \/ Answered(v, cache[v])
  /\ \A w \in writes : IF w.key = SHELL THEN Served(w.body) ELSE Answered(w.key, w.body)

\* The worker is not installed before its shell is stored.
InstalledWithShell == worker # "none" => cache[SHELL] # None

\* A tab is closed, or has been answered a shell.
TabsAnswered ==
  \A t \in Tabs : \/ page[t] = Closed
                  \/ Served(page[t].shell)

IInv == TypeOK /\ CacheGenuine /\ InstalledWithShell /\ TabsAnswered /\ RunsItsOwnCode
-----------------------------------------------------------------------------
\* The kinds of body are told apart.
LEMMA BodiesDiffer ==
  /\ None \in Bodies /\ Error \in Bodies
  /\ \A v \in Nat : Shell(v) \in Bodies /\ Asset(v) \in Bodies
  /\ None # Error
  /\ \A v, w \in Nat : /\ Shell(v) # None /\ Shell(v) # Error /\ Shell(v) # Asset(w)
                       /\ Asset(v) # None /\ Asset(v) # Error
                       /\ Asset(v) = Asset(w) => v = w
                       /\ Shell(v) = Shell(w) => v = w
BY DEF None, Error, Shell, Asset, Bodies

\* A deployment takes nothing away from what was served before.
LEMMA DeployKeeps ==
  ASSUME TypeOK, deployed' = deployed + 1, NEW body
  PROVE  /\ Served(body) => Served(body)'
         /\ \A v \in Versions : Answered(v, body) => Answered(v, body)'
<1>1. deployed \in Nat
  BY ShellAssumption DEF TypeOK, Versions
<1>2. 1..deployed \subseteq 1..(deployed + 1)
  BY <1>1
<1>3. \A v \in Versions : (v + 1)..deployed \subseteq (v + 1)..(deployed + 1)
  BY <1>1, ShellAssumption DEF Versions
<1> QED
  BY <1>2, <1>3 DEF Served, Answered
-----------------------------------------------------------------------------
(* Every step keeps the invariant.                                         *)

LEMMA InitInv == Init => IInv
<1> SUFFICES ASSUME Init PROVE IInv
  OBVIOUS
<1>1. None \in Bodies /\ 1 \in Versions /\ SHELL \notin Versions
  BY BodiesDiffer, ShellAssumption DEF Versions, SHELL
<1>2. TypeOK
  BY <1>1 DEF Init, TypeOK, Closed
<1>3. CacheGenuine /\ InstalledWithShell /\ TabsAnswered
  BY <1>1 DEF Init, CacheGenuine, InstalledWithShell, TabsAnswered
<1>4. RunsItsOwnCode
  BY DEF Init, RunsItsOwnCode, Runs, Closed, None
<1> QED
  BY <1>2, <1>3, <1>4 DEF IInv

\* A tab is given a shell and no asset yet.
LEMMA ShowShell ==
  ASSUME IInv, NEW t \in Tabs, NEW body, Served(body), NEW held \in BOOLEAN,
         page' = [page EXCEPT ![t] = [shell |-> body, asset |-> None, controlled |-> held]],
         UNCHANGED <<deployed, worker, cache>>,
         writes' \subseteq writes \cup {[key |-> SHELL, body |-> body]}
  PROVE  IInv'
<1>0. Served(body)' /\ body \in Bodies /\ None \in Bodies
  BY BodiesDiffer, ShellAssumption DEF Served, IInv, TypeOK, Versions
<1>1. TypeOK'
  BY <1>0 DEF IInv, TypeOK
<1>2. CacheGenuine'
  BY <1>0 DEF IInv, CacheGenuine, Served, Answered
<1>3. TabsAnswered'
  BY <1>0 DEF IInv, TypeOK, TabsAnswered, Served
<1>4. RunsItsOwnCode'
  BY DEF IInv, TypeOK, RunsItsOwnCode, Runs, None
<1> QED
  BY <1>1, <1>2, <1>3, <1>4 DEF IInv, InstalledWithShell

\* A tab whose shell is of version v is given one answer for its asset, and
\* another may be on its way to the cache.
LEMMA ShowAsset ==
  ASSUME IInv, NEW t \in Tabs, NEW v \in Versions, page[t].shell = Shell(v),
         NEW body, body = Error \/ Answered(v, body),
         NEW stored, stored = Error \/ Answered(v, stored),
         page' = [page EXCEPT ![t].asset = body],
         UNCHANGED <<deployed, worker, cache>>,
         writes' \subseteq writes \cup {[key |-> v, body |-> stored]},
         stored = Error => writes' \subseteq writes
  PROVE  IInv'
<1>0. v # SHELL /\ body \in Bodies /\ stored \in Bodies
  BY BodiesDiffer, ShellAssumption DEF Answered, IInv, TypeOK, Versions, SHELL
<1>1. TypeOK'
  BY <1>0 DEF IInv, TypeOK
<1>2. CacheGenuine'
  <2>1. \A w \in writes' : w \in writes \/ (w.key = v /\ w.body = stored /\ Answered(v, stored))
    OBVIOUS
  <2> QED
    BY <1>0, <2>1 DEF IInv, CacheGenuine, Served, Answered
<1>3. TabsAnswered'
  <2>1. \A u \in Tabs : page'[u] = page[u] \/ (u = t /\ page'[u].shell = Shell(v))
    BY DEF IInv, TypeOK
  <2>2. Served(Shell(v)) \/ page[t] = Closed
    BY DEF IInv, TabsAnswered
  <2>3. page[t] # Closed
    BY BodiesDiffer DEF Closed, Versions
  <2> QED
    BY <2>1, <2>2, <2>3 DEF IInv, TabsAnswered, Served
<1>4. RunsItsOwnCode'
  <2>1. body.what = "asset" => body = Asset(v)
    BY DEF Answered, Error, Shell
  <2>2. page'[t] = [page[t] EXCEPT !.asset = body] /\ Shell(v).of = v
    BY DEF IInv, TypeOK, Shell
  <2>3. \A u \in Tabs \ {t} : page'[u] = page[u]
    BY DEF IInv, TypeOK
  <2>4. page'[t].asset = body /\ page'[t].shell = Shell(v)
    BY <2>2 DEF IInv, TypeOK
  <2> QED
    BY <2>1, <2>2, <2>3, <2>4 DEF IInv, RunsItsOwnCode, Runs
<1> QED
  BY <1>1, <1>2, <1>3, <1>4 DEF IInv, InstalledWithShell

LEMMA NextInv ==
  ASSUME IInv, [Next]_vars
  PROVE  IInv'
<1>0. /\ deployed \in Versions /\ deployed \in 1..deployed /\ SHELL \notin Versions
      /\ Served(Shell(deployed)) /\ Served(Error)
  BY ShellAssumption DEF IInv, TypeOK, Versions, SHELL, Served
<1>1. CASE Deploy
  <2>1. deployed' = deployed + 1 /\ UNCHANGED <<online, worker, cache, writes, page>>
    BY <1>1 DEF Deploy
  <2>2. deployed' \in Versions
    BY <1>0, <1>1, ShellAssumption DEF Deploy, Versions
  <2>3. TypeOK'
    BY <2>1, <2>2 DEF IInv, TypeOK
  <2>4. CacheGenuine'
    <3>1. \A w \in writes : w.key \in {SHELL} \cup Versions
      BY DEF IInv, TypeOK
    <3> QED
      BY <1>0, <2>1, <3>1, DeployKeeps DEF IInv, CacheGenuine
  <2>5. TabsAnswered'
    BY <2>1, DeployKeeps DEF IInv, TabsAnswered
  <2> QED
    BY <2>1, <2>3, <2>4, <2>5 DEF IInv, InstalledWithShell, RunsItsOwnCode, Runs
<1>2. CASE Network \/ UNCHANGED vars
  BY <1>2 DEF Network, vars, IInv, TypeOK, CacheGenuine, Served, Answered,
              InstalledWithShell, TabsAnswered, RunsItsOwnCode, Runs
<1>3. CASE Activate
  <2>0. \A t \in Tabs : page'[t] = [page[t] EXCEPT !.controlled = page[t] # Closed]
    BY <1>3 DEF Activate
  <2>1. /\ \A t \in Tabs : /\ page'[t].shell = page[t].shell
                           /\ page'[t].asset = page[t].asset
                           /\ page'[t].controlled \in BOOLEAN
                           /\ page[t] = Closed => page'[t] = Closed
        /\ page' \in [Tabs -> [shell : Bodies, asset : Bodies, controlled : BOOLEAN]]
        /\ worker = "installed" /\ worker' = "active"
        /\ UNCHANGED <<deployed, online, cache, writes>>
    <3>0. ASSUME NEW t \in Tabs
          PROVE  \/ page[t] = Closed /\ page'[t] = [page[t] EXCEPT !.controlled = FALSE]
                 \/ page[t] # Closed /\ page'[t] = [page[t] EXCEPT !.controlled = TRUE]
      <4>1. (page[t] # Closed) = TRUE \/ (page[t] # Closed) = FALSE
        BY Zenon
      <4> QED
        BY <2>0, <4>1, Zenon
    <3>1. ASSUME NEW t \in Tabs
          PROVE  /\ page'[t] \in [shell : Bodies, asset : Bodies, controlled : BOOLEAN]
                 /\ page'[t].shell = page[t].shell /\ page'[t].asset = page[t].asset
                 /\ page[t] = Closed => page'[t] = Closed
      <4>0. page[t] \in [shell : Bodies, asset : Bodies, controlled : BOOLEAN]
        BY DEF IInv, TypeOK
      <4>1. CASE page[t] = Closed
        <5>0. Closed.controlled = FALSE
          BY DEF Closed
        <5>1. page'[t] = [page[t] EXCEPT !.controlled = FALSE] /\ page[t].controlled = FALSE
          BY <3>0, <4>1, <5>0, Zenon
        <5>2. page'[t] = page[t]
          BY <4>0, <5>1
        <5> QED
          BY <4>0, <4>1, <5>2
      <4>2. CASE page[t] # Closed
        <5>1. page'[t] = [page[t] EXCEPT !.controlled = TRUE]
          BY <3>0, <4>2
        <5> QED
          BY <4>0, <4>2, <5>1
      <4> QED
        BY <4>1, <4>2
    <3>2. page' = [t \in Tabs |-> page'[t]]
      BY <1>3 DEF Activate
    <3> QED
      BY <1>3, <3>1, <3>2 DEF Activate
  <2>2. TypeOK'
    BY <2>1 DEF IInv, TypeOK
  <2>3. CacheGenuine' /\ InstalledWithShell'
    BY <2>1 DEF IInv, CacheGenuine, InstalledWithShell, Served, Answered
  <2>4. TabsAnswered' /\ RunsItsOwnCode'
    BY <2>1 DEF IInv, TabsAnswered, Served, RunsItsOwnCode, Runs
  <2> QED
    BY <2>2, <2>3, <2>4 DEF IInv
<1>4. ASSUME NEW t \in Tabs, Install(t) PROVE IInv'
  <2>1. /\ cache' = [cache EXCEPT ![SHELL] = Shell(deployed)]
        /\ worker' = "installed" /\ UNCHANGED <<deployed, online, writes, page>>
    BY <1>4 DEF Install
  <2>2. Shell(deployed) \in Bodies /\ Shell(deployed) # None
    BY <1>0, BodiesDiffer DEF Versions
  <2>3. cache'[SHELL] = Shell(deployed) /\ \A v \in Versions : cache'[v] = cache[v]
    BY <1>0, <2>1 DEF IInv, TypeOK
  <2>4. TypeOK'
    BY <2>1, <2>2 DEF IInv, TypeOK
  <2>5. CacheGenuine'
    BY <1>0, <2>1, <2>3 DEF IInv, CacheGenuine, Served, Answered
  <2> QED
    BY <2>1, <2>2, <2>3, <2>4, <2>5
       DEF IInv, InstalledWithShell, TabsAnswered, Served, RunsItsOwnCode, Runs
<1>5. ASSUME NEW t \in Tabs, NavigateThroughWorker(t) PROVE IInv'
  <2>1. ASSUME NEW body \in HostShell,
               page' = [page EXCEPT ![t] = [shell |-> body, asset |-> None, controlled |-> TRUE]],
               writes' = writes \cup {[key |-> SHELL, body |-> body]}
        PROVE  IInv'
    <3>1. Served(body)
      BY <1>0 DEF HostShell
    <3> QED
      BY <1>5, <2>1, <3>1, ShowShell DEF NavigateThroughWorker
  <2>2. ASSUME page' = [page EXCEPT ![t] = [shell |-> cache[SHELL], asset |-> None, controlled |-> TRUE]],
               writes' = writes
        PROVE  IInv'
    <3>1. Served(cache[SHELL])
      BY <1>5 DEF NavigateThroughWorker, IInv, InstalledWithShell, CacheGenuine
    <3> QED
      BY <1>5, <2>2, <3>1, ShowShell DEF NavigateThroughWorker
  <2> QED
    BY <1>5, <2>1, <2>2 DEF NavigateThroughWorker
<1>6. ASSUME NEW t \in Tabs, NavigateDirectly(t) PROVE IInv'
  <2>1. PICK body \in HostShell :
          page' = [page EXCEPT ![t] = [shell |-> body, asset |-> None, controlled |-> FALSE]]
    BY <1>6 DEF NavigateDirectly
  <2>2. Served(body)
    BY <1>0 DEF HostShell
  <2> QED
    BY <1>6, <2>1, <2>2, ShowShell DEF NavigateDirectly
<1>7. ASSUME NEW t \in Tabs, LoadAsset(t) PROVE IInv'
  <2> DEFINE v == page[t].shell.of
  <2>1. Served(page[t].shell) /\ page[t].shell = Shell(v) /\ v \in 1..deployed
    <3>1. page[t] # Closed /\ page[t].shell.what = "shell"
      BY <1>7 DEF LoadAsset, IsShell, Closed, None
    <3>2. PICK d \in 1..deployed : page[t].shell = Shell(d)
      BY <3>1 DEF IInv, TabsAnswered, Served, Error
    <3>3. v = d
      BY <3>2 DEF Shell
    <3> QED
      BY <3>2, <3>3 DEF Served
  <2>2. v \in Versions
    BY <1>0, <2>1, ShellAssumption DEF Versions
  <2>3. ASSUME NEW body \in HostAsset(v) PROVE body = Error \/ Answered(v, body)
    <3>1. v # deployed => deployed \in (v + 1)..deployed
      BY <1>0, <2>1, ShellAssumption DEF Versions
    <3> QED
      BY <2>3, <3>1 DEF HostAsset, Answered
  <2>4. CASE AssetDirectly(t)
    <3>1. PICK body \in HostAsset(v) : page' = [page EXCEPT ![t].asset = body]
      BY <2>4 DEF AssetDirectly
    <3> HIDE DEF v
    <3> QED
      BY <1>7, <2>1, <2>2, <2>3, <2>4, <3>1, ShowAsset DEF LoadAsset, AssetDirectly
  <2>5. CASE AssetThroughWorker(t)
    <3>1. cache[v] = None \/ Answered(v, cache[v])
      BY <2>2 DEF IInv, CacheGenuine
    <3>2. ASSUME page' = [page EXCEPT ![t].asset = cache[v]], cache[v] # None, writes' = writes
          PROVE  IInv'
      BY <1>7, <2>1, <2>2, <3>1, <3>2, ShowAsset DEF LoadAsset
    <3>3. ASSUME NEW body \in HostAsset(v),
                 page' = [page EXCEPT ![t].asset = IF cache[v] # None THEN cache[v] ELSE body],
                 writes' = IF Ok(body) THEN writes \cup {[key |-> v, body |-> body]} ELSE writes
          PROVE  IInv'
      <4>1. CASE cache[v] = None
        BY <1>7, <2>1, <2>2, <2>3, <3>3, <4>1, ShowAsset DEF LoadAsset, Ok
      <4>2. CASE cache[v] # None
        BY <1>7, <2>1, <2>2, <2>3, <3>1, <3>3, <4>2, ShowAsset DEF LoadAsset, Ok
      <4> QED
        BY <4>1, <4>2
    <3> QED
      BY <2>5, <3>2, <3>3 DEF AssetThroughWorker
  <2> QED
    BY <1>7, <2>4, <2>5 DEF LoadAsset
<1>8. ASSUME NEW w \in writes, Store(w) PROVE IInv'
  <2>1. /\ w.key \in {SHELL} \cup Versions /\ w.body \in Bodies
        /\ IF w.key = SHELL THEN Served(w.body) ELSE Answered(w.key, w.body)
    BY DEF IInv, TypeOK, CacheGenuine
  <2>2. /\ cache' = [cache EXCEPT ![w.key] = w.body] /\ writes' = writes \ {w}
        /\ UNCHANGED <<deployed, online, worker, page>>
    BY <1>8 DEF Store
  <2>3. TypeOK'
    BY <2>1, <2>2 DEF IInv, TypeOK
  <2>4. \A k \in {SHELL} \cup Versions : cache'[k] = IF k = w.key THEN w.body ELSE cache[k]
    BY <2>1, <2>2 DEF IInv, TypeOK
  <2>5. CacheGenuine'
    BY <1>0, <2>1, <2>2, <2>4 DEF IInv, CacheGenuine, Served, Answered
  <2>6. InstalledWithShell'
    BY <1>0, <2>1, <2>2, <2>4, BodiesDiffer, ShellAssumption
       DEF IInv, InstalledWithShell, Served, TypeOK, Versions
  <2> QED
    BY <2>2, <2>3, <2>5, <2>6 DEF IInv, TabsAnswered, Served, RunsItsOwnCode, Runs
<1>9. ASSUME NEW w \in writes, Lose(w) PROVE IInv'
  BY <1>9 DEF Lose, IInv, TypeOK, CacheGenuine, Served, Answered,
              InstalledWithShell, TabsAnswered, RunsItsOwnCode, Runs
<1>10. ASSUME NEW t \in Tabs, Close(t) PROVE IInv'
  <2>1. /\ page' = [page EXCEPT ![t] = Closed]
        /\ UNCHANGED <<deployed, online, worker, cache, writes>>
    BY <1>10 DEF Close
  <2>2. TypeOK'
    BY <2>1, BodiesDiffer DEF IInv, TypeOK, Closed
  <2>3. CacheGenuine' /\ InstalledWithShell'
    BY <2>1 DEF IInv, CacheGenuine, InstalledWithShell, Served, Answered
  <2>4. TabsAnswered' /\ RunsItsOwnCode'
    BY <2>1 DEF IInv, TypeOK, TabsAnswered, Served, RunsItsOwnCode, Runs, Closed, None
  <2> QED
    BY <2>2, <2>3, <2>4 DEF IInv
<1> QED
  BY <1>1, <1>2, <1>3, <1>4, <1>5, <1>6, <1>7, <1>8, <1>9, <1>10 DEF Next, Navigate

LEMMA Invariant == Spec => []IInv
BY InitInv, NextInv, PTL DEF Spec
-----------------------------------------------------------------------------
(* What the worker guarantees.                                             *)

\* A tab in the care of the worker has been answered a shell, online or not,
\* whatever was deployed, stored or lost (sw.js: install waits for the shell).
THEOREM AlwaysAnswered == Spec => []ControlledTabsAreAnswered
<1>1. IInv => ControlledTabsAreAnswered
  BY BodiesDiffer, ShellAssumption
     DEF IInv, TypeOK, TabsAnswered, ControlledTabsAreAnswered, Served, Closed, Versions
<1> QED
  BY <1>1, Invariant, PTL

\* No page runs code of another version than its shell's, however stale the
\* stored shell and the stored asset are.
THEOREM NeverMixesVersions == Spec => []RunsItsOwnCode
<1>1. IInv => RunsItsOwnCode
  BY DEF IInv
<1> QED
  BY <1>1, Invariant, PTL

\* What is stored for the asset of the deployed version is that asset: an
\* index.html in the place of an asset is always one of an earlier version.
THEOREM DeployedGenuine == Spec => []DeployedAssetIsGenuine
<1>1. ASSUME IInv PROVE DeployedAssetIsGenuine
  <2>1. (deployed + 1)..deployed = {}
    BY <1>1, ShellAssumption DEF IInv, TypeOK, Versions
  <2> QED
    BY <1>1, <2>1 DEF IInv, TypeOK, CacheGenuine, Answered, DeployedAssetIsGenuine
<1> QED
  BY <1>1, Invariant, PTL
===============================================================================
