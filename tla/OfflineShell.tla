---------------------------- MODULE OfflineShell ----------------------------
(***************************************************************************)
(* The service worker of the frontend: the app shell (index.html) and the  *)
(* hashed assets it names, over deployments of new versions, in several    *)
(* tabs and with a network that comes and goes.                            *)
(*                                                                         *)
(* A cache write waits for caches.open and clones the response only then.  *)
(* If the page has read the body by that time, clone() throws and nothing  *)
(* is stored: "writes" holds the responses on their way to the cache, and  *)
(* each is stored or lost.                                                 *)
(***************************************************************************)
EXTENDS Naturals

CONSTANTS
  Tabs,        \* browser tabs
  MaxVersion,  \* bound: deployments of the frontend
  Rewrites     \* TRUE: the host answers a missing path with index.html and 200
               \* (public/_redirects); FALSE: with 404 (GitHub Pages)

ASSUME ShellAssumption == MaxVersion \in Nat \ {0} /\ Rewrites \in BOOLEAN

VARIABLES
  deployed,    \* the version the host serves
  online,      \* whether the network answers
  worker,      \* "none", "installed" or "active"
  cache,       \* the cache CACHE: the shell, and the asset of each version
  writes,      \* responses that wait to be put in the cache
  page         \* per tab: the shell and the asset it got, and who serves it

vars == <<deployed, online, worker, cache, writes, page>>

Versions == 1..MaxVersion

\* What an answer holds: index.html or the asset of a version, or an error page.
None     == [what |-> "none", of |-> 0]
Error    == [what |-> "error", of |-> 0]
Shell(v) == [what |-> "shell", of |-> v]
Asset(v) == [what |-> "asset", of |-> v]

\* The key of the shell; an asset's key is its version.
SHELL == 0

Closed == [shell |-> None, asset |-> None, controlled |-> FALSE]

IsShell(body) == body.what = "shell"
Runs(t) == page[t].asset.what = "asset"
-----------------------------------------------------------------------------
(* The host. An asset of an earlier version is gone.                       *)

HostShell == { Shell(deployed), Error }

HostAsset(v) ==
  { Error, IF v = deployed THEN Asset(v) ELSE IF Rewrites THEN Shell(deployed) ELSE Error }

\* Mutant of Ok: an answer is not looked at.
OkWhatever(body) == TRUE

Ok(body) == body # Error

Deploy ==
  /\ deployed < MaxVersion
  /\ deployed' = deployed + 1
  /\ UNCHANGED <<online, worker, cache, writes, page>>

Network ==
  /\ online' = ~online
  /\ UNCHANGED <<deployed, worker, cache, writes, page>>
-----------------------------------------------------------------------------
(* The worker.                                                             *)

\* Mutant of Install: it does not wait for the shell.
InstallUnwaited(t) ==
  /\ worker = "none" /\ online /\ Runs(t)
  /\ worker' = "installed"
  /\ UNCHANGED <<deployed, online, cache, writes, page>>

\* The app registers the worker after it has loaded. Its install stores the
\* shell, and fails on anything but an ok answer; skipWaiting.
Install(t) ==
  /\ worker = "none" /\ online /\ Runs(t)
  /\ worker' = "installed"
  /\ cache' = [cache EXCEPT ![SHELL] = Shell(deployed)]
  /\ UNCHANGED <<deployed, online, writes, page>>

\* Activation drops caches of other names (there are none) and claims the
\* pages that are open.
Activate ==
  /\ worker = "installed"
  /\ worker' = "active"
  /\ page' = [t \in Tabs |-> [page[t] EXCEPT !.controlled = page[t] # Closed]]
  /\ UNCHANGED <<deployed, online, cache, writes>>

\* Mutant of NavigateThroughWorker: the shell stays the one of the install.
NavigateKeepingShell(t) ==
  /\ worker = "active"
  /\ \E body \in IF online THEN HostShell ELSE {cache[SHELL]} :
       page' = [page EXCEPT ![t] = [shell |-> body, asset |-> None, controlled |-> TRUE]]
  /\ UNCHANGED <<deployed, online, worker, cache, writes>>

\* A navigation: the network first, whose answer, whatever it is, is stored
\* as the shell; without one, the stored shell.
NavigateThroughWorker(t) ==
  /\ worker = "active"
  /\ \/ /\ online
        /\ \E body \in HostShell :
             /\ page' = [page EXCEPT ![t] = [shell |-> body, asset |-> None, controlled |-> TRUE]]
             /\ writes' = writes \cup {[key |-> SHELL, body |-> body]}
     \/ /\ ~online
        /\ page' = [page EXCEPT ![t] = [shell |-> cache[SHELL], asset |-> None, controlled |-> TRUE]]
        /\ UNCHANGED writes
  /\ UNCHANGED <<deployed, online, worker, cache>>

\* Without the worker the browser asks the host itself.
NavigateDirectly(t) ==
  /\ worker # "active" /\ online
  /\ \E body \in HostShell :
       page' = [page EXCEPT ![t] = [shell |-> body, asset |-> None, controlled |-> FALSE]]
  /\ UNCHANGED <<deployed, online, worker, cache, writes>>

Navigate(t) == NavigateThroughWorker(t) \/ NavigateDirectly(t)

\* A page that is not controlled gets its asset from the host alone.
AssetDirectly(t) ==
  /\ ~page[t].controlled /\ online
  /\ \E body \in HostAsset(page[t].shell.of) : page' = [page EXCEPT ![t].asset = body]
  /\ UNCHANGED writes

\* A controlled page gets the stored asset, or else the host's; what the host
\* answers is stored if it is ok.
AssetThroughWorker(t) ==
  LET v      == page[t].shell.of
      cached == cache[v]
  IN /\ page[t].controlled
     /\ \/ /\ online
           /\ \E body \in HostAsset(v) :
                /\ page' = [page EXCEPT ![t].asset = IF cached # None THEN cached ELSE body]
                /\ writes' = IF Ok(body) THEN writes \cup {[key |-> v, body |-> body]} ELSE writes
        \/ /\ ~online /\ cached # None
           /\ page' = [page EXCEPT ![t].asset = cached]
           /\ UNCHANGED writes

LoadAsset(t) ==
  /\ IsShell(page[t].shell) /\ page[t].asset = None
  /\ AssetDirectly(t) \/ AssetThroughWorker(t)
  /\ UNCHANGED <<deployed, online, worker, cache>>

\* Mutant of Store: the key of an asset is read when the cache is open.
StoreAsOfNow(w) ==
  /\ w \in writes
  /\ cache' = [cache EXCEPT ![IF w.key = SHELL THEN SHELL ELSE deployed] = w.body]
  /\ writes' = writes \ {w}
  /\ UNCHANGED <<deployed, online, worker, page>>

\* caches.open has resolved: the clone is stored under the request's key ...
Store(w) ==
  /\ w \in writes
  /\ cache' = [cache EXCEPT ![w.key] = w.body]
  /\ writes' = writes \ {w}
  /\ UNCHANGED <<deployed, online, worker, page>>

\* ... or the body was read in the meantime.
Lose(w) ==
  /\ w \in writes
  /\ writes' = writes \ {w}
  /\ UNCHANGED <<deployed, online, worker, cache, page>>

Close(t) ==
  /\ page[t] # Closed
  /\ page' = [page EXCEPT ![t] = Closed]
  /\ UNCHANGED <<deployed, online, worker, cache, writes>>
-----------------------------------------------------------------------------
Init ==
  /\ deployed = 1
  /\ online = TRUE
  /\ worker = "none"
  /\ cache = [k \in {SHELL} \cup Versions |-> None]
  /\ writes = {}
  /\ page = [t \in Tabs |-> Closed]

Next ==
  \/ Deploy \/ Network \/ Activate
  \/ \E t \in Tabs : Install(t) \/ Navigate(t) \/ LoadAsset(t) \/ Close(t)
  \/ \E w \in writes : Store(w) \/ Lose(w)

Spec == Init /\ [][Next]_vars

\* A citizen who keeps coming back: visits are made again and again, they are
\* not always answered with an error, and what the current version answers is
\* not always cloned too late.
Revisits ==
  /\ WF_vars(Activate)
  /\ SF_vars(\E t \in Tabs : Navigate(t) /\ IsShell(page'[t].shell))
  /\ SF_vars(\E t \in Tabs : LoadAsset(t) /\ Runs(t)')
  /\ SF_vars(\E t \in Tabs : Install(t))
  /\ SF_vars(Store([key |-> SHELL, body |-> Shell(deployed)]))
  /\ SF_vars(Store([key |-> deployed, body |-> Asset(deployed)]))

FairSpec == Spec /\ Revisits
=============================================================================
