----------------------- MODULE OfflineShellProperties -----------------------
(* What the service worker guarantees.                                     *)
EXTENDS OfflineShell

\* sw.js waits for the shell before it is installed, so that a page in the
\* care of the worker is answered offline as well: a controlled tab never
\* shows the browser's own network error.
ControlledTabsAreAnswered ==
  \A t \in Tabs : page[t].controlled => page[t].shell # None

\* Stale-while-revalidate answers by the request and never mixes versions: the
\* code a page runs is that of its own shell, however old either is.
RunsItsOwnCode ==
  \A t \in Tabs : Runs(t) => page[t].asset = Asset(page[t].shell.of)

\* Neither an error page nor, on a host that rewrites, index.html is stored in
\* the place of the asset of the version that is deployed.
DeployedAssetIsGenuine ==
  cache[deployed] \in {None, Asset(deployed)}

\* What the shell and the asset are cached for: the page opens offline.
OpensOffline ==
  /\ worker = "active"
  /\ IsShell(cache[SHELL])
  /\ cache[cache[SHELL].of] = Asset(cache[SHELL].of)

\* A citizen who keeps coming back while the network lasts can, again and
\* again, be ready to open the app offline, whatever was deployed, lost or cloned too late
\* before (sw.js:4-6).
ReadyAgain == <>[]online => []<>OpensOffline
=============================================================================
