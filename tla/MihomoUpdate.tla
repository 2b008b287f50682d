---------------------------- MODULE MihomoUpdate ----------------------------
(***************************************************************************)
(* Replacing, refreshing and clearing the subscription of Mihomo           *)
(* (internal/controlplane/mihomo.go, mihomoUpdate).  The handler writes    *)
(* two files of which only one is the control plane's: config.yaml, which  *)
(* Mihomo reads when it starts, and mihomo.json, the settings.  A third    *)
(* file, the provider cache, is Mihomo's: it keeps the nodes it has        *)
(* fetched, serves them after a start until it has fetched again, and does *)
(* not note which subscription they are from.                              *)
(*                                                                         *)
(* Nodes stand for the subscription they were fetched from: a              *)
(* configuration is the URL and whose nodes it has listeners for.  Mihomo  *)
(* runs on by itself: it fetches (every hour, when it has no nodes, and    *)
(* when mihomoProbe asks), and Docker starts it again when it has ended.   *)
(*                                                                         *)
(* pc is the step of the handler, which holds lifecycleMu and rotationMu:  *)
(*                                                                         *)
(*    idle                              no update                          *)
(*    invalidate, bootstrap, restart    the new URL without listeners      *)
(*    nodes, listeners, restart2, ready the nodes and their listeners      *)
(*    persist                           the settings, last                 *)
(*    undoConfig, undoCache, undoRestart   rollback()                      *)
(***************************************************************************)
EXTENDS Naturals

CONSTANTS
    Urls,        \* subscriptions
    NoUrl,       \* no subscription, no nodes, no cache file
    MaxUpdates,  \* BOUND: updates
    MaxFailures  \* BOUND: calls that fail, crashes of the control plane

Sources == Urls \cup {NoUrl}

Configs == [url : Sources, nodes : Sources]

Steps == {"idle", "invalidate", "bootstrap", "restart", "nodes", "listeners",
          "restart2", "ready", "persist", "undoConfig", "undoCache", "undoRestart"}

Undoing == {"undoConfig", "undoCache", "undoRestart"}

ASSUME UpdateAssumption == NoUrl \notin Urls /\ MaxUpdates \in Nat /\ MaxFailures \in Nat

VARIABLES
    config,    \* config.yaml
    settings,  \* mihomo.json
    cache,     \* providers/gateway-subscription.yaml
    mihomo,    \* the process: is it up, the configuration and nodes it runs
    pc,
    target,    \* request.SubscriptionURL
    fresh,     \* the request clears or replaces the URL
    nodes,     \* request.Nodes
    previous,  \* config.yaml as it was, which previousConfig ought to be
    legible,   \* previousConfig is that file, not empty because reading failed
    snapshot,  \* providerCache
    updates, failures,
    spoiled,   \* HISTORY: an update was cut short or its rollback failed
    doubt,     \* HISTORY: the cache may be another subscription's ...
    doubtful   \* HISTORY: ... and it was so when the snapshot was taken

request == <<target, fresh, nodes, previous, legible, snapshot, doubtful>>
files == <<config, settings, cache>>
updateVars ==
    <<files, mihomo, pc, request, updates, failures, spoiled, doubt>>

Config(url, ns) == [url |-> url, nodes |-> ns]

\* The image comes with a configuration without subscription.
Shipped == Config(NoUrl, NoUrl)

Running(c) ==
    [up |-> TRUE, config |-> c, provider |-> IF c.url = NoUrl THEN NoUrl ELSE cache]

UpdateInit ==
    /\ config = Shipped /\ settings = Shipped /\ cache = NoUrl
    /\ mihomo = [up |-> TRUE, config |-> Shipped, provider |-> NoUrl]
    /\ pc = "idle"
    /\ target = NoUrl /\ fresh = FALSE /\ nodes = NoUrl
    /\ previous = Shipped /\ legible = TRUE /\ snapshot = NoUrl
    /\ updates = 0 /\ failures = 0
    /\ spoiled = FALSE /\ doubt = FALSE /\ doubtful = FALSE

-----------------------------------------------------------------------------
(* The handler *)

Fails == failures < MaxFailures /\ failures' = failures + 1
Works == UNCHANGED failures

Goto(step) == pc' = step

\* resolveMihomoSettings; a URL that cannot be fetched changes nothing.  The
\* error of reading config.yaml is ignored.
Begin(url, replaces) ==
    /\ pc = "idle" /\ updates < MaxUpdates
    /\ updates' = updates + 1
    /\ target' = url /\ fresh' = replaces /\ nodes' = NoUrl
    /\ previous' = config
    /\ \/ legible' = TRUE /\ Works
       \/ legible' = FALSE /\ Fails
    /\ snapshot' = NoUrl
    /\ Goto(IF replaces THEN "invalidate" ELSE "bootstrap")
    /\ UNCHANGED <<files, mihomo, spoiled, doubt, doubtful>>

Replace == \E url \in Urls : Begin(url, TRUE)
RefreshNodes == Begin(settings.url, FALSE)
ClearUrl == Begin(NoUrl, TRUE)

\* Faulty variant: the cache of the former subscription is left in place.
InvalidateNothing ==
    /\ pc = "invalidate"
    /\ snapshot' = cache
    /\ doubt' = FALSE /\ doubtful' = doubt
    /\ Goto("bootstrap") /\ Works
    /\ UNCHANGED <<files, mihomo, target, fresh, nodes, previous, legible, updates,
                   spoiled>>

Invalidate ==
    /\ pc = "invalidate"
    /\ \/ /\ snapshot' = cache /\ cache' = NoUrl
          /\ doubt' = FALSE /\ doubtful' = doubt
          /\ Goto("bootstrap") /\ Works
       \/ /\ Goto("idle") /\ Fails
          /\ UNCHANGED <<cache, snapshot, doubt, doubtful>>
    /\ UNCHANGED <<config, settings, mihomo, target, fresh, nodes, previous, legible,
                   updates, spoiled>>

WriteConfig(step, ns, next) ==
    /\ pc = step
    /\ \/ config' = Config(target, ns) /\ Goto(next) /\ Works
       \/ Goto("undoConfig") /\ Fails /\ UNCHANGED config
    /\ UNCHANGED <<settings, cache, mihomo, request, updates, spoiled, doubt>>

WriteBootstrap == WriteConfig("bootstrap", NoUrl, "restart")
WriteListeners == WriteConfig("listeners", nodes, "restart2")

\* validateMihomoConfig and restartByName.  A failure leaves Mihomo as it was,
\* restarted after all, or down.
RestartMihomo(step, next) ==
    /\ pc = step
    /\ \/ mihomo' = Running(config) /\ Goto(next) /\ Works
       \/ /\ mihomo' \in {mihomo, Running(config), [mihomo EXCEPT !.up = FALSE]}
          /\ Goto("undoConfig") /\ Fails
    /\ UNCHANGED <<files, request, updates, spoiled, doubt>>

Restart == RestartMihomo("restart", IF target = NoUrl THEN "ready" ELSE "nodes")
RestartWithListeners == RestartMihomo("restart2", "ready")

\* Faulty variant: waits for the nodes without a deadline.
AwaitNodesForever ==
    /\ pc = "nodes"
    /\ mihomo.up /\ mihomo.provider # NoUrl
    /\ nodes' = mihomo.provider
    /\ Goto("listeners") /\ Works
    /\ UNCHANGED <<files, mihomo, target, fresh, previous, legible, snapshot, doubtful,
                   updates, spoiled, doubt>>

\* waitMihomoNodes: polls, for 15 seconds at the most.
AwaitNodes ==
    /\ pc = "nodes"
    /\ \/ /\ mihomo.up /\ mihomo.provider # NoUrl
          /\ nodes' = mihomo.provider /\ Goto("listeners") /\ Works
       \/ /\ ~mihomo.up \/ mihomo.provider = NoUrl
          /\ Goto("undoConfig") /\ Works /\ UNCHANGED nodes
       \/ Goto("undoConfig") /\ Fails /\ UNCHANGED nodes
    /\ UNCHANGED <<files, mihomo, target, fresh, previous, legible, snapshot, doubtful,
                   updates, spoiled, doubt>>

\* waitMihomoReady, waitMihomoListeners and initializeMihomoSelections, which
\* give up after 10 seconds, or when one call fails.
AwaitReady ==
    /\ pc = "ready"
    /\ \/ mihomo.up /\ Goto("persist") /\ Works
       \/ ~mihomo.up /\ Goto("undoConfig") /\ Works
       \/ Goto("undoConfig") /\ Fails
    /\ UNCHANGED <<files, mihomo, request, updates, spoiled, doubt>>

Persist ==
    /\ pc = "persist"
    /\ \/ /\ settings' = Config(target, nodes)
          /\ spoiled' = FALSE
          /\ Goto("idle") /\ Works
       \/ Goto("undoConfig") /\ Fails /\ UNCHANGED <<settings, spoiled>>
    /\ UNCHANGED <<config, cache, mihomo, request, updates, doubt>>

-----------------------------------------------------------------------------
(* rollback: every error is ignored *)

\* Without previousConfig the file stays as the update has left it ...
UndoConfig ==
    /\ pc = "undoConfig"
    /\ \/ legible /\ config' = previous /\ Works /\ UNCHANGED spoiled
       \/ legible /\ Fails /\ spoiled' = TRUE /\ UNCHANGED config
       \/ ~legible /\ Works /\ spoiled' = TRUE /\ UNCHANGED config
    /\ Goto("undoCache")
    /\ UNCHANGED <<settings, cache, mihomo, request, updates, doubt>>

\* Faulty variant: what the update has put in the cache stays there.
UndoCacheNothing ==
    /\ pc = "undoCache"
    /\ Goto("undoRestart") /\ Works
    /\ UNCHANGED <<files, mihomo, request, updates, spoiled, doubt>>

\* restore does nothing unless the cache was invalidated; when it fails the
\* file is as it was, or removed.
UndoCache ==
    /\ pc = "undoCache"
    /\ \/ ~fresh /\ Works /\ UNCHANGED <<cache, doubt>>
       \/ fresh /\ Works /\ cache' = snapshot /\ doubt' = doubtful
       \/ fresh /\ Fails /\ cache' \in {cache, NoUrl} /\ doubt' = TRUE
    /\ Goto("undoRestart")
    /\ UNCHANGED <<config, settings, mihomo, request, updates, spoiled>>

\* Faulty variant: Mihomo goes on with the configuration that failed.
UndoWithoutRestart ==
    /\ pc = "undoRestart"
    /\ Goto("idle") /\ Works
    /\ UNCHANGED <<files, mihomo, request, updates, spoiled, doubt>>

\* ... and Mihomo as it is.  The settings are rewritten too, with what they
\* still contain.
UndoRestart ==
    /\ pc = "undoRestart"
    /\ \/ legible /\ mihomo' = Running(config) /\ Works /\ UNCHANGED spoiled
       \/ ~legible /\ Works /\ UNCHANGED <<mihomo, spoiled>>
       \/ /\ legible
          /\ mihomo' \in {mihomo, Running(config), [mihomo EXCEPT !.up = FALSE]}
          /\ spoiled' = TRUE /\ Fails
    /\ Goto("idle")
    /\ UNCHANGED <<files, request, updates, doubt>>

Handler ==
    \/ Invalidate \/ WriteBootstrap \/ Restart \/ AwaitNodes \/ WriteListeners
    \/ RestartWithListeners \/ AwaitReady \/ Persist
    \/ UndoConfig \/ UndoCache \/ UndoRestart

-----------------------------------------------------------------------------
(* What happens meanwhile *)

\* The URL whose nodes the cache ought to have.
Expected ==
    IF pc \in Undoing \cup {"idle", "invalidate"} THEN settings.url ELSE target

\* Mihomo fetches the subscription of the configuration it runs.
Fetch ==
    /\ mihomo.up /\ mihomo.config.url # NoUrl
    /\ mihomo' = [mihomo EXCEPT !.provider = mihomo.config.url]
    /\ cache' = mihomo.config.url
    /\ doubt' = (doubt \/ mihomo.config.url # Expected)
    /\ UNCHANGED <<config, settings, pc, request, updates, failures, spoiled>>

\* restart: unless-stopped
MihomoRestarts ==
    /\ mihomo' = Running(config)
    /\ UNCHANGED <<files, pc, request, updates, failures, spoiled, doubt>>

\* The control plane ends within an update; nothing resumes it.
ControlPlaneCrashes ==
    /\ pc # "idle"
    /\ Goto("idle") /\ Fails
    /\ spoiled' = TRUE /\ doubt' = TRUE
    /\ UNCHANGED <<files, mihomo, request, updates>>

UpdateNext ==
    \/ Replace \/ RefreshNodes \/ ClearUrl \/ Handler
    \/ Fetch \/ MihomoRestarts \/ ControlPlaneCrashes

UpdateSpec == UpdateInit /\ [][UpdateNext]_updateVars

\* The handler is one goroutine, all of whose calls and waits are bounded.
UpdateFairness == WF_updateVars(Handler)

-----------------------------------------------------------------------------
(* Properties *)

\* The types of the variables.
UpdateTypeOK ==
    /\ config \in Configs /\ settings \in Configs /\ previous \in Configs
    /\ cache \in Sources /\ snapshot \in Sources
    /\ mihomo \in [up : BOOLEAN, config : Configs, provider : Sources]
    /\ pc \in Steps /\ legible \in BOOLEAN
    /\ target \in Sources /\ nodes \in Sources /\ fresh \in BOOLEAN
    /\ updates \in 0 .. MaxUpdates /\ failures \in 0 .. MaxFailures
    /\ spoiled \in BOOLEAN /\ doubt \in BOOLEAN /\ doubtful \in BOOLEAN

\* Between updates the settings, the configuration file and the configuration
\* that Mihomo runs agree, whichever step of an update has failed
\* (mihomo.go:184-195); save after a crash within an update, a failure of the
\* rollback, or a rollback that had not been able to read what it restores
\* (mihomo.go:181, 185, 189), and then again after the next update that
\* succeeds.
Agreement ==
    pc = "idle" /\ ~spoiled
    => config = settings /\ (mihomo.up => mihomo.config = config)

\* The nodes that are saved with a subscription are that subscription's, which
\* is what the cache is invalidated for (mihomo.go:196-198); save where Mihomo
\* has fetched the former subscription after the invalidation and before the
\* restart, or a crash or a failed rollback left a cache behind.
NodesOfSubscription ==
    [][settings' # settings => settings'.nodes = settings'.url \/ doubt]_updateVars

\* Mihomo never starts from nodes of another subscription: between updates the
\* cache is the saved subscription's or absent (mihomo.go:596-624).
CacheOfSubscription ==
    pc = "idle" /\ ~doubt => cache \in {NoUrl, settings.url}

\* lifecycleMu and rotationMu are released whatever Mihomo does: an update
\* ends, also when Mihomo never comes up or its nodes never arrive
\* (mihomo.go:455-560).
UpdateEnds == pc # "idle" ~> pc = "idle"
=============================================================================
