------------------------ MODULE ControlParts_proofs -------------------------
(***************************************************************************)
(* Two parts of the control plane that share no state, each for every      *)
(* value of its constants: the update of the Mihomo subscription and the   *)
(* sessions and passwords of the administrator.                            *)
(*                                                                         *)
(* Mihomo: the invariant says, step by step, what the handler has made of  *)
(* the files and of Mihomo so far, and what rollback() will put in their   *)
(* place.                                                                  *)
(*                                                                         *)
(* Administrator: the invariant about sessions relates the table to what   *)
(* was granted and ended; the one about the credential says that a change  *)
(* that is being written is still unsaved, and that one change is written  *)
(* at a time.                                                              *)
(***************************************************************************)
EXTENDS MihomoUpdate, AdminSession, TLAPS

-----------------------------------------------------------------------------
(* The update of the subscription (module MihomoUpdate) *)

-----------------------------------------------------------------------------
(* Types *)

LEMMA RunningType ==
  ASSUME UpdateTypeOK
  PROVE  Running(config) \in [up : BOOLEAN, config : Configs, provider : Sources]
BY DEF UpdateTypeOK, Running, Configs, Sources

LEMMA UpdateNextTypes == UpdateTypeOK /\ [UpdateNext]_updateVars => UpdateTypeOK'
<1> SUFFICES ASSUME UpdateTypeOK, [UpdateNext]_updateVars PROVE UpdateTypeOK'
  OBVIOUS
<1> USE UpdateAssumption DEF UpdateTypeOK, Steps, Works, Goto, files, request
<1>works. ASSUME Fails PROVE failures' \in 0 .. MaxFailures
  BY <1>works DEF Fails
<1>1. CASE Replace \/ RefreshNodes \/ ClearUrl
  <2>1. PICK url \in Sources, replaces \in BOOLEAN : Begin(url, replaces)
    BY <1>1 DEF Replace, RefreshNodes, ClearUrl, Sources, Configs
  <2>2. updates' \in 0 .. MaxUpdates
    BY <2>1 DEF Begin
  <2>3. failures' \in 0 .. MaxFailures /\ legible' \in BOOLEAN
    BY <2>1, <1>works DEF Begin
  <2> QED
    BY <2>1, <2>2, <2>3 DEF Begin, Sources
<1>2. CASE Invalidate
  BY <1>2, <1>works DEF Invalidate, Sources
<1>3. CASE WriteBootstrap \/ WriteListeners
  BY <1>3, <1>works DEF WriteBootstrap, WriteListeners, WriteConfig, Config, Configs, Sources
<1>4. CASE Restart \/ RestartWithListeners
  BY <1>4, <1>works, RunningType DEF Restart, RestartWithListeners, RestartMihomo
<1>5. CASE AwaitNodes
  BY <1>5, <1>works DEF AwaitNodes
<1>6. CASE AwaitReady
  BY <1>6, <1>works DEF AwaitReady
<1>7. CASE Persist
  <2>1. Config(target, nodes) \in Configs
    BY DEF Config, Configs
  <2>2. settings' \in Configs /\ failures' \in 0 .. MaxFailures
    BY <1>7, <1>works, <2>1 DEF Persist
  <2>3. spoiled' \in BOOLEAN
    BY <1>7 DEF Persist
  <2> QED
    BY <1>7, <2>2, <2>3 DEF Persist
<1>8. CASE UndoConfig
  BY <1>8, <1>works DEF UndoConfig
<1>9. CASE UndoCache
  BY <1>9, <1>works DEF UndoCache, Sources
<1>10. CASE UndoRestart
  BY <1>10, <1>works, RunningType DEF UndoRestart
<1>11. CASE Fetch
  BY <1>11 DEF Fetch, Configs
<1>12. CASE MihomoRestarts
  BY <1>12, RunningType DEF MihomoRestarts
<1>13. CASE ControlPlaneCrashes
  BY <1>13, <1>works DEF ControlPlaneCrashes
<1>14. CASE UNCHANGED updateVars
  BY <1>14 DEF updateVars
<1> QED
  BY <1>1, <1>2, <1>3, <1>4, <1>5, <1>6, <1>7, <1>8, <1>9, <1>10, <1>11, <1>12,
     <1>13, <1>14 DEF UpdateNext, Handler

LEMMA UpdateInitTypes == UpdateInit => UpdateTypeOK
<1> SUFFICES ASSUME UpdateInit PROVE UpdateTypeOK
  OBVIOUS
<1>1. NoUrl \in Sources /\ Shipped \in Configs
  BY DEF Shipped, Config, Configs, Sources
<1>2. mihomo \in [up : BOOLEAN, config : Configs, provider : Sources]
  BY <1>1 DEF UpdateInit
<1>3. 0 \in 0 .. MaxUpdates /\ 0 \in 0 .. MaxFailures
  BY UpdateAssumption
<1>4. spoiled \in BOOLEAN /\ doubt \in BOOLEAN /\ doubtful \in BOOLEAN /\ fresh \in BOOLEAN
  BY DEF UpdateInit
<1>5. pc \in Steps
  BY DEF UpdateInit, Steps
<1>6. legible \in BOOLEAN
  BY DEF UpdateInit
<1> QED
  BY <1>1, <1>2, <1>3, <1>4, <1>5, <1>6 DEF UpdateInit, UpdateTypeOK

\* The types of the variables of MihomoUpdate.
THEOREM UpdateTypes == UpdateSpec => []UpdateTypeOK
<1>1. UpdateInit => UpdateTypeOK
  BY UpdateInitTypes
<1>2. UpdateTypeOK /\ [UpdateNext]_updateVars => UpdateTypeOK'
  BY UpdateNextTypes
<1> QED
  BY <1>1, <1>2, PTL DEF UpdateSpec

-----------------------------------------------------------------------------
(* The invariant *)

RunsConfig == mihomo.up => mihomo.config = config

\* Where the handler stands, and what the files and Mihomo are then.  As long
\* as nothing has been spoiled, the settings are what rollback() goes back to.
Progress ==
    /\ pc \in {"idle", "invalidate", "bootstrap"} /\ ~spoiled
       => config = settings /\ RunsConfig
    /\ pc # "idle" /\ ~spoiled => previous = settings
    /\ pc \in {"invalidate", "bootstrap", "restart", "nodes"} => nodes = NoUrl
    /\ pc \in {"restart", "nodes"} => config = Config(target, NoUrl)
    /\ pc \in {"restart2", "ready", "persist"} => config = Config(target, nodes)
    /\ pc \in {"ready", "persist"} => RunsConfig
    /\ pc \in {"undoCache", "undoRestart"} /\ ~spoiled => legible /\ config = settings

\* Whose nodes the cache has; what the snapshot would bring back.
CacheKept ==
    /\ ~doubt /\ ~(pc \in {"undoConfig", "undoCache"} /\ fresh)
       => cache \in {NoUrl, Expected}
    /\ pc \notin {"idle", "invalidate"} /\ fresh /\ ~doubtful
       => snapshot \in {NoUrl, settings.url}
    /\ pc # "idle" /\ ~fresh => target = settings.url

\* Whose nodes Mihomo offers, and which the handler has taken.
NodesTaken ==
    /\ pc = "nodes" /\ ~doubt => mihomo.provider \in {NoUrl, target}
    /\ pc \in {"listeners", "restart2", "ready", "persist"} /\ ~doubt
       => nodes = target

UpdateInv == UpdateTypeOK /\ Progress /\ CacheKept /\ NodesTaken

LEMMA UpdateInit_Inv == UpdateInit => UpdateInv
<1> SUFFICES ASSUME UpdateInit PROVE UpdateInv
  OBVIOUS
<1>1. Progress
  BY DEF UpdateInit, Progress, RunsConfig
<1>2. CacheKept
  BY DEF UpdateInit, CacheKept, Expected, Undoing
<1>3. NodesTaken
  BY DEF UpdateInit, NodesTaken
<1> QED
  BY <1>1, <1>2, <1>3, UpdateInitTypes DEF UpdateInv

\* Every step that changes something keeps the three parts.
LEMMA ProgressKept ==
  ASSUME UpdateInv, [UpdateNext]_updateVars
  PROVE  Progress'
<1> USE DEF UpdateInv, Progress, RunsConfig, Goto, files, request
<1>1. CASE Replace \/ RefreshNodes \/ ClearUrl
  <2>1. PICK url \in Sources, replaces \in BOOLEAN : Begin(url, replaces)
    BY <1>1 DEF Replace, RefreshNodes, ClearUrl, UpdateTypeOK, Configs, Sources
  <2> QED
    BY <2>1 DEF Begin
<1>2. CASE Invalidate
  BY <1>2 DEF Invalidate
<1>3. CASE WriteBootstrap \/ WriteListeners
  BY <1>3 DEF WriteBootstrap, WriteListeners, WriteConfig
<1>4. CASE Restart \/ RestartWithListeners
  BY <1>4 DEF Restart, RestartWithListeners, RestartMihomo, Running
<1>5. CASE AwaitNodes
  BY <1>5 DEF AwaitNodes
<1>6. CASE AwaitReady
  BY <1>6 DEF AwaitReady
<1>7. CASE Persist
  BY <1>7 DEF Persist
<1>8. CASE UndoConfig
  BY <1>8 DEF UndoConfig
<1>9. CASE UndoCache
  BY <1>9 DEF UndoCache
<1>10. CASE UndoRestart
  BY <1>10 DEF UndoRestart, Running
<1>11. CASE Fetch
  BY <1>11 DEF Fetch, UpdateTypeOK
<1>12. CASE MihomoRestarts
  BY <1>12 DEF MihomoRestarts, Running
<1>13. CASE ControlPlaneCrashes
  BY <1>13 DEF ControlPlaneCrashes
<1>14. CASE UNCHANGED updateVars
  BY <1>14 DEF updateVars
<1> QED
  BY <1>1, <1>2, <1>3, <1>4, <1>5, <1>6, <1>7, <1>8, <1>9, <1>10, <1>11, <1>12,
     <1>13, <1>14 DEF UpdateNext, Handler

LEMMA CacheStays ==
  ASSUME UpdateInv, [UpdateNext]_updateVars
  PROVE  CacheKept'
<1> USE DEF UpdateInv, CacheKept, Expected, Undoing, Goto, files, request
<1>1. CASE Replace \/ RefreshNodes \/ ClearUrl
  <2>1. PICK url \in Sources, replaces \in BOOLEAN :
          Begin(url, replaces) /\ (~replaces => url = settings.url)
    BY <1>1 DEF Replace, RefreshNodes, ClearUrl, UpdateTypeOK, Configs, Sources
  <2> QED
    BY <2>1 DEF Begin
<1>2. CASE Invalidate
  BY <1>2 DEF Invalidate
<1>3. CASE WriteBootstrap \/ WriteListeners
  BY <1>3 DEF WriteBootstrap, WriteListeners, WriteConfig
<1>4. CASE Restart \/ RestartWithListeners
  BY <1>4 DEF Restart, RestartWithListeners, RestartMihomo
<1>5. CASE AwaitNodes
  BY <1>5 DEF AwaitNodes
<1>6. CASE AwaitReady
  BY <1>6 DEF AwaitReady
<1>7. CASE Persist
  BY <1>7 DEF Persist, Config
<1>8. CASE UndoConfig
  BY <1>8 DEF UndoConfig
<1>9. CASE UndoCache
  BY <1>9 DEF UndoCache
<1>10. CASE UndoRestart
  BY <1>10 DEF UndoRestart
<1>11. CASE Fetch
  BY <1>11 DEF Fetch
<1>12. CASE MihomoRestarts
  BY <1>12 DEF MihomoRestarts
<1>13. CASE ControlPlaneCrashes
  BY <1>13 DEF ControlPlaneCrashes
<1>14. CASE UNCHANGED updateVars
  BY <1>14 DEF updateVars
<1> QED
  BY <1>1, <1>2, <1>3, <1>4, <1>5, <1>6, <1>7, <1>8, <1>9, <1>10, <1>11, <1>12,
     <1>13, <1>14 DEF UpdateNext, Handler

LEMMA NodesStay ==
  ASSUME UpdateInv, [UpdateNext]_updateVars
  PROVE  NodesTaken'
<1> USE DEF UpdateInv, NodesTaken, Goto, files, request
<1>1. CASE Replace \/ RefreshNodes \/ ClearUrl
  <2>1. PICK url \in Sources, replaces \in BOOLEAN : Begin(url, replaces)
    BY <1>1 DEF Replace, RefreshNodes, ClearUrl, UpdateTypeOK, Configs, Sources
  <2> QED
    BY <2>1 DEF Begin
<1>2. CASE Invalidate
  BY <1>2 DEF Invalidate
<1>3. CASE WriteBootstrap \/ WriteListeners
  BY <1>3 DEF WriteBootstrap, WriteListeners, WriteConfig
<1>4. CASE Restart \/ RestartWithListeners
  BY <1>4 DEF Restart, RestartWithListeners, RestartMihomo, Running, Progress,
              CacheKept, Expected, Undoing
<1>5. CASE AwaitNodes
  BY <1>5 DEF AwaitNodes
<1>6. CASE AwaitReady
  BY <1>6 DEF AwaitReady
<1>7. CASE Persist
  BY <1>7 DEF Persist
<1>8. CASE UndoConfig
  BY <1>8 DEF UndoConfig
<1>9. CASE UndoCache
  BY <1>9 DEF UndoCache
<1>10. CASE UndoRestart
  BY <1>10 DEF UndoRestart
<1>11. CASE Fetch
  BY <1>11 DEF Fetch, Expected, Undoing, UpdateTypeOK
<1>12. CASE MihomoRestarts
  BY <1>12 DEF MihomoRestarts, Running, Progress, Config, CacheKept, Expected, Undoing
<1>13. CASE ControlPlaneCrashes
  BY <1>13 DEF ControlPlaneCrashes
<1>14. CASE UNCHANGED updateVars
  BY <1>14 DEF updateVars
<1> QED
  BY <1>1, <1>2, <1>3, <1>4, <1>5, <1>6, <1>7, <1>8, <1>9, <1>10, <1>11, <1>12,
     <1>13, <1>14 DEF UpdateNext, Handler

LEMMA UpdateNext_Inv == UpdateInv /\ [UpdateNext]_updateVars => UpdateInv'
<1> SUFFICES ASSUME UpdateInv, [UpdateNext]_updateVars PROVE UpdateInv'
  OBVIOUS
<1>1. UpdateTypeOK'
  BY UpdateNextTypes DEF UpdateInv
<1> QED
  BY <1>1, ProgressKept, CacheStays, NodesStay DEF UpdateInv

\* The invariant of an update: what each of its steps may rely on, from
\* reading the settings to the end of rollback() (mihomo.go:152-201).
THEOREM UpdateInvariant == UpdateSpec => []UpdateInv
BY UpdateInit_Inv, UpdateNext_Inv, PTL DEF UpdateSpec

-----------------------------------------------------------------------------
(* What follows from it *)

\* Whichever step of an update fails, when rollback() has done its work the
\* settings, config.yaml and the running Mihomo agree (mihomo.go:184-195).
THEOREM FilesAgree == UpdateSpec => []Agreement
<1>1. UpdateInv => Agreement
  BY DEF UpdateInv, Progress, RunsConfig, Agreement
<1> QED
  BY <1>1, UpdateInvariant, PTL

\* The provider cache is never left with the nodes of a subscription that is
\* not the saved one (mihomo.go:596-624), but for a crash or a failed rollback.
THEOREM CacheBelongs == UpdateSpec => []CacheOfSubscription
<1>1. UpdateInv => CacheOfSubscription
  BY DEF UpdateInv, CacheKept, Expected, Undoing, CacheOfSubscription
<1> QED
  BY <1>1, UpdateInvariant, PTL

\* An update saves the nodes of its own subscription (mihomo.go:196-198).
THEOREM NodesBelong == UpdateSpec => NodesOfSubscription
<1>1. UpdateInv /\ [UpdateNext]_updateVars
      => [settings' # settings => settings'.nodes = settings'.url \/ doubt]_updateVars
  <2> SUFFICES ASSUME UpdateInv, [UpdateNext]_updateVars, settings' # settings
               PROVE  settings'.nodes = settings'.url \/ doubt
    OBVIOUS
  <2>1. Persist
    BY DEF UpdateNext, Handler, Replace, RefreshNodes, ClearUrl, Begin, Invalidate,
           WriteBootstrap, WriteListeners, WriteConfig, Restart, RestartWithListeners,
           RestartMihomo, AwaitNodes, AwaitReady, UndoConfig, UndoCache, UndoRestart,
           Fetch, MihomoRestarts, ControlPlaneCrashes, updateVars, files
  <2> QED
    BY <2>1 DEF UpdateInv, NodesTaken, Persist, Config
<1> QED
  BY <1>1, UpdateInvariant, PTL DEF UpdateSpec, NodesOfSubscription

-----------------------------------------------------------------------------
(* Sessions and passwords (module AdminSession) *)

Times == 0 .. MaxNow + TTL

LEMMA SessionTimes ==
  /\ -1 \in {-1} \cup 0 .. MaxNow
  /\ \A t \in 0 .. MaxNow : t + TTL \in Times
BY SessionAssumption DEF Times

LEMMA SessionInitTypes == SessionInit => SessionTypeOK
<1> SUFFICES ASSUME SessionInit PROVE SessionTypeOK
  OBVIOUS
<1>1. 0 \in 0 .. MaxNow /\ 0 \in 0 .. MaxBreaks
  BY SessionAssumption
<1>2. unsaved \in BOOLEAN
  BY DEF SessionInit
<1> QED
  BY <1>1, <1>2, SessionTimes DEF SessionInit, SessionTypeOK, Credentials

LEMMA SessionNextTypes ==
  SessionTypeOK /\ [SessionNext]_sessionVars => SessionTypeOK'
<1> SUFFICES ASSUME SessionTypeOK, [SessionNext]_sessionVars PROVE SessionTypeOK'
  OBVIOUS
<1> USE DEF SessionTypeOK
<1>live. Live \subseteq sessions
  BY DEF Live
<1>created. Created \subseteq Ids
  BY DEF Created
<1>breaks. Breaks => breaks' \in 0 .. MaxBreaks
  BY SessionAssumption DEF Breaks
<1>1. ASSUME NEW c \in Clients, VerifyLogin(c) PROVE SessionTypeOK'
  BY <1>1 DEF VerifyLogin, Goes, credential
<1>2. ASSUME NEW c \in Clients, CreateSession(c) PROVE SessionTypeOK'
  <2>1. PICK id \in Ids :
          /\ sessions' = sessions \cup {[id |-> id, expires |-> now + TTL]}
          /\ granted' = [granted EXCEPT ![id] = now]
          /\ cookie' = [cookie EXCEPT ![c] = id]
    BY <1>2 DEF CreateSession
  <2>2. now + TTL \in 0 .. MaxNow + TTL
    BY SessionTimes DEF Times
  <2>3. sessions' \subseteq [id : Ids, expires : 0 .. MaxNow + TTL]
    BY <2>1, <2>2
  <2>4. granted' \in [Ids -> {-1} \cup 0 .. MaxNow]
    BY <2>1
  <2>5. cookie' \in [Clients -> Ids \cup {0}]
    BY <2>1
  <2> QED
    BY <1>2, <2>3, <2>4, <2>5 DEF CreateSession, Goes, credential
<1>3. ASSUME NEW c \in Clients, AllowChange(c) PROVE SessionTypeOK'
  BY <1>3, <1>live DEF AllowChange, Goes, credential, Credentials
<1>4. ASSUME NEW c \in Clients, ApplyChange(c) PROVE SessionTypeOK'
  BY <1>4, <1>created DEF ApplyChange, Goes
<1>5. ASSUME NEW c \in Clients, WriteCredential(c) PROVE SessionTypeOK'
  <2>1. file' \in Credentials \cup {Torn}
    BY <1>5 DEF WriteCredential
  <2>2. unsaved' \in BOOLEAN
    BY <1>5 DEF WriteCredential
  <2>3. breaks' \in 0 .. MaxBreaks
    BY <1>5, <1>breaks DEF WriteCredential
  <2> QED
    BY <1>5, <2>1, <2>2, <2>3 DEF WriteCredential, Goes
<1>6. ASSUME NEW c \in Clients, Logout(c) PROVE SessionTypeOK'
  BY <1>6 DEF Logout, credential
<1>7. CASE Authenticate
  BY <1>7, <1>live DEF Authenticate, credential
<1>8. CASE Tick
  <2>1. now' \in 0 .. MaxNow
    BY <1>8, SessionAssumption DEF Tick
  <2> QED
    BY <1>8, <2>1 DEF Tick, credential
<1>9. CASE RestartControl
  <2>1. PICK found \in Credentials \cup {Torn} :
          /\ auth' = Parsed(found) /\ file' = Parsed(found)
          /\ unsaved' = (unsaved /\ Parsed(found) # applied)
    BY <1>9 DEF RestartControl
  <2>2. Parsed(found) \in Credentials
    BY DEF Parsed, Credentials
  <2>3. unsaved' \in BOOLEAN
    BY <2>1
  <2> QED
    BY <1>9, <1>breaks, <1>created, <2>1, <2>2, <2>3 DEF RestartControl
<1>10. CASE UNCHANGED sessionVars
  BY <1>10 DEF sessionVars
<1> QED
  BY <1>1, <1>2, <1>3, <1>4, <1>5, <1>6, <1>7, <1>8, <1>9, <1>10 DEF SessionNext

\* The types of the variables of AdminSession; a file that was cut short never
\* becomes the credential (auth.go:58-71).
THEOREM SessionTypes == SessionSpec => []SessionTypeOK
BY SessionInitTypes, SessionNextTypes, PTL DEF SessionSpec

-----------------------------------------------------------------------------
(* The session table *)

InTable(id) == \E s \in sessions : s.id = id

SessionInv ==
    /\ SessionTypeOK
    /\ ended \subseteq Created
    /\ \A c \in Clients : cookie[c] # 0 => cookie[c] \in Created
    /\ \A s \in sessions : /\ s.id \in Created \ ended
                           /\ s.expires = granted[s.id] + TTL
    /\ \A id \in Created \ ended : now <= granted[id] + TTL => InTable(id)

\* A step that grants nothing and drops only sessions that have expired or are
\* ended.
LEMMA TableKept ==
  ASSUME SessionInv, SessionTypeOK', granted' = granted, sessions' \subseteq sessions,
         ended' \subseteq Created, ended \subseteq ended',
         \A c \in Clients : cookie'[c] \in {cookie[c], 0},
         \A s \in sessions' : s.id \notin ended',
         now' \in Int, now <= now',
         \A s \in sessions : s \in sessions' \/ s.id \in ended' \/ s.expires < now'
  PROVE  SessionInv'
<1>1. Created' = Created
  BY DEF Created
<1>2. ASSUME NEW id \in Created \ ended', now' <= granted[id] + TTL
      PROVE  \E s \in sessions' : s.id = id
  <2>1. granted[id] + TTL \in Int /\ now \in Int
    BY SessionAssumption DEF SessionInv, SessionTypeOK, Created
  <2>2. now <= granted[id] + TTL
    BY <1>2, <2>1
  <2>3. PICK s \in sessions : s.id = id
    BY <2>2 DEF SessionInv, InTable
  <2>4. s.expires = granted[id] + TTL
    BY <2>3 DEF SessionInv
  <2>5. ~(s.expires < now')
    BY <1>2, <2>1, <2>4
  <2> QED
    BY <2>3, <2>5
<1> QED
  BY <1>1, <1>2 DEF SessionInv, InTable

LEMMA NextTable == SessionInv /\ [SessionNext]_sessionVars => SessionInv'
<1> SUFFICES ASSUME SessionInv, [SessionNext]_sessionVars PROVE SessionInv'
  OBVIOUS
<1>t. SessionTypeOK'
  BY SessionNextTypes DEF SessionInv
<1>n. now \in Int /\ now' \in Int
  BY <1>t DEF SessionInv, SessionTypeOK
<1>own. ended \subseteq Created /\ \A s \in sessions : s.id \in Created \ ended
  BY DEF SessionInv
<1>live. \A s \in sessions : s \in Live \/ s.expires < now
  BY <1>n DEF Live, SessionInv, SessionTypeOK
<1>same. ASSUME UNCHANGED <<granted, sessions, ended, cookie, now>> PROVE SessionInv'
  BY <1>same, <1>t DEF SessionInv, InTable, Created
<1>drop. ASSUME sessions' = Live, UNCHANGED <<granted, ended, cookie, now>>
         PROVE  SessionInv'
  <2>1. sessions' \subseteq sessions
    BY <1>drop DEF Live
  <2> QED
    BY <1>drop, <1>t, <1>n, <1>own, <1>live, <2>1, TableKept
<1>clear. ASSUME sessions' = {}, ended' = Created, UNCHANGED <<granted, cookie, now>>
          PROVE  SessionInv'
  BY <1>clear, <1>t, <1>n, <1>own, TableKept
<1>1. ASSUME NEW c \in Clients, CreateSession(c) PROVE SessionInv'
  <2>1. PICK id \in Ids :
          /\ id \notin Created
          /\ sessions' = sessions \cup {[id |-> id, expires |-> now + TTL]}
          /\ granted' = [granted EXCEPT ![id] = now]
          /\ cookie' = [cookie EXCEPT ![c] = id]
    BY <1>1 DEF CreateSession
  <2>2. granted' \in [Ids -> {-1} \cup 0 .. MaxNow] /\ granted'[id] = now /\ now >= 0
    BY <2>1 DEF SessionInv, SessionTypeOK
  <2>3. \A k \in Ids \ {id} : granted'[k] = granted[k]
    BY <2>1 DEF SessionInv, SessionTypeOK
  <2>4. Created' = Created \cup {id}
    BY <2>2, <2>3 DEF Created
  <2>5. UNCHANGED <<ended, now>>
    BY <1>1 DEF CreateSession
  <2>6. \A d \in Clients : cookie'[d] # 0 => cookie'[d] \in Created'
    BY <2>1, <2>4 DEF SessionInv, SessionTypeOK
  <2>7. ASSUME NEW s \in sessions'
        PROVE  s.id \in Created' \ ended' /\ s.expires = granted'[s.id] + TTL
    <3>1. CASE s \in sessions
      <4>1. s.id \in Created \ ended /\ s.expires = granted[s.id] + TTL
        BY <3>1 DEF SessionInv
      <4>2. s.id \in Ids \ {id}
        BY <2>1, <4>1 DEF Created
      <4> QED
        BY <2>3, <2>4, <2>5, <4>1, <4>2
    <3>2. CASE s = [id |-> id, expires |-> now + TTL]
      BY <2>1, <2>2, <2>4, <2>5, <3>2, <1>own
    <3> QED
      BY <2>1, <3>1, <3>2
  <2>8. ASSUME NEW k \in Created' \ ended', now' <= granted'[k] + TTL
        PROVE  \E s \in sessions' : s.id = k
    <3>1. CASE k = id
      <4>1. [id |-> id, expires |-> now + TTL] \in sessions'
        BY <2>1
      <4>2. [id |-> id, expires |-> now + TTL].id = k
        BY <3>1
      <4> QED
        BY <4>1, <4>2
    <3>2. CASE k # id
      <4>1. k \in Created \ ended /\ granted'[k] = granted[k]
        BY <2>3, <2>4, <2>5, <3>2 DEF Created
      <4> QED
        BY <2>1, <2>5, <2>8, <4>1 DEF SessionInv, InTable
    <3> QED
      BY <3>1, <3>2
  <2>9. ended' \subseteq Created'
    BY <1>own, <2>4, <2>5
  <2> QED
    BY <1>t, <2>6, <2>7, <2>8, <2>9 DEF SessionInv, InTable
<1>2. ASSUME NEW c \in Clients, Logout(c) PROVE SessionInv'
  <2>1. /\ sessions' = {s \in sessions : s.id # cookie[c]}
        /\ ended' = ended \cup {cookie[c]}
        /\ cookie' = [cookie EXCEPT ![c] = 0]
        /\ cookie[c] # 0 /\ UNCHANGED <<granted, now>>
    BY <1>2 DEF Logout
  <2>2. ended' \subseteq Created
    BY <1>own, <2>1 DEF SessionInv
  <2>3. \A d \in Clients : cookie'[d] \in {cookie[d], 0}
    BY <2>1 DEF SessionInv, SessionTypeOK
  <2> QED
    BY <1>t, <1>n, <1>own, <2>1, <2>2, <2>3, TableKept
<1>3. ASSUME NEW c \in Clients, VerifyLogin(c) \/ WriteCredential(c) PROVE SessionInv'
  BY <1>3, <1>same DEF VerifyLogin, WriteCredential
<1>4. ASSUME NEW c \in Clients, AllowChange(c) PROVE SessionInv'
  BY <1>4, <1>drop DEF AllowChange
<1>5. ASSUME NEW c \in Clients, ApplyChange(c) PROVE SessionInv'
  BY <1>5, <1>clear DEF ApplyChange
<1>6. CASE Authenticate
  BY <1>6, <1>drop DEF Authenticate
<1>7. CASE Tick
  <2>1. now' = now + 1 /\ UNCHANGED <<granted, sessions, ended, cookie>>
    BY <1>7 DEF Tick
  <2>2. now <= now'
    BY <1>n, <2>1
  <2> QED
    BY <1>t, <1>n, <1>own, <2>1, <2>2, TableKept
<1>8. CASE RestartControl
  BY <1>8, <1>clear DEF RestartControl
<1>9. CASE UNCHANGED sessionVars
  BY <1>9, <1>same DEF sessionVars
<1> QED
  BY <1>1, <1>2, <1>3, <1>4, <1>5, <1>6, <1>7, <1>8, <1>9 DEF SessionNext

\* A session is accepted until it expires, its client logs out, the password
\* changes or the control plane restarts, and not a moment longer, in whatever
\* order the two halves of logins and changes run (auth.go:95-179).
THEOREM SessionsEnd == SessionSpec => []AcceptedUntilEnded
<1>1. SessionInit => SessionInv
  <2> SUFFICES ASSUME SessionInit PROVE SessionInv
    OBVIOUS
  <2>1. Created = {}
    BY DEF SessionInit, Created
  <2> QED
    BY <2>1, SessionInitTypes DEF SessionInit, SessionInv
<1>2. SessionInv /\ [SessionNext]_sessionVars => SessionInv'
  BY NextTable
<1>3. SessionInv => AcceptedUntilEnded
  <2> SUFFICES ASSUME SessionInv, NEW id \in Created
               PROVE  Accepted(id) <=> id \notin ended /\ now <= granted[id] + TTL
    BY DEF AcceptedUntilEnded
  <2>1. ASSUME Accepted(id) PROVE id \notin ended /\ now <= granted[id] + TTL
    BY <2>1 DEF Accepted, Live, SessionInv
  <2>2. ASSUME id \notin ended, now <= granted[id] + TTL PROVE Accepted(id)
    BY <2>2 DEF Accepted, Live, SessionInv, InTable
  <2> QED
    BY <2>1, <2>2
<1> QED
  BY <1>1, <1>2, <1>3, PTL DEF SessionSpec

-----------------------------------------------------------------------------
(* The credential *)

CredentialInv ==
    /\ SessionTypeOK
    /\ ~unsaved => auth = applied /\ file = applied
    /\ \A c \in Clients :
         step[c] = "writing" => unsaved /\ auth = applied
    /\ \A c, d \in Clients : step[c] = "writing" /\ step[d] = "writing" => c = d

LEMMA NextCredential ==
  CredentialInv /\ [SessionNext]_sessionVars => CredentialInv'
<1> SUFFICES ASSUME CredentialInv, [SessionNext]_sessionVars PROVE CredentialInv'
  OBVIOUS
<1>t. SessionTypeOK'
  BY SessionNextTypes DEF CredentialInv
<1>s. step \in [Clients -> {"idle", "verified", "allowed", "writing", "changed"}]
  BY DEF CredentialInv, SessionTypeOK
<1>go. ASSUME NEW c \in Clients, NEW to, to # "writing", Goes(c, to),
              UNCHANGED credential
       PROVE  CredentialInv'
  BY <1>go, <1>t, <1>s DEF Goes, credential, CredentialInv
<1>stay. ASSUME UNCHANGED <<step, credential>> PROVE CredentialInv'
  BY <1>stay, <1>t DEF credential, CredentialInv
<1>1. ASSUME NEW c \in Clients, VerifyLogin(c) PROVE CredentialInv'
  BY <1>1, <1>go DEF VerifyLogin
<1>2. ASSUME NEW c \in Clients, CreateSession(c) PROVE CredentialInv'
  BY <1>2, <1>go DEF CreateSession
<1>3. ASSUME NEW c \in Clients, AllowChange(c) PROVE CredentialInv'
  BY <1>3, <1>go DEF AllowChange
<1>4. ASSUME NEW c \in Clients, ApplyChange(c) PROVE CredentialInv'
  BY <1>4, <1>t, <1>s DEF ApplyChange, Goes, Unlocked, CredentialInv
<1>5. ASSUME NEW c \in Clients, WriteCredential(c) PROVE CredentialInv'
  <2>1. step[c] = "writing" /\ step' = [step EXCEPT ![c] = "changed"]
    BY <1>5 DEF WriteCredential, Goes
  <2>2. \A d \in Clients : step'[d] # "writing"
    BY <1>s, <2>1 DEF CredentialInv
  <2>3. auth = applied /\ unsaved /\ UNCHANGED <<auth, applied>>
    BY <1>5, <2>1 DEF WriteCredential, CredentialInv
  <2>4. ~unsaved' => file' = auth
    BY <1>5, <2>3 DEF WriteCredential
  <2> QED
    BY <1>t, <2>2, <2>3, <2>4 DEF CredentialInv
<1>6. ASSUME NEW c \in Clients, Logout(c) PROVE CredentialInv'
  BY <1>6, <1>stay DEF Logout
<1>7. CASE Authenticate \/ Tick
  BY <1>7, <1>stay DEF Authenticate, Tick
<1>8. CASE RestartControl
  <2>1. PICK found \in IF Unlocked THEN {file} ELSE {file, Torn, auth} :
          /\ auth' = Parsed(found) /\ file' = Parsed(found)
          /\ unsaved' = (unsaved /\ Parsed(found) # applied)
    BY <1>8 DEF RestartControl
  <2>2. applied' = applied /\ \A c \in Clients : step'[c] = "idle"
    BY <1>8 DEF RestartControl
  <2>3. ASSUME ~unsaved' PROVE Parsed(found) = applied
    <3>1. CASE unsaved
      BY <2>1, <2>3, <3>1
    <3>2. CASE ~unsaved
      <4>1. Unlocked /\ file = applied
        BY <3>2 DEF Unlocked, CredentialInv
      <4>2. found = applied /\ applied # Torn
        BY <2>1, <4>1, SessionAssumption DEF CredentialInv, SessionTypeOK, Credentials
      <4> QED
        BY <4>2 DEF Parsed
    <3> QED
      BY <3>1, <3>2
  <2> QED
    BY <1>t, <2>1, <2>2, <2>3 DEF CredentialInv
<1>9. CASE UNCHANGED sessionVars
  BY <1>9, <1>stay DEF sessionVars, credential
<1> QED
  BY <1>1, <1>2, <1>3, <1>4, <1>5, <1>6, <1>7, <1>8, <1>9 DEF SessionNext

\* The password that was set last is the one that is asked for, now and after
\* a restart, unless the write of admin.json failed (auth.go:81-88, 139-179).
THEOREM PasswordLasts == SessionSpec => []ChangeLasts
<1>1. SessionInit => CredentialInv
  BY SessionInitTypes DEF SessionInit, CredentialInv
<1>2. CredentialInv /\ [SessionNext]_sessionVars => CredentialInv'
  BY NextCredential
<1>3. CredentialInv => ChangeLasts
  BY DEF CredentialInv, ChangeLasts
<1> QED
  BY <1>1, <1>2, <1>3, PTL DEF SessionSpec
=============================================================================
