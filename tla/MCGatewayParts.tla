--------------------------- MODULE MCGatewayParts ---------------------------
(***************************************************************************)
(* Four parts of a gateway that share no state, for TLC: the relay of a    *)
(* stream, the lifecycle events of a Responses stream, the proxy list and  *)
(* the audit records.  A behaviour is a behaviour of one of them; the      *)
(* others rest in an initial state.                                        *)
(***************************************************************************)
EXTENDS StreamRelay, MCResponsesLifecycle, ProxyList, AuditLog, TLC

VARIABLE part

\* A direct slot whose address a proxy of the configuration shares, or one of the
\* file; a proxy that is configured twice; a file of three proxies of which two
\* share an address, and of one of them and a proxy that is configured.
ListBase == <<"direct", "s1", "s2", "s2">>
ListFiles == {<<"d1", "d2", "d3">>, <<"d2", "s2">>}
ListWorlds ==
    { "direct" :> "e1" @@ "s1" :> "e1" @@ "s2" :> "e2"
        @@ "d1" :> "e3" @@ "d2" :> "e3" @@ "d3" :> "e4",
      "direct" :> "e2" @@ "s1" :> "down" @@ "s2" :> "e1"
        @@ "d1" :> "e3" @@ "d2" :> "e2" @@ "d3" :> "down" }

PartsInit ==
    /\ part \in {"relay", "events", "list", "audit"}
    /\ RelayInit /\ (part # "relay" => ~responses /\ ~delayed)
    /\ EventsInit /\ (part # "events" => upstream = CHOOSE u \in Upstreams : TRUE)
    /\ ListInit /\ (part # "list" => /\ file = CHOOSE f \in Files : TRUE
                                     /\ world = CHOOSE w \in Worlds : TRUE)
    /\ AuditInit

PartsNext ==
    /\ UNCHANGED part
    /\ \/ part = "relay" /\ RelayNext /\ UNCHANGED <<eventVars, listVars, auditVars>>
       \/ part = "events" /\ EventsNext /\ UNCHANGED <<relayVars, listVars, auditVars>>
       \/ part = "list" /\ ListNext /\ UNCHANGED <<relayVars, eventVars, auditVars>>
       \/ part = "audit" /\ AuditNext /\ UNCHANGED <<relayVars, eventVars, listVars>>

partsVars == <<part, relayVars, eventVars, listVars, auditVars>>

\* RelayFairness and ListFairness, each in its part.
PartsFairness ==
    /\ WF_relayVars(part = "relay" /\ (StartRead \/ Hold \/ Pass))
    /\ WF_relayVars(part = "relay" /\ Timer)
    /\ WF_relayVars(part = "relay" /\ Tick)
    /\ WF_listVars(part = "list" /\ ListProceeds)
    /\ WF_listVars(part = "list" /\ StartRefresh("loop"))

PartsSpec == PartsInit /\ [][PartsNext]_partsVars /\ PartsFairness

\* Once file and network are quiet the list has, for good, a slot for each
\* address that the proxies of the file lead to (gateway.go:517-620).
ListServedThere == part = "list" => ListServed
=============================================================================
