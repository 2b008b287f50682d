--------------------------- MODULE MCControlParts ---------------------------
(***************************************************************************)
(* Two parts of the control plane that share no state, for TLC: the update *)
(* of Mihomo's subscription and the login of the administrator.  A         *)
(* behaviour is a behaviour of one of them; the other rests in its initial *)
(* state.                                                                  *)
(***************************************************************************)
EXTENDS MihomoUpdate, AdminSession

VARIABLE part

partsVars == <<part, updateVars, sessionVars>>

PartsInit == part \in {"update", "session"} /\ UpdateInit /\ SessionInit

PartsNext ==
    /\ UNCHANGED part
    /\ \/ part = "update" /\ UpdateNext /\ UNCHANGED sessionVars
       \/ part = "session" /\ SessionNext /\ UNCHANGED updateVars

PartsSpec == PartsInit /\ [][PartsNext]_partsVars /\ UpdateFairness
=============================================================================
