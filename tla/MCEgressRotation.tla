-------------------------- MODULE MCEgressRotation --------------------------
(***************************************************************************)
(* Five gateways: one with a port to itself; one with the direct slot and  *)
(* a port; one with two ports; one whose only port is also the third's;    *)
(* one behind a proxy that is not Mihomo's.                                *)
(***************************************************************************)
EXTENDS EgressRotation, TLC

Other == CHOOSE r \in OtherProxies : TRUE

FiveGateways ==
    1 :> <<1>> @@ 2 :> <<Direct, 2>> @@ 3 :> <<3, 2>> @@ 4 :> <<3>> @@ 5 :> <<Other>>

FixedAddresses == (Direct :> "e1") @@ (Other :> "e2")

FourNodes == {<<"e1", "e1", "e2", "e3">>, <<"e1", "e1", "e1", "e2">>}
=============================================================================
