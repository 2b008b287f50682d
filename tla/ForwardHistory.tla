--------------------------- MODULE ForwardHistory ---------------------------
(***************************************************************************)
(* Forward with history: which address every attempt left through, and     *)
(* what each exit has been found guilty of at its present address.  The    *)
(* history variables only watch; every step is a step of Forward.          *)
(***************************************************************************)
EXTENDS Forward

VARIABLES
    via,    \* via[r]: the address of r's slot when r was sent
    guilty  \* exits that have failed, or answered 5xx, at their address

hvars == <<vars, via, guilty>>

HInit ==
    /\ Init
    /\ via = [r \in Requests |-> NoEgress]
    /\ guilty = {}

\* A failure speaks against the exit if the exit still has the address the
\* request went through; a broken body does so only while the request's own
\* context has not ended, for the end of the context breaks the body too.
SameExit(r) == slots[req[r].at].egress = via[r]
Broken(r) == SameExit(r) /\ ~req[r].ended

Charge(r, charged) ==
    /\ guilty' = IF charged THEN guilty \cup {req[r].at} ELSE guilty
    /\ UNCHANGED via

WatchRequest(r) ==
    \/ Send(r) /\ via' = [via EXCEPT ![r] = slots[req[r].at].egress]
               /\ UNCHANGED guilty
    \/ (TransportError(r) \/ ServerError(r)) /\ Charge(r, SameExit(r))
    \/ (BodyFails(r) \/ NoFirstOutput(r) \/ RelayFails(r)) /\ Charge(r, Broken(r))
    \/ /\ \/ Begin(r) \/ ContextEnds(r) \/ Abort(r) \/ Pick(r) \/ Wait(r)
          \/ NoUntriedSlot(r) \/ WaitTimeout(r) \/ Malformed(r)
          \/ TooManyRequests(r)
          \/ Accept(r) \/ Retry(r) \/ GiveUp(r) \/ Deliver(r)
          \/ CommitStream(r) \/ ClientLost(r) \/ TooLarge(r) \/ RelayEnds(r)
          \/ RelayStops(r) \/ SwitchExit(r)
       /\ UNCHANGED <<via, guilty>>

\* An exit with a new address starts with a clean record.
HNext ==
    \/ \E r \in Requests : WatchRequest(r)
    \/ /\ Control
       /\ guilty' = {s \in guilty : slots'[s].egress = slots[s].egress}
       /\ UNCHANGED via
    \/ Tick /\ UNCHANGED <<via, guilty>>

HSpec == HInit /\ [][HNext]_hvars

-----------------------------------------------------------------------------
\* An exit is cooled as a whole only for faults of its own connection, never
\* because the client of a request left (the comment on body failures).
OnlyFaultsCool == \A s \in Slots : slots[s].until > 0 => s \in guilty
=============================================================================
