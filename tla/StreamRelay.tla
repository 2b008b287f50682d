----------------------------- MODULE StreamRelay -----------------------------
(***************************************************************************)
(* copyStreamResponse and copyResponsesStreamResponse: how one attempt of  *)
(* a streaming request passes the upstream's body on to the client         *)
(* (internal/gateway/gateway.go).  Chat completions are read line by line, *)
(* Responses event by event; both hold everything back in `pending' until  *)
(* the first output, bound the wait for it by a timer that counts from the *)
(* sending of the request, and judge the stream by how it ended.           *)
(*                                                                         *)
(*    header    the request has been sent, no response header yet          *)
(*    loop      about to read                                              *)
(*    select    a goroutine reads; its result races the timer              *)
(*    blocked   reading without a timer                                    *)
(*    held      a piece has been read and is to be written or held back    *)
(*    returned                                                             *)
(*                                                                         *)
(* A piece of the body is named for what the code tells it apart by: does  *)
(* it carry output, a finish reason, the end of the stream, or nothing.    *)
(* The events of a Responses stream may leave `type' out of their data and *)
(* have it in the `event:' line only.  responseEventPayload finds the type *)
(* there, sseLineHasOutputForPath does not: such an event ends the stream  *)
(* (completedByName, failedByName) but is no output, and such an output is *)
(* noise.                                                                  *)
(***************************************************************************)
EXTENDS Naturals, Sequences, SequencesExt

CONSTANTS
    FirstOutputTimeout,  \* STREAM_FIRST_OUTPUT_TIMEOUT; 0: no timer
    MaxPieces,           \* BOUND: pieces of one body
    MaxElapsed           \* BOUND: the clock stops here

ASSUME RelayAssumption ==
    /\ FirstOutputTimeout \in Nat
    /\ MaxPieces \in Nat
    /\ MaxElapsed \in Nat
    /\ FirstOutputTimeout < MaxElapsed

VARIABLES
    pc,
    responses,   \* the path is /v1/responses
    delayed,     \* delayUntilFirstOutput: the status is 2xx
    elapsed,     \* time since `started'
    piece,       \* what the current iteration has read
    source,      \* all that was read so far
    pending,     \* read and held back
    client,      \* written to the client
    committed,
    seenFinish,  \* seenFinishReason
    seenEnd,     \* seenDone, seenCompleted
    seenFailure, \* seenTerminalFailure
    result       \* what the call returned; "none" before it does

relayVars == <<pc, responses, delayed, elapsed, piece, source, pending, client,
          committed, seenFinish, seenEnd, seenFailure, result>>

request == <<responses, delayed>>
marks == <<seenFinish, seenEnd, seenFailure>>

Pieces(resp) == IF resp THEN {"noise", "output", "completed", "failed",
                               "completedByName", "failedByName"}
                ELSE {"noise", "output", "finish", "last", "DONE"}

\* sseLineHasOutputForPath.
HasOutput(p) == p \in {"output", "last", "completed", "failed"}

\* sseLineHasFinishReason; "last" carries output as well.
HasFinish(p) == p \in {"finish", "last"}

\* sseLineIsDone, response.completed.
IsEnd(p) == p \in {"DONE", "completed", "completedByName"}

\* response.failed, response.incomplete.
IsFailure(p) == p \in {"failed", "failedByName"}

RelayInit ==
    /\ pc = "header"
    /\ responses \in BOOLEAN
    /\ delayed \in BOOLEAN
    /\ elapsed = 0
    /\ piece = "noise"
    /\ source = <<>> /\ pending = <<>> /\ client = <<>>
    /\ committed = FALSE
    /\ seenFinish = FALSE /\ seenEnd = FALSE /\ seenFailure = FALSE
    /\ result = "none"

-----------------------------------------------------------------------------
\* A status below 500 other than 429; forward writes the header at once
\* unless the commit is delayed.
HeaderArrives ==
    /\ pc = "header"
    /\ pc' = "loop"
    /\ UNCHANGED <<request, elapsed, piece, source, pending, client, committed,
                   marks, result>>

Return(r) == pc' = "returned" /\ result' = r

Armed == delayed /\ ~committed /\ FirstOutputTimeout > 0

\* Faulty variant: no timer at all.
StartReadUnarmed ==
    /\ pc = "loop"
    /\ pc' = "blocked"
    /\ UNCHANGED <<request, elapsed, piece, source, pending, client, committed,
                   marks, result>>

\* readLine, readFrame up to the point where they block.
StartRead ==
    /\ pc = "loop"
    /\ IF ~Armed THEN pc' = "blocked" /\ UNCHANGED result
       ELSE IF elapsed < FirstOutputTimeout THEN pc' = "select" /\ UNCHANGED result
       ELSE Return("timeout")
    /\ UNCHANGED <<request, elapsed, piece, source, pending, client, committed, marks>>

Timer ==
    /\ pc = "select"
    /\ elapsed >= FirstOutputTimeout
    /\ Return("timeout")
    /\ UNCHANGED <<request, elapsed, piece, source, pending, client, committed, marks>>

\* Faulty variant: upstreams are trusted to send a finish reason.
RenderedAsIs(p) == <<p>>

\* What the loop makes of a piece before it passes it on: a chat stream that
\* ends without a finish reason gets one in front of [DONE].
Rendered(p) ==
    IF p = "DONE" /\ ~seenFinish THEN <<"finish", p>> ELSE <<p>>

Read ==
    /\ pc \in {"select", "blocked"}
    /\ Len(source) < MaxPieces
    /\ \E p \in Pieces(responses) :
         /\ piece' = p
         /\ source' = Append(source, p)
    /\ pc' = "held"
    /\ UNCHANGED <<request, elapsed, pending, client, committed, marks, result>>

Note(p) ==
    /\ seenFinish' = (seenFinish \/ HasFinish(p) \/ p = "DONE")
    /\ seenEnd' = (seenEnd \/ IsEnd(p))
    /\ seenFailure' = (seenFailure \/ IsFailure(p))

\* Faulty variant: what does not count as output is dropped.
HoldNothing ==
    /\ pc = "held"
    /\ delayed /\ ~committed
    /\ ~HasOutput(piece)
    /\ Note(piece)
    /\ pc' = "loop"
    /\ UNCHANGED <<request, elapsed, piece, source, pending, client, committed, result>>

\* Before the commit a piece without output waits; the first output takes
\* what has waited along.
Hold ==
    /\ pc = "held"
    /\ delayed /\ ~committed
    /\ ~HasOutput(piece)
    /\ pending' = pending \o Rendered(piece)
    /\ Note(piece)
    /\ pc' = "loop"
    /\ UNCHANGED <<request, elapsed, piece, source, client, committed, result>>

\* Faulty variant: the commit is forgotten.
PassUncommitted ==
    /\ pc = "held"
    /\ ~delayed \/ committed \/ HasOutput(piece)
    /\ client' = client \o pending \o Rendered(piece)
    /\ pending' = <<>>
    /\ Note(piece)
    /\ pc' = "loop"
    /\ UNCHANGED <<request, elapsed, piece, source, committed, result>>

Pass ==
    /\ pc = "held"
    /\ ~delayed \/ committed \/ HasOutput(piece)
    /\ client' = client \o pending \o Rendered(piece)
    /\ pending' = <<>>
    /\ committed' = TRUE
    /\ Note(piece)
    /\ pc' = "loop"
    /\ UNCHANGED <<request, elapsed, piece, source, result>>

\* The write fails: the client is gone.
ClientLost ==
    /\ pc = "held"
    /\ ~delayed \/ committed \/ HasOutput(piece)
    /\ Note(piece)
    /\ Return("client")
    /\ UNCHANGED <<request, elapsed, piece, source, pending, client, committed>>

\* Faulty variant: a stream that ended without its end mark is complete.
LenientVerdict ==
    IF delayed /\ ~committed THEN "empty"
    ELSE IF seenFailure THEN "failed" ELSE "ok"

\* How the end of the body is judged.
Verdict ==
    IF delayed /\ ~committed THEN "empty"
    ELSE IF seenFailure THEN "failed"
    ELSE IF delayed /\ ~seenEnd THEN "truncated" ELSE "ok"

\* The end of the body may come with the last piece or later; a piece is
\* passed on before the end is looked at either way.
BodyEnds ==
    /\ pc \in {"select", "blocked"}
    /\ Return(Verdict)
    /\ UNCHANGED <<request, elapsed, piece, source, pending, client, committed, marks>>

ReadFails ==
    /\ pc \in {"select", "blocked"}
    /\ Return("truncated")
    /\ UNCHANGED <<request, elapsed, piece, source, pending, client, committed, marks>>

Tick ==
    /\ pc # "returned"
    /\ elapsed < MaxElapsed
    /\ elapsed' = elapsed + 1
    /\ UNCHANGED <<pc, request, piece, source, pending, client, committed, marks, result>>

\* forward has the result; the body is over.
Idle == pc = "returned" /\ UNCHANGED relayVars

-----------------------------------------------------------------------------
RelayNext ==
    \/ HeaderArrives \/ StartRead \/ Timer \/ Read \/ Hold \/ Pass
    \/ ClientLost \/ BodyEnds \/ ReadFails \/ Tick \/ Idle

RelaySpec == RelayInit /\ [][RelayNext]_relayVars

\* The goroutine runs on, the timer fires and the clock moves.  The upstream
\* owes nothing.
RelayFairness ==
    /\ WF_relayVars(StartRead \/ Hold \/ Pass)
    /\ WF_relayVars(Timer)
    /\ WF_relayVars(Tick)

-----------------------------------------------------------------------------
(* Properties *)

\* The types of the variables.
RelayTypeOK ==
    /\ pc \in {"header", "loop", "select", "blocked", "held", "returned"}
    /\ responses \in BOOLEAN /\ delayed \in BOOLEAN /\ committed \in BOOLEAN
    /\ seenFinish \in BOOLEAN /\ seenEnd \in BOOLEAN /\ seenFailure \in BOOLEAN
    /\ elapsed \in 0 .. MaxElapsed
    /\ piece \in Pieces(responses)
    /\ source \in Seq(Pieces(responses)) /\ Len(source) <= MaxPieces
    /\ pending \in Seq(Pieces(responses)) /\ client \in Seq(Pieces(responses))
    /\ result \in {"none", "ok", "empty", "truncated", "failed", "timeout", "client"}

\* The text the client should have received for what was read, defined on the
\* whole body: a finish reason goes in front of the first [DONE] if none was
\* seen before it.
Transcript(body) ==
    LET done == {i \in 1 .. Len(body) : body[i] = "DONE"}
        bare == {i \in done : \A j \in 1 .. i - 1 :
                                 ~HasFinish(body[j]) /\ j \notin done}
    IN  IF bare = {} THEN body
        ELSE LET i == CHOOSE i \in bare : TRUE
             IN  InsertAt(body, i, "finish")

\* Nothing the upstream sent is lost, repeated or reordered on its way through
\* the buffer: what the client has and what is held back is what was read.
NothingLost ==
    pc \in {"loop", "select", "blocked"} => client \o pending = Transcript(source)

\* A strict client is never told that a chat stream is done before it has
\* been given a finish reason.
FinishBeforeDone ==
    \A i \in 1 .. Len(client) :
        client[i] = "DONE" => \E j \in 1 .. i - 1 : HasFinish(client[j])

\* Success is reported only for streams whose end mark reached the client, so
\* a cut off stream never forgives its exit.
OkMeansComplete ==
    result = "ok" /\ delayed => \E i \in 1 .. Len(client) : IsEnd(client[i])

Committed == ~delayed \/ committed

Body == INSTANCE BodyRelay WITH
          phase <- IF pc # "returned"
                   THEN IF Committed THEN "committed" ELSE "open"
                   ELSE IF result = "ok" THEN "done"
                   ELSE IF Committed THEN "broken" ELSE "retryable",
          sent <- client # <<>>

\* The relay is the one forward relies on.
RelaysBody == Body!Spec

\* A stream that was accepted produces output, or ends, however long the
\* upstream stays silent.
OutputOrReturn ==
    pc = "loop" /\ Armed ~> committed \/ pc = "returned"

\* A stream that has begun to reach the client is not cut by the timer.
NeverCut == result = "timeout" => client = <<>>
=============================================================================
