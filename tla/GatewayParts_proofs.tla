------------------------ MODULE GatewayParts_proofs -------------------------
(***************************************************************************)
(* Four parts of a gateway that share no state, each for every value of    *)
(* its constants: the relay of a body, the list of slots, the audit        *)
(* records and the lifecycle events of a Responses stream.                 *)
(*                                                                         *)
(* Relay: the invariant says what the flags of the loop stand for:         *)
(* `committed' separates what is held back from what was written, and the  *)
(* three marks say what is among the pieces that were passed on or held    *)
(* back.  What the client is owed for a body grows piece by piece          *)
(* (TranscriptGrows).                                                      *)
(*                                                                         *)
(* List: whatever is published is the base slots in their places followed  *)
(* by one slot per URL, the base slot itself if the URL is configured      *)
(* (Listing); a refresh that nothing overlaps uses what is listed again    *)
(* (Reused).                                                               *)
(*                                                                         *)
(* Audit: the records of a request are those of its attempts, in order,    *)
(* and all but the last have failed; what the list has was made by some    *)
(* request (Made).  Rows are put in order by their rank in a strict order, *)
(* and in any such order of a finite set each rank is had once             *)
(* (RankedOnce).                                                           *)
(*                                                                         *)
(* Events: with one item the flags tell what was sent of it (OneItem);     *)
(* with more, the upstream's place in the script does (Complete).          *)
(***************************************************************************)
EXTENDS StreamRelay, ProxyList, AuditLog, ResponsesLifecycle, SequenceTheorems,
        FiniteSetTheorems, WellFoundedInduction, TLAPS

-----------------------------------------------------------------------------
(* The relay (module StreamRelay) *)

LEMMA PieceTypes ==
  /\ "noise" \in Pieces(responses)
  /\ \A p \in Pieces(responses) : Rendered(p) \in Seq(Pieces(responses))
<1>1. "noise" \in Pieces(responses)
  BY DEF Pieces
<1>2. ASSUME NEW p \in Pieces(responses)
      PROVE  Rendered(p) \in Seq(Pieces(responses))
  <2>1. p = "DONE" => "finish" \in Pieces(responses)
    BY DEF Pieces
  <2>2. CASE p = "DONE" /\ ~seenFinish
    BY <2>1, <2>2 DEF Rendered
  <2>3. CASE ~(p = "DONE" /\ ~seenFinish)
    BY <2>3 DEF Rendered
  <2> QED
    BY <2>2, <2>3
<1> QED
  BY <1>1, <1>2

LEMMA RelayInitTypes == RelayInit => RelayTypeOK
<1> SUFFICES ASSUME RelayInit PROVE RelayTypeOK
  OBVIOUS
<1>1. /\ 0 \in 0 .. MaxElapsed /\ 0 <= MaxPieces
      /\ Len(<<>>) = 0 /\ <<>> \in Seq(Pieces(responses))
  BY RelayAssumption
<1>2. /\ source = <<>> /\ pending = <<>> /\ client = <<>> /\ elapsed = 0
      /\ piece = "noise"
  BY DEF RelayInit
<1>3. /\ source \in Seq(Pieces(responses)) /\ Len(source) <= MaxPieces
      /\ pending \in Seq(Pieces(responses)) /\ client \in Seq(Pieces(responses))
      /\ elapsed \in 0 .. MaxElapsed /\ piece \in Pieces(responses)
  BY <1>1, <1>2, PieceTypes
<1> QED
  BY <1>3 DEF RelayInit, RelayTypeOK

LEMMA NoteTypes ==
  ASSUME RelayTypeOK, Note(piece)
  PROVE  /\ seenFinish' \in BOOLEAN /\ seenEnd' \in BOOLEAN
         /\ seenFailure' \in BOOLEAN
BY DEF RelayTypeOK, Note, HasFinish, IsEnd, IsFailure

LEMMA RelayNextTypes ==
  RelayTypeOK /\ [RelayNext]_relayVars => RelayTypeOK'
<1> SUFFICES ASSUME RelayTypeOK, [RelayNext]_relayVars PROVE RelayTypeOK'
  OBVIOUS
<1> DEFINE S == Pieces(responses)
<1>1. CASE HeaderArrives
  BY <1>1 DEF HeaderArrives, RelayTypeOK, request, marks
<1>2. CASE StartRead
  BY <1>2 DEF StartRead, Return, RelayTypeOK, request, marks
<1>3. CASE Timer
  BY <1>3 DEF Timer, Return, RelayTypeOK, request, marks
<1>4. CASE Read
  <2>1. PICK p \in Pieces(responses) : piece' = p /\ source' = Append(source, p)
    BY <1>4 DEF Read
  <2>2. Len(source) \in Nat /\ Len(source) < MaxPieces
    BY <1>4 DEF Read, RelayTypeOK
  <2>3. source' \in Seq(S) /\ Len(source') = Len(source) + 1
    BY <2>1 DEF RelayTypeOK
  <2>4. Len(source') <= MaxPieces
    BY <2>2, <2>3, RelayAssumption
  <2> QED
    BY <1>4, <2>1, <2>3, <2>4 DEF Read, RelayTypeOK, request, marks
<1>5. CASE Hold
  <2>1. pending' \in Seq(S)
    BY <1>5, PieceTypes DEF Hold, RelayTypeOK
  <2> QED
    BY <1>5, <2>1, NoteTypes DEF Hold, RelayTypeOK, request
<1>6. CASE Pass
  <2>1. client' \in Seq(S) /\ pending' \in Seq(S)
    BY <1>6, PieceTypes DEF Pass, RelayTypeOK
  <2> QED
    BY <1>6, <2>1, NoteTypes DEF Pass, RelayTypeOK, request
<1>7. CASE ClientLost
  BY <1>7, NoteTypes DEF ClientLost, Return, RelayTypeOK, request
<1>8. CASE BodyEnds
  BY <1>8 DEF BodyEnds, Verdict, Return, RelayTypeOK, request, marks
<1>9. CASE ReadFails
  BY <1>9 DEF ReadFails, Return, RelayTypeOK, request, marks
<1>10. CASE Tick
  BY <1>10, RelayAssumption DEF Tick, RelayTypeOK, request, marks
<1>11. CASE UNCHANGED relayVars
  BY <1>11 DEF RelayTypeOK, relayVars
<1> QED
  BY <1>1, <1>2, <1>3, <1>4, <1>5, <1>6, <1>7, <1>8, <1>9, <1>10, <1>11
  DEF RelayNext, Idle

\* The variables of the relay keep their types: in particular only chat
\* streams get a finish reason added (copyStreamResponse).
THEOREM RelayTypes == RelaySpec => []RelayTypeOK
BY RelayInitTypes, RelayNextTypes, PTL DEF RelaySpec

-----------------------------------------------------------------------------
(* Commitment: what is written and what is held back. *)

CommitInv ==
  /\ ~committed => client = <<>>
  /\ committed => pending = <<>>
  /\ pc = "select" => delayed /\ ~committed
  /\ result # "none" <=> pc = "returned"
  /\ result \in {"timeout", "empty"} => delayed /\ ~committed
  /\ result = "ok" /\ delayed => committed /\ seenEnd

LEMMA CommitNext ==
  RelayTypeOK /\ CommitInv /\ [RelayNext]_relayVars => CommitInv'
<1> SUFFICES ASSUME RelayTypeOK, CommitInv, [RelayNext]_relayVars PROVE CommitInv'
  OBVIOUS
<1> USE DEF CommitInv
<1>1. CASE HeaderArrives
  BY <1>1 DEF HeaderArrives, request, marks
<1>2. CASE StartRead
  BY <1>2 DEF StartRead, Return, Armed, request, marks
<1>3. CASE Timer
  BY <1>3 DEF Timer, Return, request, marks
<1>4. CASE Read
  BY <1>4 DEF Read, request, marks
<1>5. CASE Hold
  BY <1>5 DEF Hold, request
<1>6. CASE Pass
  BY <1>6 DEF Pass, request
<1>7. CASE ClientLost
  BY <1>7 DEF ClientLost, Return, request
<1>8. CASE BodyEnds
  BY <1>8 DEF BodyEnds, Verdict, Return, request, marks
<1>9. CASE ReadFails
  BY <1>9 DEF ReadFails, Return, request, marks
<1>10. CASE Tick
  BY <1>10 DEF Tick, request, marks
<1>11. CASE UNCHANGED relayVars
  BY <1>11 DEF relayVars
<1> QED
  BY <1>1, <1>2, <1>3, <1>4, <1>5, <1>6, <1>7, <1>8, <1>9, <1>10, <1>11
  DEF RelayNext, Idle

LEMMA CommitHolds == RelaySpec => [](RelayTypeOK /\ CommitInv)
<1>1. RelayInit => CommitInv
  BY DEF RelayInit, CommitInv
<1> QED
  BY <1>1, RelayInitTypes, RelayNextTypes, CommitNext, PTL DEF RelaySpec

\* A stream that has begun to reach the client is not cut by the timer, which
\* readLine and readFrame arm only while nothing is committed.
THEOREM TimerSparesBody == RelaySpec => []NeverCut
<1>1. CommitInv => NeverCut
  BY DEF CommitInv, NeverCut
<1> QED
  BY <1>1, CommitHolds, PTL

-----------------------------------------------------------------------------
(* The relay implements what forward relies on. *)

Phase ==
  IF pc # "returned"
  THEN IF Committed THEN "committed" ELSE "open"
  ELSE IF result = "ok" THEN "done"
  ELSE IF Committed THEN "broken" ELSE "retryable"

LEMMA BodyStep ==
  ASSUME RelayTypeOK, CommitInv, CommitInv', [RelayNext]_relayVars
  PROVE  [Body!Next]_(Body!vars)
<1> DEFINE Sent == client # <<>>
<1> SUFFICES \/ Phase' = Phase /\ Sent' = Sent
             \/ Phase = "open" /\ Phase' = "committed" /\ Sent'
             \/ Phase = "committed" /\ Sent' /\ Phase' = Phase
             \/ Phase = "committed" /\ Phase' = "done" /\ Sent' = Sent
             \/ Phase = "open" /\ Phase' = "retryable" /\ Sent' = Sent
             \/ Phase = "committed" /\ Phase' = "broken" /\ Sent' = Sent
  BY DEF Phase, Body!Next, Body!vars, Body!Commit, Body!Relay, Body!Finish, Body!Break
<1> USE DEF Phase, Committed
<1>1. CASE HeaderArrives
  BY <1>1 DEF HeaderArrives, request, marks
<1>2. CASE StartRead
  BY <1>2 DEF StartRead, Return, Armed, request, marks
<1>3. CASE Timer
  BY <1>3 DEF Timer, Return, request, marks, CommitInv
<1>4. CASE Read
  BY <1>4 DEF Read, request, marks
<1>5. CASE Hold
  BY <1>5 DEF Hold, request
<1>6. CASE Pass
  <2>1. Rendered(piece) \in Seq(Pieces(responses)) /\ Rendered(piece) # <<>>
    BY PieceTypes DEF RelayTypeOK, Rendered
  <2>2. client' # <<>>
    BY <1>6, <2>1 DEF Pass, RelayTypeOK
  <2> QED
    BY <1>6, <2>2 DEF Pass, request
<1>7. CASE ClientLost
  BY <1>7 DEF ClientLost, Return, request
<1>8. CASE BodyEnds
  BY <1>8 DEF BodyEnds, Verdict, Return, request, marks
<1>9. CASE ReadFails
  BY <1>9 DEF ReadFails, Return, request, marks
<1>10. CASE Tick
  BY <1>10 DEF Tick, request, marks
<1>11. CASE UNCHANGED relayVars
  BY <1>11 DEF relayVars
<1> QED
  BY <1>1, <1>2, <1>3, <1>4, <1>5, <1>6, <1>7, <1>8, <1>9, <1>10, <1>11
  DEF RelayNext, Idle

\* The relay is the one forward relies on: a body that is offered for another
\* attempt has not reached the client, and success means a committed body.
THEOREM ImplementsBody == RelaySpec => RelaysBody
<1>1. RelayInit => Body!Init
  BY DEF RelayInit, Body!Init, Committed
<1> QED
  BY <1>1, BodyStep, CommitHolds, PTL DEF RelaySpec, RelaysBody, Body!Spec

-----------------------------------------------------------------------------
(* What the marks of the loop say about the pieces that were passed on. *)

Out == client \o pending

\* Hold and Pass put the same pieces behind what there was; they differ in
\* where the border between written and held back is.
LEMMA OutGrows ==
  ASSUME RelayTypeOK, Hold \/ Pass
  PROVE  /\ Out \in Seq(Pieces(responses))
         /\ Rendered(piece) \in Seq(Pieces(responses))
         /\ Out' = Out \o Rendered(piece)
         /\ Note(piece)
<1> DEFINE S == Pieces(responses)
           r == Rendered(piece)
<1>1. client \in Seq(S) /\ pending \in Seq(S) /\ r \in Seq(S)
  BY PieceTypes DEF RelayTypeOK
<1>2. Out \in Seq(S)
  BY <1>1, ConcatProperties DEF Out
<1>3. CASE Hold
  <2>1. Out' = client \o (pending \o r)
    BY <1>3 DEF Hold, Out
  <2>2. client \o (pending \o r) = (client \o pending) \o r
    BY <1>1, ConcatAssociative
  <2> QED
    BY <1>1, <1>2, <1>3, <2>1, <2>2 DEF Hold, Out
<1>4. CASE Pass
  <2>1. Out' = ((client \o pending) \o r) \o <<>>
    BY <1>4 DEF Pass, Out
  <2>2. (client \o pending) \o r \in Seq(S)
    BY <1>1, <1>2, ConcatProperties DEF Out
  <2>3. Out' = (client \o pending) \o r
    BY <2>1, <2>2, ConcatEmptySeq
  <2> QED
    BY <1>1, <1>2, <1>4, <2>3 DEF Pass, Out
<1> QED
  BY <1>3, <1>4

\* The other actions leave what was passed on, and all but the loss of the
\* client the marks.
LEMMA OutStays ==
  ASSUME [RelayNext]_relayVars, ~Hold, ~Pass
  PROVE  Out' = Out /\ (marks' = marks \/ ClientLost)
BY DEF RelayNext, HeaderArrives, StartRead, Timer, Read, ClientLost, BodyEnds,
       ReadFails, Tick, Idle, relayVars, marks, Out

MarksInv ==
  /\ \A i \in 1 .. Len(Out) :
       Out[i] = "DONE" => \E j \in 1 .. i - 1 : HasFinish(Out[j])
  /\ result # "client" =>
       /\ seenFinish => \E j \in 1 .. Len(Out) : HasFinish(Out[j])
       /\ seenEnd => \E j \in 1 .. Len(Out) : IsEnd(Out[j])

LEMMA MarksInit == RelayInit => MarksInv
<1> SUFFICES ASSUME RelayInit PROVE MarksInv
  OBVIOUS
<1>1. Out = <<>>
  BY DEF RelayInit, Out
<1>2. Len(Out) = 0 /\ ~seenFinish /\ ~seenEnd
  BY <1>1 DEF RelayInit
<1> QED
  BY <1>2 DEF MarksInv

LEMMA MarksGrow ==
  ASSUME RelayTypeOK, CommitInv, MarksInv, Hold \/ Pass
  PROVE  MarksInv'
<1> DEFINE S == Pieces(responses)
           r == Rendered(piece)
           n == Len(Out)
<1>1. /\ Out \in Seq(S) /\ r \in Seq(S) /\ Out' = Out \o r /\ Note(piece)
  BY OutGrows
<1>2. result # "client"
  BY DEF CommitInv, Hold, Pass
<1>3. /\ n \in Nat /\ Len(r) \in Nat /\ Len(Out') = n + Len(r)
      /\ \A i \in 1 .. n : Out'[i] = Out[i]
      /\ \A i \in n + 1 .. n + Len(r) : Out'[i] = r[i - n]
  <2>1. n \in Nat /\ Len(r) \in Nat
    BY <1>1, LenProperties
  <2>2. /\ Len(Out \o r) = n + Len(r)
        /\ \A i \in 1 .. n + Len(r) :
             (Out \o r)[i] = IF i <= n THEN Out[i] ELSE r[i - n]
    BY <1>1, ConcatProperties
  <2> HIDE DEF n, r
  <2> QED
    BY <1>1, <2>1, <2>2
<1>4. \/ piece = "DONE" /\ ~seenFinish /\ r = <<"finish", piece>>
      \/ ~(piece = "DONE" /\ ~seenFinish) /\ r = <<piece>>
  BY DEF Rendered
<1>5. /\ seenFinish => \E j \in 1 .. n : HasFinish(Out[j])
      /\ seenEnd => \E j \in 1 .. n : IsEnd(Out[j])
      /\ \A i \in 1 .. n : Out[i] = "DONE" => \E j \in 1 .. i - 1 : HasFinish(Out[j])
  BY <1>2 DEF MarksInv
<1>old. \A i \in 1 .. n :
          Out'[i] = "DONE" => \E j \in 1 .. i - 1 : HasFinish(Out'[j])
  <2> HIDE DEF n, r
  <2> TAKE i \in 1 .. n
  <2>1. Out'[i] = Out[i] /\ \A j \in 1 .. i - 1 : Out'[j] = Out[j]
    BY <1>3
  <2> QED
    BY <1>5, <2>1
<1>kept. /\ (\E j \in 1 .. n : HasFinish(Out[j]))
               => \E j \in 1 .. n : HasFinish(Out'[j])
         /\ (\E j \in 1 .. n : IsEnd(Out[j]))
               => \E j \in 1 .. Len(Out') : IsEnd(Out'[j])
  <2> HIDE DEF n, r
  <2> QED
    BY <1>3
<1>6. CASE piece = "DONE" /\ ~seenFinish /\ r = <<"finish", piece>>
  <2>1. Len(Out') = n + 2 /\ Out'[n + 1] = "finish" /\ Out'[n + 2] = "DONE"
    <3>1. Len(r) = 2 /\ r[1] = "finish" /\ r[2] = "DONE"
      BY <1>6
    <3> HIDE DEF n, r
    <3> QED
      BY <1>3, <3>1
  <2>2. HasFinish(Out'[n + 1]) /\ IsEnd(Out'[n + 2])
    BY <2>1 DEF HasFinish, IsEnd
  <2>3. \A i \in 1 .. Len(Out') :
          Out'[i] = "DONE" => \E j \in 1 .. i - 1 : HasFinish(Out'[j])
    <3> HIDE DEF n, r
    <3> TAKE i \in 1 .. Len(Out')
    <3>1. i \in 1 .. n \/ i = n + 1 \/ i = n + 2
      BY <1>3, <2>1
    <3>2. CASE i = n + 1
      BY <2>1, <3>2
    <3>3. CASE i = n + 2
      BY <1>3, <2>2, <3>3
    <3> QED
      BY <1>old, <3>1, <3>2, <3>3
  <2>4. /\ \E j \in 1 .. Len(Out') : HasFinish(Out'[j])
        /\ \E j \in 1 .. Len(Out') : IsEnd(Out'[j])
    <3> HIDE DEF n, r
    <3> QED
      BY <1>3, <2>1, <2>2
  <2> QED
    BY <2>3, <2>4 DEF MarksInv
<1>7. CASE ~(piece = "DONE" /\ ~seenFinish) /\ r = <<piece>>
  <2>1. Len(Out') = n + 1 /\ Out'[n + 1] = piece
    <3>1. Len(r) = 1 /\ r[1] = piece
      BY <1>7
    <3> HIDE DEF n, r
    <3> QED
      BY <1>3, <3>1
  <2>2. piece = "DONE" => \E j \in 1 .. n : HasFinish(Out'[j])
    BY <1>5, <1>7, <1>kept
  <2>3. \A i \in 1 .. Len(Out') :
          Out'[i] = "DONE" => \E j \in 1 .. i - 1 : HasFinish(Out'[j])
    <3> HIDE DEF n, r
    <3> TAKE i \in 1 .. Len(Out')
    <3>1. i \in 1 .. n \/ i = n + 1
      BY <1>3, <2>1
    <3>2. CASE i = n + 1
      BY <1>3, <2>1, <2>2, <3>2
    <3> QED
      BY <1>old, <3>1, <3>2
  <2>4. seenFinish' => \E j \in 1 .. Len(Out') : HasFinish(Out'[j])
    <3>1. CASE seenFinish
      <4> HIDE DEF n, r
      <4> QED
        BY <1>3, <1>5, <1>kept, <2>1, <3>1
    <3>2. CASE ~seenFinish
      <4>1. seenFinish' => HasFinish(piece)
        BY <1>1, <1>7, <3>2 DEF Note
      <4> HIDE DEF n, r
      <4> QED
        BY <1>3, <2>1, <4>1
    <3> QED
      BY <3>1, <3>2
  <2>5. seenEnd' => \E j \in 1 .. Len(Out') : IsEnd(Out'[j])
    <3>1. CASE seenEnd
      BY <1>5, <1>kept, <3>1
    <3>2. CASE ~seenEnd
      <4>1. seenEnd' => IsEnd(piece)
        BY <1>1, <3>2 DEF Note
      <4> HIDE DEF n, r
      <4> QED
        BY <1>3, <2>1, <4>1
    <3> QED
      BY <3>1, <3>2
  <2> QED
    BY <2>3, <2>4, <2>5 DEF MarksInv
<1> QED
  BY <1>4, <1>6, <1>7

LEMMA MarksNext ==
  RelayTypeOK /\ CommitInv /\ MarksInv /\ [RelayNext]_relayVars => MarksInv'
<1> SUFFICES ASSUME RelayTypeOK, CommitInv, MarksInv, [RelayNext]_relayVars,
                    ~Hold, ~Pass
             PROVE  MarksInv'
  BY MarksGrow
<1>1. Out' = Out
  BY OutStays
<1>2. \/ marks' = marks /\ (result' # "client" => result # "client")
      \/ result' = "client"
  <2>1. ClientLost => result' = "client"
    BY DEF ClientLost, Return
  <2>2. result # "none" => UNCHANGED result
    BY DEF CommitInv, RelayNext, HeaderArrives, StartRead, Timer, Read, Hold, Pass,
           ClientLost, BodyEnds, ReadFails, Tick, Idle, relayVars
  <2> QED
    BY <2>1, <2>2, OutStays
<1> QED
  BY <1>1, <1>2 DEF MarksInv, marks

LEMMA MarksHold == RelaySpec => [](RelayTypeOK /\ CommitInv /\ MarksInv)
BY CommitHolds, MarksInit, MarksNext, PTL DEF RelaySpec

\* A strict client is never told [DONE] before a finish reason.
THEOREM FinishComesFirst == RelaySpec => []FinishBeforeDone
<1>1. RelayTypeOK /\ MarksInv => FinishBeforeDone
  <2> SUFFICES ASSUME RelayTypeOK, MarksInv, NEW i \in 1 .. Len(client),
                      client[i] = "DONE"
               PROVE  \E j \in 1 .. i - 1 : HasFinish(client[j])
    BY DEF FinishBeforeDone
  <2>1. /\ Len(client) \in Nat /\ Len(pending) \in Nat
        /\ Len(Out) = Len(client) + Len(pending)
        /\ \A j \in 1 .. Len(client) : Out[j] = client[j]
    BY LenProperties, ConcatProperties DEF RelayTypeOK, Out
  <2>2. i \in 1 .. Len(Out) /\ Out[i] = "DONE"
    BY <2>1
  <2>3. PICK j \in 1 .. i - 1 : HasFinish(Out[j])
    BY <2>2 DEF MarksInv
  <2> QED
    BY <2>1, <2>3
<1> QED
  BY <1>1, MarksHold, PTL

\* Success of a held back stream means that its end mark has been written.
THEOREM OkIsComplete == RelaySpec => []OkMeansComplete
<1>1. RelayTypeOK /\ CommitInv /\ MarksInv => OkMeansComplete
  <2> SUFFICES ASSUME RelayTypeOK, CommitInv, MarksInv, result = "ok", delayed
               PROVE  \E i \in 1 .. Len(client) : IsEnd(client[i])
    BY DEF OkMeansComplete
  <2>1. pending = <<>> /\ seenEnd
    BY DEF CommitInv
  <2>2. Out = client
    BY <2>1, ConcatEmptySeq DEF RelayTypeOK, Out
  <2> QED
    BY <2>1, <2>2 DEF MarksInv
<1> QED
  BY <1>1, MarksHold, PTL

-----------------------------------------------------------------------------
(* The transcript of a body, piece by piece. *)

\* A body after which the loop takes the finish reason as seen.
Finished(b) == \E j \in 1 .. Len(b) : HasFinish(b[j]) \/ b[j] = "DONE"

\* The first [DONE] of a body that has no finish reason before it.
BareDone(b) ==
  {i \in 1 .. Len(b) :
     b[i] = "DONE" /\ \A j \in 1 .. i - 1 : ~HasFinish(b[j]) /\ b[j] # "DONE"}

LEMMA TranscriptByBareDone ==
  ASSUME NEW S, NEW b \in Seq(S)
  PROVE  Transcript(b) = IF BareDone(b) = {} THEN b
                         ELSE InsertAt(b, CHOOSE i \in BareDone(b) : TRUE, "finish")
<1> DEFINE done == {i \in 1 .. Len(b) : b[i] = "DONE"}
           bare == {i \in done : \A j \in 1 .. i - 1 :
                                   ~HasFinish(b[j]) /\ j \notin done}
<1>1. Len(b) \in Nat
  BY LenProperties
<1>2. ASSUME NEW i \in 1 .. Len(b), NEW j \in 1 .. i - 1
      PROVE  j \notin done <=> b[j] # "DONE"
  BY <1>1
<1>3. bare = BareDone(b)
  <2>1. ASSUME NEW i \in bare PROVE i \in BareDone(b)
    BY <1>2 DEF BareDone
  <2>2. ASSUME NEW i \in BareDone(b) PROVE i \in bare
    BY <1>2 DEF BareDone
  <2> QED
    BY <2>1, <2>2
<1>4. Transcript(b) = IF bare = {} THEN b
                      ELSE InsertAt(b, CHOOSE i \in bare : TRUE, "finish")
  BY DEF Transcript
<1> HIDE DEF bare, done
<1> QED
  BY <1>3, <1>4

LEMMA BareDoneIsOne ==
  ASSUME NEW S, NEW b \in Seq(S), NEW i \in BareDone(b), NEW k \in BareDone(b)
  PROVE  i = k
<1>1. i \in Nat /\ k \in Nat /\ b[i] = "DONE" /\ b[k] = "DONE" /\ i > 0 /\ k > 0
  BY LenProperties DEF BareDone
<1>2. ~(i < k) /\ ~(k < i)
  BY <1>1 DEF BareDone
<1> QED
  BY <1>1, <1>2

LEMMA AppendedPiece ==
  ASSUME NEW S, NEW b \in Seq(S), NEW p \in S
  PROVE  /\ Append(b, p) \in Seq(S) /\ Len(b) \in Nat
         /\ Len(Append(b, p)) = Len(b) + 1
         /\ Append(b, p)[Len(b) + 1] = p
         /\ \A i \in 1 .. Len(b) : Append(b, p)[i] = b[i]
         /\ Append(b, p) = b \o <<p>>
OBVIOUS

LEMMA LastOfSeq ==
  ASSUME NEW S, NEW s \in Seq(S), NEW m \in Nat, m > 0, Len(s) = m
  PROVE  SubSeq(s, m, m) = <<s[m]>>
<1>1. m \in 1 .. Len(s) /\ m \in m .. Len(s) /\ s[m] \in S
  OBVIOUS
<1>2. SubSeq(s, m, m) = SubSeq(s, m, m - 1) \o <<s[m]>>
  BY <1>1, SubSeqRecursiveSecond
<1>3. m - 1 \in Int /\ m - 1 < m
  OBVIOUS
<1>4. SubSeq(s, m, m - 1) = <<>>
  BY <1>3, SubSeqEmpty
<1>5. <<>> \o <<s[m]>> = <<s[m]>>
  BY <1>1, ConcatEmptySeq
<1> QED
  BY <1>2, <1>4, <1>5

LEMMA InsertedPiece ==
  ASSUME NEW s, NEW i, NEW e
  PROVE  InsertAt(s, i, e) =
           (SubSeq(s, 1, i - 1) \o <<e>>) \o SubSeq(s, i, Len(s))
BY DEF InsertAt

LEMMA FinishedGrows ==
  ASSUME NEW S, NEW b \in Seq(S), NEW p \in S
  PROVE  Finished(Append(b, p)) <=> Finished(b) \/ HasFinish(p) \/ p = "DONE"
BY AppendedPiece DEF Finished

\* What the client is owed for one more piece: the piece, and in front of it
\* a finish reason if it is a [DONE] that none precedes.
LEMMA TranscriptGrows ==
  ASSUME NEW S, NEW b \in Seq(S), NEW p \in S, "finish" \in S
  PROVE  Transcript(Append(b, p)) =
           IF p = "DONE" /\ ~Finished(b) THEN Transcript(b) \o <<"finish", p>>
           ELSE Transcript(b) \o <<p>>
<1> DEFINE n == Len(b)
           a == Append(b, p)
<1>1. /\ a \in Seq(S) /\ n \in Nat /\ Len(a) = n + 1 /\ a[n + 1] = p
      /\ \A i \in 1 .. n : a[i] = b[i]
      /\ a = b \o <<p>>
  BY AppendedPiece
<1>2. BareDone(b) # {} => Finished(b)
  BY DEF BareDone, Finished
<1>3. ASSUME NEW i \in 1 .. n PROVE i \in BareDone(a) <=> i \in BareDone(b)
  <2> HIDE DEF a, n
  <2>1. i \in 1 .. Len(a) /\ a[i] = b[i]
    BY <1>1
  <2>2. \A j \in 1 .. i - 1 : a[j] = b[j]
    BY <1>1
  <2>3. i \in 1 .. Len(b)
    BY DEF n
  <2> QED
    BY <2>1, <2>2, <2>3 DEF BareDone
<1>4. n + 1 \in BareDone(a) <=> p = "DONE" /\ ~Finished(b)
  <2>1. n + 1 \in BareDone(a) <=>
          p = "DONE" /\ \A j \in 1 .. n : ~HasFinish(b[j]) /\ b[j] # "DONE"
    <3> HIDE DEF a, n
    <3> QED
      BY <1>1 DEF BareDone
  <2> QED
    BY <2>1 DEF Finished
<1>5. BareDone(a) \subseteq 1 .. n + 1 /\ BareDone(b) \subseteq 1 .. n
  BY <1>1 DEF BareDone
<1>6. CASE p = "DONE" /\ ~Finished(b)
  <2>1. BareDone(b) = {} /\ n + 1 \in BareDone(a)
    BY <1>2, <1>4, <1>6
  <2>2. (CHOOSE i \in BareDone(a) : TRUE) = n + 1
    BY <1>1, <2>1, BareDoneIsOne
  <2>3. Transcript(b) = b /\ Transcript(a) = InsertAt(a, n + 1, "finish")
    BY <1>1, <2>1, <2>2, TranscriptByBareDone
  <2>4. SubSeq(a, 1, n + 1 - 1) = b /\ SubSeq(a, n + 1, Len(a)) = <<p>>
    <3>1. SubSeq(a, 1, n) = b
      BY <1>1, SubSeqProperties, SeqEqual
    <3>2. SubSeq(a, n + 1, n + 1) = <<p>>
      <4> HIDE DEF a, n
      <4>1. n + 1 \in Nat /\ n + 1 > 0
        BY <1>1
      <4>2. SubSeq(a, n + 1, n + 1) = <<a[n + 1]>>
        BY <1>1, <4>1, LastOfSeq
      <4> QED
        BY <1>1, <4>2
    <3> HIDE DEF a, n
    <3> QED
      BY <1>1, <3>1, <3>2
  <2>5. Transcript(a) = b \o <<"finish">> \o <<p>>
    <3> DEFINE k == n + 1
    <3>1. Transcript(a) = InsertAt(a, k, "finish")
      BY <2>3
    <3>2. SubSeq(a, 1, k - 1) = b /\ SubSeq(a, k, Len(a)) = <<p>>
      BY <2>4
    <3> HIDE DEF a, k
    <3>3. InsertAt(a, k, "finish") =
            (SubSeq(a, 1, k - 1) \o <<"finish">>) \o SubSeq(a, k, Len(a))
      BY InsertedPiece
    <3> QED
      BY <3>1, <3>2, <3>3
  <2>6. b \o <<"finish">> \o <<p>> = b \o <<"finish", p>>
    BY <1>1, SMTT(60)
  <2> QED
    BY <1>6, <2>3, <2>5, <2>6
<1>7. CASE ~(p = "DONE" /\ ~Finished(b))
  <2>1. BareDone(a) = BareDone(b)
    <3> HIDE DEF a, n
    <3>n. n \in Nat
      BY <1>1
    <3>1. 1 .. n + 1 = 1 .. n \cup {n + 1}
      BY <3>n
    <3> QED
      BY <1>3, <1>4, <1>5, <1>7, <3>1
  <2>2. CASE BareDone(b) = {}
    BY <1>1, <1>7, <2>1, <2>2, TranscriptByBareDone
  <2>3. CASE BareDone(b) # {}
    <3> DEFINE i == CHOOSE i \in BareDone(b) : TRUE
    <3>1. i \in 1 .. n
      BY <1>5, <2>3
    <3>2. /\ Transcript(b) = InsertAt(b, i, "finish")
          /\ Transcript(a) = InsertAt(a, i, "finish")
      BY <1>1, <2>1, <2>3, TranscriptByBareDone
    <3> HIDE DEF i
    <3>3. SubSeq(a, 1, i - 1) = SubSeq(b, 1, i - 1)
      BY <1>1, <3>1
    <3>4. SubSeq(a, i, n + 1) = SubSeq(b, i, n) \o <<p>>
      BY <1>1, <3>1
    <3> DEFINE f == SubSeq(b, 1, i - 1) \o <<"finish">>
               t == SubSeq(b, i, n)
    <3>5. SubSeq(b, 1, i - 1) \in Seq(S) /\ t \in Seq(S) /\ <<p>> \in Seq(S)
      BY <1>1, <3>1
    <3>6. f \in Seq(S)
      BY <3>5, ConcatProperties
    <3>7. Transcript(b) = f \o t /\ Transcript(a) = f \o (t \o <<p>>)
      BY <1>1, <3>2, <3>3, <3>4 DEF InsertAt
    <3> HIDE DEF f, t
    <3>8. f \o (t \o <<p>>) = (f \o t) \o <<p>>
      BY <3>5, <3>6, ConcatAssociative
    <3> QED
      BY <1>7, <3>7, <3>8
  <2> QED
    BY <2>2, <2>3
<1> QED
  BY <1>6, <1>7

\* What is true of the pieces b that have been dealt with.
DealtWith(b) == Out = Transcript(b) /\ (seenFinish <=> Finished(b))

AllPieces == Pieces(TRUE) \cup Pieces(FALSE)

HistoryInv ==
  /\ pc \in {"header", "loop", "select", "blocked"} => DealtWith(source)
  /\ pc = "held" => \E b \in Seq(AllPieces) :
                      source = Append(b, piece) /\ DealtWith(b)

LEMMA HistoryInit == RelayInit => HistoryInv
<1> SUFFICES ASSUME RelayInit PROVE HistoryInv
  OBVIOUS
<1>1. source = <<>> /\ Out = <<>> /\ ~seenFinish /\ pc = "header"
  BY DEF RelayInit, Out
<1>2. Len(source) = 0 /\ source \in Seq(Pieces(responses))
  BY <1>1
<1>3. BareDone(source) = {} /\ ~Finished(source)
  BY <1>2 DEF BareDone, Finished
<1>4. Transcript(source) = source
  BY <1>2, <1>3, TranscriptByBareDone
<1> QED
  BY <1>1, <1>3, <1>4 DEF HistoryInv, DealtWith

LEMMA HistoryNext ==
  RelayTypeOK /\ HistoryInv /\ [RelayNext]_relayVars => HistoryInv'
<1> SUFFICES ASSUME RelayTypeOK, HistoryInv, [RelayNext]_relayVars PROVE HistoryInv'
  OBVIOUS
<1> DEFINE S == AllPieces
<1>pieces. Pieces(responses) \subseteq S /\ "finish" \in S
  BY DEF RelayTypeOK, Pieces, AllPieces
<1>source. source \in Seq(S) /\ piece \in S
  BY <1>pieces, SeqMonotonic DEF RelayTypeOK
<1>1. CASE Read
  <2>1. PICK p \in Pieces(responses) : piece' = p /\ source' = Append(source, p)
    BY <1>1 DEF Read
  <2>2. DealtWith(source)
    BY <1>1 DEF Read, HistoryInv
  <2>3. UNCHANGED <<pending, client, seenFinish>> /\ pc' = "held"
    BY <1>1 DEF Read, marks
  <2>4. source' = Append(source, piece')
    BY <2>1
  <2>5. Out' = Transcript(source) /\ (seenFinish' <=> Finished(source))
    BY <2>2, <2>3 DEF DealtWith, Out
  <2> QED
    BY <1>source, <2>3, <2>4, <2>5 DEF HistoryInv, DealtWith
<1>2. CASE Hold \/ Pass
  <2>1. PICK b \in Seq(S) : source = Append(b, piece) /\ DealtWith(b)
    BY <1>2 DEF Hold, Pass, HistoryInv
  <2>2. Out' = Out \o Rendered(piece) /\ Note(piece)
    BY <1>2, OutGrows
  <2>3. pc' = "loop" /\ source' = source
    BY <1>2 DEF Hold, Pass
  <2>4. Transcript(source) =
          IF piece = "DONE" /\ ~Finished(b) THEN Transcript(b) \o <<"finish", piece>>
          ELSE Transcript(b) \o <<piece>>
    BY <1>pieces, <1>source, <2>1, TranscriptGrows
  <2>5. Rendered(piece) = IF piece = "DONE" /\ ~Finished(b) THEN <<"finish", piece>>
                          ELSE <<piece>>
    BY <2>1 DEF Rendered, DealtWith
  <2>6. Out' = Transcript(source)
    <3>1. Out = Transcript(b)
      BY <2>1 DEF DealtWith
    <3>2. CASE piece = "DONE" /\ ~Finished(b)
      BY <2>2, <2>4, <2>5, <3>1, <3>2
    <3>3. CASE ~(piece = "DONE" /\ ~Finished(b))
      BY <2>2, <2>4, <2>5, <3>1, <3>3
    <3> QED
      BY <3>2, <3>3
  <2>7. seenFinish' <=> Finished(source)
    <3>1. Finished(source) <=> Finished(b) \/ HasFinish(piece) \/ piece = "DONE"
      BY <1>source, <2>1, FinishedGrows
    <3>2. seenFinish <=> Finished(b)
      BY <2>1 DEF DealtWith
    <3>3. seenFinish' = (seenFinish \/ HasFinish(piece) \/ piece = "DONE")
      BY <2>2 DEF Note
    <3> QED
      BY <3>1, <3>2, <3>3
  <2> QED
    BY <2>3, <2>6, <2>7 DEF HistoryInv, DealtWith
<1>3. ASSUME ~Read, ~Hold, ~Pass PROVE HistoryInv'
  <2>1. Out' = Out /\ source' = source /\ piece' = piece
    BY <1>3 DEF RelayNext, HeaderArrives, StartRead, Timer, ClientLost, BodyEnds,
                ReadFails, Tick, Idle, relayVars, Out
  <2>2. \/ pc' = "returned"
        \/ /\ seenFinish' = seenFinish
           /\ \/ pc' = pc
              \/ /\ pc \in {"header", "loop", "select", "blocked"}
                 /\ pc' \in {"header", "loop", "select", "blocked"}
    BY <1>3 DEF RelayNext, HeaderArrives, StartRead, Timer, ClientLost, BodyEnds,
                ReadFails, Tick, Idle, relayVars, marks, Return
  <2> QED
    BY <2>1, <2>2 DEF HistoryInv, DealtWith
<1> QED
  BY <1>1, <1>2, <1>3

\* Nothing that was read is lost, repeated or reordered between the buffer and
\* the client, whatever the length of the body.
THEOREM PassesAllOn == RelaySpec => []NothingLost
<1>1. HistoryInv => NothingLost
  BY DEF HistoryInv, DealtWith, Out, NothingLost
<1> QED
  BY <1>1, RelayInitTypes, RelayNextTypes, HistoryInit, HistoryNext, PTL DEF RelaySpec

-----------------------------------------------------------------------------
(* The list of slots (module ProxyList) *)

\* What the variables are made of.
SlotIds == Urls \X Int

Addresses == {Unknown} \cup {w[u] : w \in Worlds, u \in Urls}

SlotStates == [egress : Addresses, disabled : BOOLEAN]

RefreshStates == [ at : {"idle", "probe", "publish"}, candidates : Seq(SlotIds),
                   chosen : SUBSET SlotIds, alone : BOOLEAN ]

ListTypeOK ==
    /\ slots \in Seq(SlotIds)
    /\ object \in [DOMAIN object -> SlotStates]
    /\ file \in Files /\ world \in Worlds
    /\ run \in [Refreshes -> RefreshStates]
    /\ dedupe \in [at : {"start", "probe", "publish", "done"}, list : Seq(SlotIds)]

UrlsApart(list) == \A j, k \in 1 .. Len(list) : list[j][1] = list[k][1] => j = k

\* The slots of configured URLs are base slots from place k on.
BaseBeyond(list, k) ==
    \A j \in k .. Len(list) : list[j][1] \in ToSet(Base) => list[j] \in ToSet(BaseSlots)

\* A list of slots as it is published: the base slots first, then one per URL.
Listing(list) ==
    /\ list \in Seq(SlotIds) /\ Len(Base) <= Len(list)
    /\ \A k \in 1 .. Len(Base) : list[k] = <<Base[k], -k>>
    /\ \A j, k \in Len(Base) + 1 .. Len(list) : list[j][1] = list[k][1] => j = k
    /\ BaseBeyond(list, Len(Base) + 1)

\* Slots for the lines of a file.
OfFile(list) == list \in Seq(SlotIds) /\ UrlsApart(list) /\ BaseBeyond(list, 1)

\* A slot of tt is in ss if ss has its URL.
Reused(ss, tt) == \A s \in ss, t \in tt : s[1] = t[1] => t \in ss

LEMMA BaseTypes ==
  /\ Len(Base) \in Nat /\ DOMAIN Base = 1 .. Len(Base)
  /\ BaseSlots \in Seq(SlotIds) /\ Len(BaseSlots) = Len(Base)
  /\ \A k \in 1 .. Len(Base) : BaseSlots[k] = <<Base[k], -k>> /\ Base[k] \in Urls
  /\ ToSet(BaseSlots) = {<<Base[k], -k>> : k \in 1 .. Len(Base)}
  /\ ToSet(Base) = {Base[k] : k \in 1 .. Len(Base)}
  /\ \A k \in 1 .. Len(Base) : Base[k] = Direct => k = 1
<1>1. Base \in Seq(Urls) /\ \A k \in DOMAIN Base : Base[k] = Direct => k = 1
  BY ListAssumption
<1>2. Len(Base) \in Nat /\ DOMAIN Base = 1 .. Len(Base) /\ \A k \in 1 .. Len(Base) : Base[k] \in Urls
  BY <1>1
<1>3. \A k \in 1 .. Len(Base) : <<Base[k], -k>> \in SlotIds /\ k \in Int
  BY <1>2 DEF SlotIds
<1>4. BaseSlots = [k \in 1 .. Len(Base) |-> <<Base[k], -k>>]
  BY <1>2 DEF BaseSlots
<1>5. /\ BaseSlots \in Seq(SlotIds) /\ Len(BaseSlots) = Len(Base)
      /\ \A k \in 1 .. Len(Base) : BaseSlots[k] = <<Base[k], -k>>
  BY <1>2, <1>3, <1>4
<1>6. ToSet(BaseSlots) = {<<Base[k], -k>> : k \in 1 .. Len(Base)}
  BY <1>2, <1>4 DEF ToSet
<1>7. ToSet(Base) = {Base[k] : k \in 1 .. Len(Base)}
  BY <1>2 DEF ToSet
<1>8. \A k \in 1 .. Len(Base) : Base[k] = Direct => k = 1
  BY <1>1, <1>2
<1> QED
  BY <1>2, <1>5, <1>6, <1>7, <1>8

\* What a list of that form contains.
LEMMA ListingFacts ==
  ASSUME NEW list, Listing(list)
  PROVE  /\ ToSet(BaseSlots) \subseteq ToSet(list)
         /\ ToSet(list) \subseteq SlotIds
         /\ \A s \in ToSet(list) : s[1] \in ToSet(Base) => s \in ToSet(BaseSlots)
         /\ ToSet(list) = {list[k] : k \in 1 .. Len(list)} /\ Len(list) \in Nat
<1>1. /\ list \in Seq(SlotIds) /\ Len(Base) <= Len(list) /\ Len(list) \in Nat
      /\ \A k \in 1 .. Len(Base) : list[k] = <<Base[k], -k>>
      /\ BaseBeyond(list, Len(Base) + 1)
  BY DEF Listing
<1>2. ToSet(list) = {list[k] : k \in 1 .. Len(list)}
  BY <1>1 DEF ToSet
<1>3. \A k \in 1 .. Len(Base) : k \in 1 .. Len(list)
  BY <1>1, BaseTypes
<1>4. ToSet(BaseSlots) \subseteq ToSet(list)
  <2> SUFFICES ASSUME NEW k \in 1 .. Len(Base) PROVE <<Base[k], -k>> \in ToSet(list)
    BY BaseTypes
  <2>1. list[k] = <<Base[k], -k>> /\ k \in 1 .. Len(list)
    BY <1>1, <1>3
  <2> QED
    BY <1>2, <2>1
<1>6. ASSUME NEW s \in ToSet(list), s[1] \in ToSet(Base) PROVE s \in ToSet(BaseSlots)
  <2>1. PICK k \in 1 .. Len(list) : s = list[k]
    BY <1>2
  <2>2. CASE k \in 1 .. Len(Base)
    <3>1. list[k] = <<Base[k], -k>> /\ <<Base[k], -k>> \in ToSet(BaseSlots)
      BY <1>1, <2>2, BaseTypes
    <3> QED
      BY <2>1, <3>1
  <2>3. CASE k \notin 1 .. Len(Base)
    <3>1. k \in Len(Base) + 1 .. Len(list)
      BY <1>1, <2>3, BaseTypes
    <3> QED
      BY <1>1, <1>6, <2>1, <3>1 DEF BaseBeyond
  <2> QED
    BY <2>2, <2>3
<1>7. ToSet(list) \subseteq SlotIds
  BY <1>1, <1>2
<1> QED
  BY <1>1, <1>2, <1>4, <1>6, <1>7

\* Slots of the file after the base slots make such a list.
LEMMA ListingMade ==
  ASSUME NEW d, OfFile(d)
  PROVE  /\ Listing(BaseSlots \o d)
         /\ ToSet(BaseSlots \o d) = ToSet(BaseSlots) \cup ToSet(d)
         /\ Listed(BaseSlots \o d) = ToSet(d)
<1>1. d \in Seq(SlotIds) /\ BaseSlots \in Seq(SlotIds) /\ Len(d) \in Nat /\ Len(Base) \in Nat
      /\ Len(BaseSlots) = Len(Base)
  BY BaseTypes DEF OfFile
<1>2. PICK list : list = BaseSlots \o d
  OBVIOUS
<1>3. /\ list \in Seq(SlotIds) /\ Len(list) = Len(Base) + Len(d)
      /\ \A k \in 1 .. Len(Base) : list[k] = BaseSlots[k]
      /\ \A k \in 1 .. Len(d) : list[Len(Base) + k] = d[k]
  <2>1. list \in Seq(SlotIds) /\ Len(list) = Len(BaseSlots) + Len(d)
    BY <1>1, <1>2, ConcatProperties
  <2>2. \A k \in 1 .. Len(list) :
          list[k] = IF k <= Len(BaseSlots) THEN BaseSlots[k] ELSE d[k - Len(BaseSlots)]
    BY <1>1, <1>2, ConcatProperties
  <2>3. ASSUME NEW k \in 1 .. Len(Base) PROVE list[k] = BaseSlots[k]
    <3>1. k \in 1 .. Len(list) /\ k <= Len(BaseSlots)
      BY <1>1, <2>1
    <3> QED
      BY <2>2, <3>1
  <2>4. ASSUME NEW k \in 1 .. Len(d) PROVE list[Len(Base) + k] = d[k]
    <3>1. /\ Len(Base) + k \in 1 .. Len(list) /\ ~ (Len(Base) + k <= Len(BaseSlots))
          /\ Len(Base) + k - Len(BaseSlots) = k
      BY <1>1, <2>1
    <3> QED
      BY <2>2, <3>1
  <2> QED
    BY <1>1, <2>1, <2>3, <2>4
<1>4. \A k \in 1 .. Len(list) : \/ k \in 1 .. Len(Base)
                                \/ \E m \in 1 .. Len(d) : k = Len(Base) + m
  <2> SUFFICES ASSUME NEW k \in 1 .. Len(list), k \notin 1 .. Len(Base)
               PROVE  \E m \in 1 .. Len(d) : k = Len(Base) + m
    OBVIOUS
  <2>1. k - Len(Base) \in 1 .. Len(d) /\ k = Len(Base) + (k - Len(Base))
    BY <1>1, <1>3
  <2> QED
    BY <2>1
<1>5. \A k \in 1 .. Len(Base) : list[k] = <<Base[k], -k>>
  BY <1>3, BaseTypes
<1>6. \A k \in Len(Base) + 1 .. Len(list) :
        k - Len(Base) \in 1 .. Len(d) /\ list[k] = d[k - Len(Base)]
  <2> SUFFICES ASSUME NEW k \in Len(Base) + 1 .. Len(list)
               PROVE  k - Len(Base) \in 1 .. Len(d) /\ list[k] = d[k - Len(Base)]
    OBVIOUS
  <2>1. k - Len(Base) \in 1 .. Len(d) /\ Len(Base) + (k - Len(Base)) = k
    BY <1>1, <1>3
  <2> QED
    BY <1>3, <2>1
<1>a. \A j, k \in Len(Base) + 1 .. Len(list) : list[j][1] = list[k][1] => j = k
  <2> SUFFICES ASSUME NEW j \in Len(Base) + 1 .. Len(list), NEW k \in Len(Base) + 1 .. Len(list),
                      list[j][1] = list[k][1]
               PROVE  j = k
    OBVIOUS
  <2>1. /\ j - Len(Base) \in 1 .. Len(d) /\ k - Len(Base) \in 1 .. Len(d)
        /\ d[j - Len(Base)][1] = d[k - Len(Base)][1]
    BY <1>6
  <2>2. j - Len(Base) = k - Len(Base)
    BY <2>1 DEF OfFile, UrlsApart
  <2> QED
    BY <1>1, <2>2
<1>b. BaseBeyond(list, Len(Base) + 1)
  BY <1>6 DEF OfFile, BaseBeyond
<1>c. Listed(list) = ToSet(d)
  <2>1. ToSet(d) = {d[k] : k \in 1 .. Len(d)}
    BY <1>1 DEF ToSet
  <2>2. \A x \in Listed(list) : x \in ToSet(d)
    BY <1>6, <2>1 DEF Listed
  <2>3. ASSUME NEW m \in 1 .. Len(d) PROVE d[m] \in Listed(list)
    <3>1. Len(Base) + m \in Len(Base) + 1 .. Len(list) /\ list[Len(Base) + m] = d[m]
      BY <1>1, <1>3
    <3> QED
      BY <3>1 DEF Listed
  <2> QED
    BY <2>1, <2>2, <2>3
<1>7. ToSet(list) = ToSet(BaseSlots) \cup ToSet(d)
  <2>1. /\ ToSet(list) = {list[k] : k \in 1 .. Len(list)}
        /\ ToSet(BaseSlots) = {BaseSlots[k] : k \in 1 .. Len(Base)}
        /\ ToSet(d) = {d[k] : k \in 1 .. Len(d)}
    <3>1. /\ DOMAIN list = 1 .. Len(list) /\ DOMAIN BaseSlots = 1 .. Len(Base)
          /\ DOMAIN d = 1 .. Len(d)
      BY <1>1, <1>3
    <3> QED
      BY <3>1 DEF ToSet
  <2>2. ASSUME NEW k \in 1 .. Len(list) PROVE list[k] \in ToSet(BaseSlots) \cup ToSet(d)
    <3>1. CASE k \in 1 .. Len(Base)
      BY <1>3, <2>1, <3>1
    <3>2. CASE k \notin 1 .. Len(Base)
      <4>1. PICK m \in 1 .. Len(d) : k = Len(Base) + m
        BY <1>4, <3>2
      <4> QED
        BY <1>3, <2>1, <4>1
    <3> QED
      BY <3>1, <3>2
  <2>3. \A k \in 1 .. Len(Base) : k \in 1 .. Len(list)
    BY <1>1, <1>3
  <2>4. \A k \in 1 .. Len(d) : Len(Base) + k \in 1 .. Len(list)
    BY <1>1, <1>3
  <2>5. ASSUME NEW x \in ToSet(BaseSlots) \cup ToSet(d) PROVE x \in ToSet(list)
    BY <1>3, <2>1, <2>3, <2>4
  <2> QED
    BY <2>1, <2>2, <2>5
<1>8. Len(Base) <= Len(list)
  BY <1>1, <1>3
<1> QED
  BY <1>2, <1>3, <1>5, <1>7, <1>8, <1>a, <1>b, <1>c DEF Listing

LEMMA LeastNatural ==
  ASSUME NEW S, S \subseteq Nat, S # {}
  PROVE  \E x \in S : \A y \in S : x <= y
<1> DEFINE Before == {ss \in Nat \X Nat : ss[1] < ss[2]}
<1>1. PICK x \in S : \A y \in S : ~ <<y, x>> \in Before
  BY NatLessThanWellFounded, WFMin DEF OpToRel
<1>2. \A y \in S : ~ (y < x)
  BY <1>1
<1> QED
  BY <1>2

LEMMA MinOf ==
  ASSUME NEW S, S \subseteq Nat, S # {}
  PROVE  Min(S) \in S /\ \A y \in S : Min(S) <= y
BY LeastNatural DEF Min

LEMMA GreatestNatural ==
  ASSUME NEW S, S \subseteq Nat, S # {}, NEW k \in Nat, \A n \in S : n <= k
  PROVE  \E n \in S : \A m \in S : m <= n
<1> DEFINE T == {k - n : n \in S}
           Before == {ss \in Nat \X Nat : ss[1] < ss[2]}
<1>1. T # {} /\ T \subseteq Nat
  <2>1. ASSUME NEW n \in S PROVE k - n \in Nat
    OBVIOUS
  <2> QED
    BY <2>1
<1>2. PICK t \in T : \A u \in T : ~ <<u, t>> \in Before
  BY <1>1, NatLessThanWellFounded, WFMin DEF OpToRel
<1>3. PICK n \in S : t = k - n
  OBVIOUS
<1>4. ASSUME NEW m \in S PROVE m <= n
  <2>1. k - m \in T /\ k - m \in Nat /\ t \in Nat
    BY <1>1
  <2>2. ~ (k - m < t)
    BY <1>2, <2>1
  <2>3. n \in Nat /\ m \in Nat
    OBVIOUS
  <2> QED
    BY ONLY <1>3, <2>1, <2>2, <2>3, k \in Nat
<1> QED
  BY <1>4

LEMMA MaxOf ==
  ASSUME NEW n \in Nat, NEW S, S \subseteq 1 .. n, S # {}
  PROVE  Max(S) \in S
<1>1. S \subseteq Nat /\ \A k \in S : k <= n
  OBVIOUS
<1>2. \E k \in S : \A j \in S : j <= k
  BY <1>1, GreatestNatural
<1>3. \E k \in S : \A j \in S : k >= j
  BY <1>1, <1>2
<1> QED
  BY <1>3 DEF Max

\* Among the members of a finite set of places there is one of every rank.
LEMMA RankReached ==
  ASSUME NEW n \in Nat, NEW P, P \subseteq 1 .. n, NEW p \in 1 .. Cardinality(P)
  PROVE  \E k \in P : Rank(P, k) = p
<1> DEFINE R(k) == {j \in P : j <= k}
           S == {k \in 0 .. n : Cardinality(R(k)) >= p}
<1>1. IsFiniteSet(P) /\ \A k \in Nat : IsFiniteSet(R(k)) /\ Cardinality(R(k)) \in Nat
  <2>1. IsFiniteSet(1 .. n)
    BY FS_Interval
  <2>2. IsFiniteSet(P)
    BY <2>1, FS_Subset
  <2>3. ASSUME NEW k \in Nat PROVE IsFiniteSet(R(k)) /\ Cardinality(R(k)) \in Nat
    <3>1. R(k) \subseteq P
      OBVIOUS
    <3>2. IsFiniteSet(R(k))
      BY <2>2, <3>1, FS_Subset
    <3> QED
      BY <3>2, FS_CardinalityType
  <2> QED
    BY <2>2, <2>3
<1>2. R(n) = P /\ R(0) = {}
  <2>1. \A j \in P : j <= n /\ ~ (j <= 0)
    OBVIOUS
  <2> QED
    BY <2>1
<1>3. Cardinality(P) \in Nat /\ p \in Nat /\ p <= Cardinality(P) /\ 1 <= p
  BY <1>1, FS_CardinalityType
<1>4. n \in S
  BY <1>2, <1>3
<1>5. S \subseteq Nat /\ S # {}
  <2>1. S # {}
    BY <1>4
  <2>2. S \subseteq 0 .. n
    OBVIOUS
  <2> QED
    BY <2>1, <2>2
<1>6. PICK k \in S : \A m \in S : k <= m
  BY <1>5, LeastNatural
<1>7. k # 0
  BY <1>2, <1>3, <1>6, FS_EmptySet
<1>8. /\ k - 1 \in 0 .. n /\ k - 1 \notin S /\ k - 1 \in Nat /\ k \in Nat
  <2>1. k \in 0 .. n /\ k \in Nat
    BY <1>6
  <2>2. k - 1 \in 0 .. n /\ k - 1 \in Nat /\ ~ (k <= k - 1)
    BY <1>7, <2>1
  <2>3. k - 1 \notin S
    BY <1>6, <2>2
  <2> QED
    BY <2>1, <2>2, <2>3
<1>9. Cardinality(R(k - 1)) < p /\ Cardinality(R(k - 1)) \in Nat /\ Cardinality(R(k)) \in Nat
      /\ Cardinality(R(k)) >= p
  <2>1. Cardinality(R(k - 1)) \in Nat /\ Cardinality(R(k)) \in Nat
    BY <1>1, <1>8
  <2>2. ~ (Cardinality(R(k - 1)) >= p)
    BY <1>8
  <2>3. Cardinality(R(k)) >= p
    BY <1>6
  <2> QED
    BY <1>3, <2>1, <2>2, <2>3
<1>10. k \in P
  <2> SUFFICES ASSUME k \notin P PROVE FALSE
    OBVIOUS
  <2>1. R(k) = R(k - 1)
    <3>1. \A j \in P : j <= k <=> j <= k - 1
      BY <1>8
    <3> QED
      BY <3>1
  <2> QED
    BY <1>3, <1>9, <2>1
<1>11. R(k) = R(k - 1) \cup {k} /\ k \notin R(k - 1)
  <2>1. \A j \in P : j <= k <=> j <= k - 1 \/ j = k
    BY <1>8
  <2> QED
    BY <1>8, <1>10, <2>1
<1>12. Cardinality(R(k)) = Cardinality(R(k - 1)) + 1
  BY <1>1, <1>8, <1>11, FS_AddElement
<1>13. Cardinality(R(k)) = p
  BY <1>3, <1>9, <1>12
<1> QED
  BY <1>10, <1>13 DEF Rank

\* What a refresh takes of the file: chosen candidates, no URL twice.
LEMMA DynamicFacts ==
  ASSUME ListTypeOK, NEW r \in Refreshes, OfFile(run[r].candidates)
  PROVE  /\ OfFile(Dynamic(r))
         /\ ToSet(Dynamic(r)) \subseteq ToSet(run[r].candidates) \cap run[r].chosen
<1>1. PICK c \in Seq(SlotIds) : c = run[r].candidates
  BY DEF OfFile
<1>2. PICK P : P = Picked(r)
  OBVIOUS
<1>3. P \subseteq 1 .. Len(c) /\ Len(c) \in Nat /\ \A k \in P : c[k] \in run[r].chosen
  BY <1>1, <1>2 DEF Picked
<1>4. Cardinality(P) \in Nat
  <2>n. 1 \in Int /\ Len(c) \in Int
    BY <1>3
  <2>1. IsFiniteSet(1 .. Len(c))
    BY <2>n, FS_Interval
  <2>2. IsFiniteSet(P)
    BY <1>3, <2>1, FS_Subset
  <2> QED
    BY <2>2, FS_CardinalityType
<1>5. PICK size : size = IF Cardinality(P) < Target THEN Cardinality(P) ELSE Target
  OBVIOUS
<1>6. size \in Nat /\ \A p \in 1 .. size : p \in 1 .. Cardinality(P)
  BY <1>4, <1>5, ListAssumption
<1> DEFINE At(p) == CHOOSE k \in P : Rank(P, k) = p
<1>7. \A p \in 1 .. size : At(p) \in P /\ Rank(P, At(p)) = p
  <2> SUFFICES ASSUME NEW p \in 1 .. size
               PROVE  At(p) \in P /\ Rank(P, At(p)) = p
    OBVIOUS
  <2>1. \E k \in P : Rank(P, k) = p
    BY <1>3, <1>6, RankReached
  <2> QED
    BY <2>1
<1>8. \A p, q \in 1 .. size : At(p) = At(q) => p = q
  BY <1>7
<1>9. Dynamic(r) = [p \in 1 .. size |-> c[At(p)]]
  BY <1>1, <1>2, <1>5 DEF Dynamic, FirstPicked
<1> HIDE DEF At
<1>10. PICK d : d = Dynamic(r)
  OBVIOUS
<1>11. \A p \in 1 .. size : c[At(p)] \in SlotIds /\ At(p) \in 1 .. Len(c)
  <2> SUFFICES ASSUME NEW p \in 1 .. size PROVE c[At(p)] \in SlotIds /\ At(p) \in 1 .. Len(c)
    OBVIOUS
  <2>1. At(p) \in 1 .. Len(c)
    BY <1>3, <1>7
  <2> QED
    BY <1>1, <2>1
<1>12. d \in Seq(SlotIds) /\ Len(d) = size /\ \A p \in 1 .. size : d[p] = c[At(p)]
  BY <1>6, <1>9, <1>10, <1>11
<1>13. UrlsApart(d)
  <2> SUFFICES ASSUME NEW p \in 1 .. size, NEW q \in 1 .. size, d[p][1] = d[q][1]
               PROVE  p = q
    BY <1>12 DEF UrlsApart
  <2>1. At(p) \in 1 .. Len(c) /\ At(q) \in 1 .. Len(c) /\ c[At(p)][1] = c[At(q)][1]
    BY <1>11, <1>12
  <2>2. At(p) = At(q)
    BY <1>1, <2>1 DEF OfFile, UrlsApart
  <2> QED
    BY <1>8, <2>2
<1>14. BaseBeyond(d, 1)
  <2>1. \A p \in 1 .. size : c[At(p)][1] \in ToSet(Base) => c[At(p)] \in ToSet(BaseSlots)
    BY <1>1, <1>11 DEF OfFile, BaseBeyond
  <2> QED
    BY <1>12, <2>1 DEF BaseBeyond
<1>15. ToSet(d) \subseteq ToSet(c) \cap run[r].chosen
  <2>1. ToSet(d) = {d[p] : p \in 1 .. size} /\ ToSet(c) = {c[k] : k \in 1 .. Len(c)}
    BY <1>12, <1>1 DEF ToSet
  <2> QED
    BY <1>3, <1>7, <1>11, <1>12, <2>1
<1> QED
  BY <1>1, <1>10, <1>12, <1>13, <1>14, <1>15 DEF OfFile

-----------------------------------------------------------------------------
\* Everything that is referenced is there.
Present(obj) ==
    /\ ToSet(slots) \subseteq DOMAIN obj /\ ToSet(dedupe.list) \subseteq DOMAIN obj
    /\ \A r \in Refreshes : ToSet(run[r].candidates) \subseteq DOMAIN obj

Apart(obj, ss) == \A s, t \in ss : s # t => obj[s].egress # obj[t].egress

\* What an activity that no other overlaps has found.
AloneInv(r) ==
    run[r].alone =>
        /\ dedupe.at = "done" /\ run[r].at # "idle"
        /\ \A q \in Refreshes \ {r} : run[q].at = "idle"
        /\ Reused(ToSet(slots), ToSet(run[r].candidates))
        /\ run[r].at = "publish" => Apart(object, run[r].chosen)

ListInv ==
    /\ ListTypeOK
    /\ Listing(slots)
    /\ dedupe.at \in {"probe", "publish"} => Listing(dedupe.list)
    /\ Present(object)
    /\ \A r \in Refreshes : OfFile(run[r].candidates) /\ AloneInv(r)

LEMMA InitList == ListInit => ListInv
<1> SUFFICES ASSUME ListInit PROVE ListInv
  OBVIOUS
<1>1. Listing(slots) /\ slots \in Seq(SlotIds)
  BY BaseTypes DEF ListInit, Listing, BaseBeyond
<1>2. /\ DOMAIN object = ToSet(BaseSlots)
      /\ object \in [DOMAIN object -> SlotStates]
  BY DEF ListInit, SlotStates, Addresses
<1>3. <<>> \in Seq(SlotIds) /\ Len(<<>>) = 0 /\ ToSet(<<>>) = {}
  BY DEF ToSet
<1>4. OfFile(<<>>)
  BY <1>3 DEF OfFile, UrlsApart, BaseBeyond
<1>5. \A r \in Refreshes : run[r] = Resting
  BY DEF ListInit
<1>6. Resting \in RefreshStates
  BY <1>3 DEF Resting, RefreshStates
<1>7. ListTypeOK
  BY <1>1, <1>2, <1>3, <1>6 DEF ListInit, ListTypeOK
<1>8. Present(object)
  BY <1>2, <1>3, <1>5 DEF ListInit, Present, Resting
<1>9. dedupe.at \in {"start", "done"}
  BY DEF ListInit
<1> QED
  BY <1>1, <1>2, <1>4, <1>5, <1>7, <1>8, <1>9 DEF ListInv, AloneInv, Resting

\* What is referenced stays as it is.
LEMMA Used ==
  ASSUME NEW objects, NEW list, NEW runs, NEW dd
  PROVE  /\ DOMAIN Retain(objects, list, runs, dd) \subseteq DOMAIN objects
         /\ \A s \in DOMAIN Retain(objects, list, runs, dd) :
              Retain(objects, list, runs, dd)[s] = objects[s]
         /\ DOMAIN objects \cap ToSet(list) \subseteq DOMAIN Retain(objects, list, runs, dd)
         /\ DOMAIN objects \cap ToSet(dd.list) \subseteq DOMAIN Retain(objects, list, runs, dd)
         /\ \A r \in Refreshes : DOMAIN objects \cap ToSet(runs[r].candidates)
                                   \subseteq DOMAIN Retain(objects, list, runs, dd)
BY DEF Retain

\* A line of the file gets the object the list has for it, or a fresh one.
LEMMA CandidateFacts ==
  ASSUME ListInv, NEW u \in Urls, Room(u)
  PROVE  /\ Candidate(u) \in SlotIds /\ Candidate(u)[1] = u
         /\ \A s \in ToSet(slots) : s[1] = u => Candidate(u) \in ToSet(slots)
         /\ u \in ToSet(Base) => Candidate(u) \in ToSet(BaseSlots)
<1>1. /\ ToSet(slots) \subseteq SlotIds /\ ToSet(BaseSlots) \subseteq ToSet(slots)
      /\ \A s \in ToSet(slots) : s[1] \in ToSet(Base) => s \in ToSet(BaseSlots)
      /\ ToSet(slots) = {slots[k] : k \in 1 .. Len(slots)} /\ Len(slots) \in Nat
      /\ DOMAIN slots = 1 .. Len(slots)
  <2>1. Listing(slots) /\ slots \in Seq(SlotIds)
    BY DEF ListInv, Listing
  <2> QED
    BY <2>1, ListingFacts
<1>2. PICK places : places = {k \in DOMAIN slots : slots[k][1] = u}
  OBVIOUS
<1>3. Candidate(u) = IF places = {} THEN NewSlot(u) ELSE slots[Max(places)]
  BY <1>2 DEF Candidate
<1>4. CASE places # {}
  <2>1. Max(places) \in places
    BY <1>1, <1>2, <1>4, MaxOf
  <2>2. Candidate(u) \in ToSet(slots) /\ Candidate(u)[1] = u
    BY <1>1, <1>2, <1>3, <1>4, <2>1
  <2> QED
    BY <1>1, <2>2
<1>5. CASE places = {}
  <2>1. PICK n \in 1 .. MaxCopies : Candidate(u) = <<u, n>>
    BY <1>3, <1>5 DEF NewSlot, Room
  <2>2. n \in Int
    BY ListAssumption
  <2>3. \A s \in ToSet(slots) : s[1] # u
    BY <1>1, <1>2, <1>5
  <2>4. u \notin ToSet(Base)
    <3> SUFFICES ASSUME u \in ToSet(Base) PROVE FALSE
      OBVIOUS
    <3>1. PICK k \in 1 .. Len(Base) : u = Base[k]
      BY BaseTypes
    <3>2. <<Base[k], -k>> \in ToSet(BaseSlots) /\ <<Base[k], -k>>[1] = u
      BY <3>1, BaseTypes
    <3> QED
      BY <1>1, <2>3, <3>2
  <2> QED
    BY <2>1, <2>2, <2>3, <2>4 DEF SlotIds
<1> QED
  BY <1>4, <1>5

LEMMA StartList ==
  ASSUME ListInv, NEW r \in Refreshes, StartRefresh(r)
  PROVE  ListInv'
<1>t. /\ ListTypeOK /\ Listing(slots) /\ Present(object)
      /\ \A q \in Refreshes : OfFile(run[q].candidates) /\ AloneInv(q)
      /\ ToSet(BaseSlots) \subseteq ToSet(slots)
  BY ListingFacts DEF ListInv
<1>1. PICK c : c = [k \in DOMAIN file |-> Candidate(file[k])]
  OBVIOUS
<1>2. /\ object' = [s \in DOMAIN object \cup ToSet(c) |->
                      IF s \in DOMAIN object THEN object[s]
                      ELSE [egress |-> Unknown, disabled |-> FALSE]]
      /\ run' = [q \in Refreshes |->
                    IF q = r THEN [at |-> "probe", candidates |-> c,
                                   chosen |-> {}, alone |-> Alone(r)]
                    ELSE [run[q] EXCEPT !.alone = FALSE]]
      /\ UNCHANGED <<slots, file, world, dedupe>>
      /\ \A u \in ToSet(file) : Room(u)
  BY <1>1 DEF StartRefresh
<1>3. /\ file \in Seq(Urls) /\ DOMAIN file = 1 .. Len(file) /\ Len(file) \in Nat
      /\ \A j, k \in 1 .. Len(file) : file[j] = file[k] => j = k
  <2>1. file \in Seq(Urls) /\ IsInjective(file)
    BY <1>t, ListAssumption DEF ListTypeOK
  <2>2. DOMAIN file = 1 .. Len(file) /\ Len(file) \in Nat
    BY <2>1
  <2> QED
    BY <2>1, <2>2 DEF IsInjective, ToSet
<1>4. \A k \in 1 .. Len(file) : /\ c[k] = Candidate(file[k])
                                /\ file[k] \in Urls /\ Room(file[k])
  BY <1>1, <1>2, <1>3 DEF ToSet
<1>5. \A k \in 1 .. Len(file) :
        /\ c[k] \in SlotIds /\ c[k][1] = file[k]
        /\ \A s \in ToSet(slots) : s[1] = file[k] => c[k] \in ToSet(slots)
        /\ file[k] \in ToSet(Base) => c[k] \in ToSet(BaseSlots)
  BY <1>4, CandidateFacts
<1>6. c \in Seq(SlotIds) /\ Len(c) = Len(file) /\ ToSet(c) = {c[k] : k \in 1 .. Len(file)}
  <2>1. c = [k \in 1 .. Len(file) |-> c[k]]
    BY <1>1, <1>3
  <2>2. c \in Seq(SlotIds) /\ Len(c) = Len(file)
    BY <1>3, <1>5, <2>1
  <2> QED
    BY <2>2 DEF ToSet
<1>7. OfFile(c)
  BY <1>3, <1>5, <1>6 DEF OfFile, UrlsApart, BaseBeyond
<1>8. Reused(ToSet(slots), ToSet(c))
  BY <1>5, <1>6 DEF Reused
<1>9. /\ DOMAIN object' = DOMAIN object \cup ToSet(c)
      /\ \A s \in DOMAIN object : object'[s] = object[s]
      /\ object' \in [DOMAIN object' -> SlotStates]
  BY <1>2, <1>t DEF ListTypeOK, SlotStates, Addresses
<1>10. /\ run'[r] = [at |-> "probe", candidates |-> c, chosen |-> {}, alone |-> Alone(r)]
       /\ \A q \in Refreshes \ {r} :
            /\ run'[q].candidates = run[q].candidates /\ run'[q].at = run[q].at
            /\ run'[q].chosen = run[q].chosen /\ run'[q].alone = FALSE
            /\ run'[q] \in RefreshStates
  <2>1. \A q \in Refreshes : run[q] \in RefreshStates
    BY <1>t DEF ListTypeOK
  <2> QED
    BY <1>2, <2>1 DEF RefreshStates
<1>11. Alone(r) \in BOOLEAN
  BY DEF Alone
<1>12. ListTypeOK'
  <2>1. run'[r] \in RefreshStates
    BY <1>6, <1>10, <1>11 DEF RefreshStates
  <2>2. run' \in [Refreshes -> RefreshStates]
    BY <1>2, <1>10, <2>1
  <2> QED
    BY <1>2, <1>9, <1>t, <2>2 DEF ListTypeOK
<1>13. Present(object)'
  <2>1. ToSet(slots) \subseteq DOMAIN object' /\ ToSet(dedupe.list) \subseteq DOMAIN object'
    BY <1>9, <1>t DEF Present
  <2>2. ToSet(run'[r].candidates) \subseteq DOMAIN object'
    BY <1>9, <1>10
  <2>3. \A q \in Refreshes \ {r} : ToSet(run'[q].candidates) \subseteq DOMAIN object'
    BY <1>9, <1>10, <1>t DEF Present
  <2> QED
    BY <1>2, <2>1, <2>2, <2>3 DEF Present
<1>14. \A q \in Refreshes : OfFile(run'[q].candidates)
  BY <1>7, <1>10, <1>t
<1>15. AloneInv(r)'
  BY <1>2, <1>8, <1>10 DEF AloneInv, Alone, Busy
<1>16. \A q \in Refreshes \ {r} : AloneInv(q)'
  BY <1>10 DEF AloneInv
<1> QED
  BY <1>2, <1>12, <1>13, <1>14, <1>15, <1>16
  DEF ListInv, Listing, BaseBeyond

LEMMA ProbedList ==
  ASSUME ListInv, NEW r \in Refreshes, Probed(r)
  PROVE  ListInv'
<1>t. /\ ListTypeOK /\ Listing(slots) /\ Present(object)
      /\ \A q \in Refreshes : OfFile(run[q].candidates) /\ AloneInv(q)
      /\ ToSet(BaseSlots) \subseteq ToSet(slots)
  BY ListingFacts DEF ListInv
<1>1. PICK up : up = {s \in ToSet(run[r].candidates) : Up(s)}
  OBVIOUS
<1>2. PICK chosen \in SUBSET up :
        /\ \A s, t \in chosen : s # t => world[t[1]] # world[s[1]]
        /\ run' = [run EXCEPT ![r].at = "publish", ![r].chosen = chosen \cap up]
  BY <1>1 DEF Probed, OnePerAddress
<1>3. /\ run[r].at = "probe" /\ UNCHANGED <<slots, file, world, dedupe>>
      /\ object' = [s \in DOMAIN object |->
                      IF s \in up THEN [object[s] EXCEPT !.egress = world[s[1]]]
                      ELSE object[s]]
  BY <1>1 DEF Probed
<1>4. /\ run[r] \in RefreshStates /\ run[r].candidates \in Seq(SlotIds)
      /\ up \subseteq DOMAIN object /\ up \subseteq SlotIds
  <2>1. run[r] \in RefreshStates /\ run[r].candidates \in Seq(SlotIds)
    BY <1>t DEF ListTypeOK, RefreshStates
  <2>2. up \subseteq ToSet(run[r].candidates) /\ ToSet(run[r].candidates) \subseteq DOMAIN object
    BY <1>1, <1>t DEF Present
  <2>3. ToSet(run[r].candidates) \subseteq SlotIds
    BY <2>1 DEF ToSet
  <2> QED
    BY <2>1, <2>2, <2>3
<1>5. /\ DOMAIN object' = DOMAIN object
      /\ \A s \in DOMAIN object : object[s] \in SlotStates
      /\ \A s \in DOMAIN object \ up : object'[s] = object[s]
      /\ \A s \in up : object'[s] = [object[s] EXCEPT !.egress = world[s[1]]]
  BY <1>3, <1>4, <1>t DEF ListTypeOK
<1>6. \A s \in up : object'[s] \in SlotStates /\ object'[s].egress = world[s[1]]
  <2> SUFFICES ASSUME NEW s \in up
               PROVE  object'[s] \in SlotStates /\ object'[s].egress = world[s[1]]
    OBVIOUS
  <2>1. world[s[1]] \in Addresses
    BY <1>4, <1>t DEF Addresses, ListTypeOK, SlotIds
  <2>2. object[s] \in SlotStates /\ object'[s] = [object[s] EXCEPT !.egress = world[s[1]]]
    BY <1>4, <1>5
  <2> QED
    BY <2>1, <2>2 DEF SlotStates
<1>7. object' \in [DOMAIN object' -> SlotStates]
  <2>1. \A s \in DOMAIN object : object'[s] \in SlotStates
    BY <1>5, <1>6
  <2> QED
    BY <1>3, <1>5, <2>1
<1>8. /\ run'[r].at = "publish" /\ run'[r].chosen = chosen
      /\ run'[r].candidates = run[r].candidates /\ run'[r].alone = run[r].alone
      /\ run'[r] \in RefreshStates
      /\ \A q \in Refreshes \ {r} : run'[q] = run[q]
      /\ run' \in [Refreshes -> RefreshStates]
  <2>1. chosen \cap up = chosen /\ chosen \in SUBSET SlotIds
    BY <1>2, <1>4
  <2>2. run \in [Refreshes -> RefreshStates]
    BY <1>t DEF ListTypeOK
  <2>3. run' = [run EXCEPT ![r] = [run[r] EXCEPT !.at = "publish", !.chosen = chosen]]
    BY <1>2, <2>1, <2>2
  <2>4. [run[r] EXCEPT !.at = "publish", !.chosen = chosen] \in RefreshStates
    BY <1>4, <2>1 DEF RefreshStates
  <2>5. /\ [run[r] EXCEPT !.at = "publish", !.chosen = chosen].at = "publish"
        /\ [run[r] EXCEPT !.at = "publish", !.chosen = chosen].chosen = chosen
        /\ [run[r] EXCEPT !.at = "publish", !.chosen = chosen].candidates = run[r].candidates
        /\ [run[r] EXCEPT !.at = "publish", !.chosen = chosen].alone = run[r].alone
    BY <1>4 DEF RefreshStates
  <2> QED
    BY <2>2, <2>3, <2>4, <2>5
<1>9. ListTypeOK'
  BY <1>3, <1>7, <1>8, <1>t DEF ListTypeOK
<1>10. Present(object)'
  BY <1>3, <1>5, <1>8, <1>t DEF Present
<1>11. \A q \in Refreshes : OfFile(run'[q].candidates)
  BY <1>8, <1>t
<1>12. AloneInv(r)'
  <2>1. Apart(object', chosen)
    BY <1>2, <1>6 DEF Apart
  <2> QED
    BY <1>3, <1>8, <1>t, <2>1 DEF AloneInv
<1>13. \A q \in Refreshes \ {r} : AloneInv(q)'
  BY <1>3, <1>8, <1>t DEF AloneInv
<1> QED
  BY <1>3, <1>9, <1>10, <1>11, <1>12, <1>13
  DEF ListInv, Listing, BaseBeyond

\* What a refresh that has probed makes of the list.
LEMMA Published ==
  ASSUME ListInv, NEW r \in Refreshes, Publish(r)
  PROVE  /\ Listing(slots') /\ ToSet(slots') \subseteq DOMAIN object
         /\ BaseSlots \o Dynamic(r) # <<>>
            => /\ slots' = BaseSlots \o Dynamic(r)
               /\ Listed(slots') = ToSet(Dynamic(r))
         /\ ToSet(Dynamic(r)) \subseteq ToSet(run[r].candidates) \cap run[r].chosen
<1>1. /\ ListTypeOK /\ Listing(slots) /\ Present(object) /\ OfFile(run[r].candidates)
      /\ ToSet(BaseSlots) \subseteq ToSet(slots)
  BY ListingFacts DEF ListInv
<1>2. /\ OfFile(Dynamic(r))
      /\ ToSet(Dynamic(r)) \subseteq ToSet(run[r].candidates) \cap run[r].chosen
  BY <1>1, DynamicFacts
<1>3. PICK list : list = BaseSlots \o Dynamic(r)
  OBVIOUS
<1>4. /\ Listing(list) /\ ToSet(list) = ToSet(BaseSlots) \cup ToSet(Dynamic(r))
      /\ Listed(list) = ToSet(Dynamic(r))
  BY <1>2, <1>3, ListingMade
<1>5. slots' = IF list = <<>> THEN slots ELSE list
  BY <1>3 DEF Publish
<1>6. ToSet(slots') \subseteq DOMAIN object
  BY <1>1, <1>2, <1>4, <1>5 DEF Present
<1> QED
  BY <1>1, <1>2, <1>3, <1>4, <1>5, <1>6

LEMMA PublishList ==
  ASSUME ListInv, NEW r \in Refreshes, Publish(r)
  PROVE  ListInv'
<1>t. /\ ListTypeOK /\ Present(object)
      /\ \A q \in Refreshes : OfFile(run[q].candidates) /\ AloneInv(q)
  BY DEF ListInv
<1>1. /\ run[r].at = "publish" /\ UNCHANGED <<file, world, dedupe>>
      /\ run' = [run EXCEPT ![r] = Resting]
      /\ object' = Retain(object, slots', run', dedupe)
  BY DEF Publish
<1>2. /\ Listing(slots') /\ ToSet(slots') \subseteq DOMAIN object
  BY Published
<1>3. run'[r] = Resting /\ \A q \in Refreshes \ {r} : run'[q] = run[q]
  BY <1>1, <1>t DEF ListTypeOK
<1>4. <<>> \in Seq(SlotIds) /\ Len(<<>>) = 0 /\ ToSet(<<>>) = {}
  BY DEF ToSet
<1>5. Resting \in RefreshStates /\ Resting.candidates = <<>> /\ Resting.at = "idle"
      /\ Resting.alone = FALSE /\ OfFile(<<>>)
  BY <1>4 DEF Resting, RefreshStates, OfFile, UrlsApart, BaseBeyond
<1>6. /\ DOMAIN object' \subseteq DOMAIN object
      /\ \A s \in DOMAIN object' : object'[s] = object[s]
      /\ ToSet(slots') \subseteq DOMAIN object'
      /\ ToSet(dedupe.list) \subseteq DOMAIN object'
      /\ \A q \in Refreshes : DOMAIN object \cap ToSet(run'[q].candidates) \subseteq DOMAIN object'
  <2>1. PICK left : left = Retain(object, slots', run', dedupe)
    OBVIOUS
  <2>2. /\ DOMAIN left \subseteq DOMAIN object /\ \A s \in DOMAIN left : left[s] = object[s]
        /\ DOMAIN object \cap ToSet(slots') \subseteq DOMAIN left
        /\ DOMAIN object \cap ToSet(dedupe.list) \subseteq DOMAIN left
        /\ \A q \in Refreshes : DOMAIN object \cap ToSet(run'[q].candidates) \subseteq DOMAIN left
    BY <2>1, Used
  <2>3. object' = left
    BY <1>1, <2>1
  <2> QED
    BY <1>2, <1>t, <2>2, <2>3 DEF Present
<1>7. object' \in [DOMAIN object' -> SlotStates]
  <2>1. \A s \in DOMAIN object' : object'[s] \in SlotStates
    BY <1>6, <1>t DEF ListTypeOK
  <2>2. object' = [s \in DOMAIN object' |-> object'[s]]
    BY <1>1 DEF Retain
  <2> QED
    BY <2>1, <2>2
<1>8. ListTypeOK'
  <2>1. run' \in [Refreshes -> RefreshStates]
    BY <1>1, <1>5, <1>t DEF ListTypeOK
  <2>2. slots' \in Seq(SlotIds)
    BY <1>2 DEF Listing
  <2> QED
    BY <1>1, <1>7, <1>t, <2>1, <2>2 DEF ListTypeOK
<1>9. \A q \in Refreshes : ToSet(run'[q].candidates) \subseteq DOMAIN object'
  BY <1>3, <1>4, <1>5, <1>6, <1>t DEF Present
<1>10. Present(object)'
  BY <1>1, <1>6, <1>9 DEF Present
<1>11. \A q \in Refreshes : OfFile(run'[q].candidates)
  BY <1>3, <1>5, <1>t
<1>12. \A q \in Refreshes : run'[q].alone = FALSE
  BY <1>1, <1>3, <1>5, <1>t DEF AloneInv, ListTypeOK, RefreshStates
<1>16. dedupe'.at \in {"probe", "publish"} => Listing(dedupe'.list)
  BY <1>1 DEF ListInv
<1> QED
  BY <1>2, <1>8, <1>10, <1>11, <1>12, <1>16
  DEF ListInv, Listing, AloneInv, BaseBeyond

LEMMA DedupeStartList ==
  ASSUME ListInv, DedupeStart
  PROVE  ListInv'
<1>1. /\ dedupe.at = "start" /\ dedupe' = [at |-> "probe", list |-> slots]
      /\ UNCHANGED <<slots, object, file, world, run>>
  BY DEF DedupeStart
<1>2. dedupe'.at = "probe" /\ dedupe'.list = slots
  BY <1>1
<1>3. ListTypeOK' /\ Present(object)'
  BY <1>1, <1>2 DEF ListInv, ListTypeOK, Present
<1>4. \A r \in Refreshes : ~run[r].alone
  BY <1>1 DEF ListInv, AloneInv
<1>7. Listing(slots') /\ Listing(dedupe'.list)
  BY <1>1, <1>2 DEF ListInv
<1>8. \A r \in Refreshes : OfFile(run'[r].candidates) /\ ~run'[r].alone
  BY <1>1, <1>4 DEF ListInv
<1> QED
  BY <1>3, <1>7, <1>8 DEF ListInv, AloneInv, Listing, BaseBeyond

LEMMA DedupePublishList ==
  ASSUME ListInv, DedupePublish
  PROVE  ListInv'
<1>t. ListTypeOK /\ Present(object) /\ Listing(dedupe.list)
  BY DEF ListInv, DedupePublish
<1>1. /\ dedupe.at = "publish" /\ slots' = dedupe.list /\ dedupe' = [at |-> "done", list |-> <<>>]
      /\ UNCHANGED <<file, world, run>>
      /\ object' = Retain(object, slots', run, dedupe')
  BY DEF DedupePublish
<1>2. <<>> \in Seq(SlotIds) /\ ToSet(<<>>) = {}
  BY DEF ToSet
<1>3. /\ DOMAIN object' \subseteq DOMAIN object
      /\ \A s \in DOMAIN object' : object'[s] = object[s]
      /\ ToSet(slots') \subseteq DOMAIN object'
      /\ \A q \in Refreshes : ToSet(run[q].candidates) \subseteq DOMAIN object'
  BY <1>1, <1>t, Used DEF Present
<1>4. object' \in [DOMAIN object' -> SlotStates]
  <2>1. \A s \in DOMAIN object' : object'[s] \in SlotStates
    BY <1>3, <1>t DEF ListTypeOK
  <2>2. object' = [s \in DOMAIN object' |-> object'[s]]
    BY <1>1 DEF Retain
  <2> QED
    BY <2>1, <2>2
<1>5. ListTypeOK' /\ Present(object)'
  BY <1>1, <1>2, <1>3, <1>4, <1>t DEF ListTypeOK, Present, Listing
<1>6. \A r \in Refreshes : ~run'[r].alone /\ OfFile(run'[r].candidates)
  BY <1>1 DEF ListInv, AloneInv
<1>9. Listing(slots') /\ dedupe'.at = "done"
  BY <1>1, <1>t
<1> QED
  BY <1>5, <1>6, <1>9 DEF ListInv, AloneInv, Listing, BaseBeyond

LEMMA ChangeList ==
  ASSUME ListInv, Change
  PROVE  ListInv'
<1>1. /\ file' \in Files /\ world' \in Worlds
      /\ UNCHANGED <<slots, object, run, dedupe>>
  BY DEF Change, ListInv, ListTypeOK
<1> QED
  BY <1>1 DEF ListInv, ListTypeOK, Present, AloneInv, Listing, BaseBeyond

\* Of the places with one address one is kept, the first proxy if there is any.
LEMMA KeepsOne ==
  ASSUME NEW places, places \subseteq Nat, places # {}
  PROVE  /\ Keeps(places) \in places
         /\ \A k \in places : dedupe.list[k][1] # Direct
              => Keeps(places) <= k /\ dedupe.list[Keeps(places)][1] # Direct
<1> DEFINE proxies == {k \in places : dedupe.list[k][1] # Direct}
           S == IF proxies = {} THEN places ELSE proxies
<1>1. S \subseteq Nat /\ S # {} /\ S \subseteq places /\ (proxies # {} => S = proxies)
  OBVIOUS
<1>2. Keeps(places) = Min(S)
  BY DEF Keeps
<1>3. Min(S) \in S /\ \A k \in S : Min(S) <= k
  BY <1>1, MinOf
<1> QED
  BY <1>1, <1>2, <1>3

\* What the start-up probe works on, and where it leaves the objects.
LEMMA DedupeProbedList ==
  ASSUME ListInv, DedupeProbed
  PROVE  ListInv'
<1>t. /\ ListTypeOK /\ Present(object) /\ Listing(slots)
      /\ Listing(dedupe.list) /\ dedupe.at = "probe"
  BY DEF ListInv, DedupeProbed
<1>1. PICK list : list = dedupe.list
  OBVIOUS
<1>2. list \in Seq(SlotIds) /\ ToSet(list) \subseteq SlotIds
  BY <1>1, <1>t, ListingFacts DEF Listing
<1>3. PICK out :
        /\ object' = [s \in DOMAIN object |->
                        IF s \notin ToSet(list) THEN object[s]
                        ELSE [egress |-> IF Up(s) THEN world[s[1]] ELSE object[s].egress,
                              disabled |-> s \in out]]
        /\ dedupe' = [dedupe EXCEPT !.at = "publish"]
        /\ UNCHANGED <<slots, file, world, run>>
  BY <1>1 DEF DedupeProbed
<1>4. dedupe'.at = "publish" /\ dedupe'.list = list /\ list \in Seq(SlotIds)
      /\ dedupe' \in [at : {"start", "probe", "publish", "done"}, list : Seq(SlotIds)]
  BY <1>1, <1>2, <1>3, <1>t DEF ListTypeOK
<1>6. /\ DOMAIN object' = DOMAIN object
      /\ \A s \in ToSet(list) :
           object'[s] = [egress |-> IF Up(s) THEN world[s[1]] ELSE object[s].egress,
                         disabled |-> s \in out]
      /\ \A s \in DOMAIN object \ ToSet(list) : object'[s] = object[s]
      /\ ToSet(list) \subseteq DOMAIN object
  BY <1>1, <1>3, <1>t DEF Present
<1>7. object' \in [DOMAIN object' -> SlotStates]
  <2>1. \A s \in DOMAIN object : object[s] \in SlotStates
    BY <1>t DEF ListTypeOK
  <2>2. \A s \in DOMAIN object \ ToSet(list) : object'[s] \in SlotStates
    BY <1>6, <2>1
  <2>3. ASSUME NEW s \in ToSet(list) PROVE object'[s] \in SlotStates
    <3>1. world[s[1]] \in Addresses
      BY <1>2, <1>t DEF Addresses, ListTypeOK, SlotIds
    <3>2. object[s].egress \in Addresses
      BY <1>6, <2>1 DEF SlotStates
    <3> QED
      <4>1. PICK e : e = IF Up(s) THEN world[s[1]] ELSE object[s].egress
        OBVIOUS
      <4>2. PICK d \in BOOLEAN : d = (s \in out)
        <5>1. (s \in out) \in BOOLEAN
          OBVIOUS
        <5> QED
          BY <5>1
      <4>3. e \in Addresses
        BY <3>1, <3>2, <4>1
      <4>4. object'[s] = [egress |-> e, disabled |-> d]
        BY <1>6, <4>1, <4>2
      <4> QED
        BY <4>2, <4>3, <4>4 DEF SlotStates
  <2>4. \A s \in DOMAIN object' : object'[s] \in SlotStates
    BY <1>6, <2>2, <2>3
  <2> QED
    BY <1>3, <1>6, <2>4
<1>8. ListTypeOK' /\ Present(object)'
  BY <1>1, <1>3, <1>4, <1>6, <1>7, <1>t DEF ListTypeOK, Present
<1>9. \A r \in Refreshes : ~run'[r].alone /\ OfFile(run'[r].candidates)
  BY <1>3, <1>t DEF ListInv, AloneInv
<1>13. Listing(slots') /\ Listing(dedupe'.list)
  BY <1>1, <1>3, <1>4, <1>t
<1> QED
  BY <1>4, <1>8, <1>9, <1>13 DEF ListInv, AloneInv, Listing, BaseBeyond

LEMMA NextList == ListInv /\ [ListNext]_listVars => ListInv'
<1> SUFFICES ASSUME ListInv, [ListNext]_listVars PROVE ListInv'
  OBVIOUS
<1>1. ASSUME NEW r \in Refreshes, StartRefresh(r) PROVE ListInv'
  BY <1>1, StartList
<1>2. ASSUME NEW r \in Refreshes, Probed(r) PROVE ListInv'
  BY <1>2, ProbedList
<1>3. ASSUME NEW r \in Refreshes, Publish(r) PROVE ListInv'
  BY <1>3, PublishList
<1>4. CASE DedupeStart
  BY <1>4, DedupeStartList
<1>5. CASE DedupeProbed
  BY <1>5, DedupeProbedList
<1>6. CASE DedupePublish
  BY <1>6, DedupePublishList
<1>7. CASE Change
  BY <1>7, ChangeList
<1>8. CASE UNCHANGED listVars
  BY <1>8 DEF listVars, ListInv, ListTypeOK, Present, AloneInv, Listing, BaseBeyond
<1> QED
  BY <1>1, <1>2, <1>3, <1>4, <1>5, <1>6, <1>7, <1>8 DEF ListNext

\* Types, the form of every list, and what an undisturbed refresh has found, in
\* every reachable state (gateway.go:277-358, 517-620).
THEOREM ListInvariant == ListSpec => []ListInv
BY InitList, NextList, PTL DEF ListSpec

\* The base slots are always listed in their places, and no URL is listed twice
\* after them, whatever the file and the configuration have in common and in
\* whatever order the three activities replace the list (gateway.go:355, 614).
THEOREM BaseSlotsStay == ListSpec => []BaseStays
<1>1. ListInv => BaseStays
  <2> SUFFICES ASSUME ListInv PROVE BaseStays
    OBVIOUS
  <2>1. Listing(slots)
    BY DEF ListInv
  <2>2. DOMAIN Base = 1 .. Len(Base) /\ \A k \in 1 .. Len(Base) : BaseSlots[k] = <<Base[k], -k>>
    BY BaseTypes
  <2>3. \A k \in DOMAIN Base : slots[k] = BaseSlots[k]
    BY <2>1, <2>2 DEF Listing
  <2>4. IsInjective([k \in Len(Base) + 1 .. Len(slots) |-> slots[k][1]])
    BY <2>1 DEF Listing, IsInjective
  <2>5. \A s \in Listed(slots) : s[1] \in ToSet(Base) => s \in ToSet(BaseSlots)
    BY <2>1 DEF Listing, BaseBeyond, Listed
  <2> QED
    BY <2>1, <2>3, <2>4, <2>5 DEF BaseStays, Listing
<1> QED
  BY <1>1, ListInvariant, PTL

\* What OneInServicePerAddress says of the objects after the probe.
ServedOnce(obj) ==
    \A s \in ToSet(BaseSlots) : Up(s) =>
        LET same == {t \in ToSet(BaseSlots) : world[t[1]] = world[s[1]]}
            kept == {t \in same : ~obj[t].disabled}
        IN  \/ \E t \in kept : kept = {t} /\ (t[1] = Direct => same = kept)
            \/ /\ kept = {}
               /\ \E t \in Listed(dedupe.list) :
                    /\ world[t[1]] = world[s[1]]
                    /\ t \in same \/ \A d \in same : d[1] = Direct

LEMMA ProbeServesOnce ==
  ASSUME ListInv, DedupeProbed
  PROVE  ServedOnce(object')
<1>t. ListTypeOK /\ Present(object) /\ Listing(dedupe.list)
  BY DEF ListInv, DedupeProbed
<1>1. PICK list : list = dedupe.list
  OBVIOUS
<1>2. /\ Len(list) \in Nat /\ Len(Base) \in Nat /\ Len(Base) <= Len(list)
      /\ DOMAIN list = 1 .. Len(list) /\ ToSet(list) = {list[k] : k \in 1 .. Len(list)}
      /\ \A k \in 1 .. Len(Base) : list[k] = <<Base[k], -k>>
      /\ ToSet(BaseSlots) \subseteq ToSet(list) /\ ToSet(list) \subseteq DOMAIN object
  BY <1>1, <1>t, ListingFacts, BaseTypes DEF Listing, Present
<1>3. ToSet(BaseSlots) = {list[k] : k \in 1 .. Len(Base)}
  <2>1. ToSet(BaseSlots) = {<<Base[k], -k>> : k \in 1 .. Len(Base)}
    BY BaseTypes
  <2> QED
    BY <1>2, <2>1
<1>4. \A j, k \in 1 .. Len(Base) : list[j] = list[k] => j = k
  <2> SUFFICES ASSUME NEW j \in 1 .. Len(Base), NEW k \in 1 .. Len(Base), list[j] = list[k]
               PROVE  j = k
    OBVIOUS
  <2>1. <<Base[j], -j>> = <<Base[k], -k>>
    BY <1>2
  <2>2. -j = -k
    BY <2>1
  <2> QED
    BY <1>2, <2>2
<1> DEFINE SameAs(k) == {j \in DOMAIN list : world[list[j][1]] = world[list[k][1]]}
<1>5. PICK out :
        /\ out = {list[k] : k \in {k \in DOMAIN list : ~Up(list[k]) \/ k # Keeps(SameAs(k))}}
        /\ object' = [s \in DOMAIN object |->
                        IF s \notin ToSet(list) THEN object[s]
                        ELSE [egress |-> IF Up(s) THEN world[s[1]] ELSE object[s].egress,
                              disabled |-> s \in out]]
  BY <1>1 DEF DedupeProbed
<1>6. \A s \in ToSet(BaseSlots) : object'[s].disabled = (s \in out)
  <2> SUFFICES ASSUME NEW s \in ToSet(BaseSlots),
                      NEW e, e = IF Up(s) THEN world[s[1]] ELSE object[s].egress,
                      NEW d, d = (s \in out)
               PROVE  object'[s].disabled = d
    OBVIOUS
  <2>1. s \in ToSet(list) /\ s \in DOMAIN object
    BY <1>2
  <2>2. object'[s] = [egress |-> e, disabled |-> d]
    BY <1>5, <2>1
  <2> QED
    BY <2>2
<1> SUFFICES ASSUME NEW s \in ToSet(BaseSlots), Up(s)
             PROVE  LET same == {t \in ToSet(BaseSlots) : world[t[1]] = world[s[1]]}
                        kept == {t \in same : ~object'[t].disabled}
                    IN  \/ \E t \in kept : kept = {t} /\ (t[1] = Direct => same = kept)
                        \/ /\ kept = {}
                           /\ \E t \in Listed(dedupe.list) :
                                /\ world[t[1]] = world[s[1]]
                                /\ t \in same \/ \A d \in same : d[1] = Direct
  BY DEF ServedOnce
<1> DEFINE same == {t \in ToSet(BaseSlots) : world[t[1]] = world[s[1]]}
           kept == {t \in same : ~object'[t].disabled}
<1>s. PICK i \in 1 .. Len(Base) : s = list[i]
  BY <1>3
<1>7. PICK Q : Q = SameAs(i)
  OBVIOUS
<1>8. /\ Q \subseteq 1 .. Len(list) /\ Q \subseteq Nat /\ i \in Q
      /\ \A k \in Q : SameAs(k) = Q
      /\ \A k \in 1 .. Len(list) : k \in Q <=> world[list[k][1]] = world[s[1]]
  <2>1. i \in DOMAIN list
    BY <1>2
  <2>2. \A k \in 1 .. Len(list) : k \in Q <=> world[list[k][1]] = world[s[1]]
    BY <1>2, <1>7, <1>s
  <2>3. Q \subseteq 1 .. Len(list) /\ i \in Q /\ \A k \in Q : SameAs(k) = Q
    BY <1>2, <1>7, <2>1
  <2> QED
    BY <2>2, <2>3
<1>9. PICK w : w = Keeps(Q)
  OBVIOUS
<1>10. /\ w \in Q
       /\ \A k \in Q : list[k][1] # Direct => w <= k /\ list[w][1] # Direct
  BY <1>1, <1>8, <1>9, KeepsOne
<1>11. \A k \in Q : list[k] \in out <=> \E m \in Q : list[m] = list[k] /\ m # w
  <2> SUFFICES ASSUME NEW k \in Q
               PROVE  list[k] \in out <=> \E m \in Q : list[m] = list[k] /\ m # w
    OBVIOUS
  <2>1. world[list[k][1]] = world[s[1]] /\ Up(list[k])
    BY <1>8 DEF Up
  <2>2. \A m \in Q : SameAs(m) = Q /\ Up(list[m]) /\ m \in DOMAIN list
    BY <1>2, <1>8 DEF Up
  <2>3. \A m \in DOMAIN list : list[m] = list[k] => m \in Q
    BY <1>2, <1>8
  <2> HIDE DEF SameAs
  <2>4. ASSUME list[k] \in out PROVE \E m \in Q : list[m] = list[k] /\ m # w
    <3>1. PICK m \in DOMAIN list : /\ ~Up(list[m]) \/ m # Keeps(SameAs(m))
                                   /\ list[m] = list[k]
      BY <1>5, <2>4
    <3>2. m \in Q
      BY <2>3, <3>1
    <3> QED
      BY <1>9, <2>2, <3>1, <3>2
  <2>5. ASSUME NEW m \in Q, list[m] = list[k], m # w PROVE list[k] \in out
    <3>1. m \in DOMAIN list /\ m # Keeps(SameAs(m))
      BY <1>9, <2>2, <2>5
    <3> QED
      BY <1>5, <2>5, <3>1
  <2> QED
    BY <2>4, <2>5
<1> HIDE DEF SameAs
<1>k. \A t : t \in kept <=> t \in same /\ ~object'[t].disabled
  OBVIOUS
<1>b. same \subseteq ToSet(BaseSlots)
  OBVIOUS
<1>12. same = {list[k] : k \in {k \in 1 .. Len(Base) : k \in Q}}
  <2>1. \A k \in 1 .. Len(Base) : k \in 1 .. Len(list)
    BY <1>2
  <2> QED
    BY <1>3, <1>8, <2>1
<1> HIDE DEF same, kept
<1>13. ASSUME NEW t \in kept PROVE w \in 1 .. Len(Base) /\ t = list[w]
  <2>1. PICK k \in 1 .. Len(Base) : k \in Q /\ t = list[k]
    BY <1>12, <1>k
  <2>2. ~ (list[k] \in out)
    BY <1>6, <1>b, <1>k, <2>1
  <2> QED
    BY <1>11, <2>1, <2>2
<1>14. CASE kept # {}
  <2>1. kept = {list[w]} /\ w \in 1 .. Len(Base)
    BY <1>13, <1>14
  <2>a. kept \subseteq same /\ list[w] \in kept
    BY <1>k, <2>1
  <2>2. ASSUME list[w][1] = Direct PROVE same = {list[w]}
    <3>1. \A k \in Q : list[k][1] = Direct
      BY <1>10, <2>2
    <3>2. \A k \in 1 .. Len(Base) : k \in Q => k = 1
      <4> SUFFICES ASSUME NEW k \in 1 .. Len(Base), k \in Q PROVE k = 1
        OBVIOUS
      <4>1. list[k] = <<Base[k], -k>> /\ list[k][1] = Direct
        BY <1>2, <3>1
      <4>2. Base[k] = Direct
        BY <4>1
      <4> QED
        BY <4>2, BaseTypes
    <3> QED
      BY <1>10, <1>12, <2>1, <3>2
  <2>3. \E t \in kept : kept = {t} /\ (t[1] = Direct => same = kept)
    BY <2>1, <2>2, <2>a
  <2> QED
    BY <1>1, <2>3 DEF kept, same
<1>15. CASE kept = {}
  <2> DEFINE Doubled == \E t \in Listed(list) : /\ world[t[1]] = world[s[1]]
                                                /\ t \in same \/ \A d \in same : d[1] = Direct
  <2>1. ASSUME w \in 1 .. Len(Base) PROVE Doubled
    <3>1. list[w] \in same /\ list[w] \in ToSet(BaseSlots)
      BY <1>10, <1>12, <1>3, <2>1
    <3>2. list[w] \in out
      BY <1>6, <1>15, <1>k, <3>1
    <3>3. PICK m \in Q : list[m] = list[w] /\ m # w
      BY <1>10, <1>11, <3>2
    <3>4. m \in 1 .. Len(list) /\ m \notin 1 .. Len(Base)
      BY <1>4, <1>8, <2>1, <3>3
    <3>5. m \in Len(Base) + 1 .. Len(list)
      BY <1>2, <3>4
    <3>6. list[m] \in Listed(list) /\ world[list[m][1]] = world[s[1]] /\ list[m] \in same
      BY <1>8, <3>1, <3>3, <3>4, <3>5 DEF Listed
    <3> QED
      BY <3>6
  <2>2. ASSUME w \notin 1 .. Len(Base) PROVE Doubled
    <3>1. w \in 1 .. Len(list)
      BY <1>8, <1>10
    <3>2. w \in Len(Base) + 1 .. Len(list) /\ w > Len(Base)
      BY <1>2, <2>2, <3>1
    <3>3. list[w] \in Listed(list) /\ world[list[w][1]] = world[s[1]]
      BY <1>8, <1>10, <3>1, <3>2 DEF Listed
    <3>4. ASSUME NEW d \in same PROVE d[1] = Direct
      <4>1. PICK k \in 1 .. Len(Base) : k \in Q /\ d = list[k]
        BY <1>12
      <4>2. ~ (w <= k)
        BY <1>2, <3>2
      <4> QED
        BY <1>10, <4>1, <4>2
    <3> QED
      BY <3>3, <3>4
  <2>3. kept = {} /\ Doubled
    BY <1>15, <2>1, <2>2
  <2> QED
    BY <1>1, <2>3 DEF kept, same
<1> QED
  BY <1>14, <1>15

\* The start-up probe leaves one base slot per address in service, the direct
\* one only if there is no other, or none where a slot of the file has taken the
\* place or doubles it (gateway.go:319-353).
THEOREM OneServesPerAddress == ListSpec => OneInServicePerAddress
<1> DEFINE Serving ==
        dedupe.at = "probe" /\ dedupe'.at = "publish"
        => \A s \in ToSet(BaseSlots) : Up(s) =>
             LET same == {t \in ToSet(BaseSlots) : world[t[1]] = world[s[1]]}
                 kept == {t \in same : ~object'[t].disabled}
             IN  \/ \E t \in kept : kept = {t} /\ (t[1] = Direct => same = kept)
                 \/ /\ kept = {}
                    /\ \E t \in Listed(dedupe.list) :
                         /\ world[t[1]] = world[s[1]]
                         /\ t \in same \/ \A d \in same : d[1] = Direct
<1>1. ASSUME ListInv, [ListNext]_listVars PROVE [Serving]_listVars
  <2> SUFFICES ASSUME dedupe.at = "probe", dedupe'.at = "publish" PROVE ServedOnce(object')
    BY DEF ServedOnce
  <2>1. DedupeProbed
    <3>1. ~ UNCHANGED dedupe
      OBVIOUS
    <3> QED
      BY <1>1, <3>1 DEF ListNext, listVars, StartRefresh, Probed, Publish, DedupeStart, DedupePublish,
                        Change
  <2> QED
    BY <1>1, <2>1, ProbeServesOnce
<1> QED
  BY <1>1, ListInvariant, PTL DEF ListSpec, OneInServicePerAddress

\* A refresh that nothing overlaps publishes one slot per address and keeps the
\* objects of the list, cooldowns included (gateway.go:538-590).
THEOREM RefreshKeeps == ListSpec => RefreshKeepsSlots
<1> DEFINE Keeping == \A r \in Refreshes :
              /\ run[r].at = "publish" /\ run[r].alone /\ run'[r].at = "idle"
              /\ BaseSlots \o Dynamic(r) # <<>>
              => /\ \A s, t \in Listed(slots') : s # t => object[s].egress # object[t].egress
                 /\ \A s \in ToSet(slots), t \in Listed(slots') : s[1] = t[1] => t \in ToSet(slots)
<1>1. ASSUME ListInv, [ListNext]_listVars PROVE [Keeping]_listVars
  <2> SUFFICES ASSUME NEW r \in Refreshes, run[r].at = "publish", run[r].alone, run'[r].at = "idle",
                      BaseSlots \o Dynamic(r) # <<>>
               PROVE  /\ \A s, t \in Listed(slots') : s # t => object[s].egress # object[t].egress
                      /\ \A s \in ToSet(slots), t \in Listed(slots') : s[1] = t[1] => t \in ToSet(slots)
    OBVIOUS
  <2>1. Publish(r)
    <3>1. ASSUME NEW q \in Refreshes, StartRefresh(q) \/ Probed(q) PROVE run'[r].at # "idle"
      <4>1. run \in [Refreshes -> RefreshStates] /\ run[r] \in RefreshStates
        BY <1>1 DEF ListInv, ListTypeOK
      <4>2. CASE StartRefresh(q)
        <5>1. q # r
          BY <4>2 DEF StartRefresh, Busy
        <5>2. run'[r] = [run[r] EXCEPT !.alone = FALSE]
          BY <4>2, <5>1 DEF StartRefresh
        <5> QED
          BY <4>1, <5>2 DEF RefreshStates
      <4>3. CASE Probed(q)
        <5>1. q # r
          BY <4>3 DEF Probed
        <5>2. PICK c : run' = [run EXCEPT ![q].at = "publish", ![q].chosen = c]
          BY <4>3 DEF Probed
        <5> QED
          BY <4>1, <5>1, <5>2
      <4> QED
        BY <3>1, <4>2, <4>3
    <3>2. ASSUME NEW q \in Refreshes, Publish(q) PROVE q = r
      BY <1>1, <3>2 DEF Publish, ListInv, AloneInv
    <3> QED
      BY <1>1, <3>1, <3>2
      DEF ListNext, listVars, DedupeStart, DedupeProbed, DedupePublish, Change
  <2>2. /\ Listed(slots') = ToSet(Dynamic(r))
        /\ ToSet(Dynamic(r)) \subseteq ToSet(run[r].candidates) \cap run[r].chosen
    BY <1>1, <2>1, Published
  <2>3. Apart(object, run[r].chosen) /\ Reused(ToSet(slots), ToSet(run[r].candidates))
    BY <1>1 DEF ListInv, AloneInv
  <2>5. \A s \in ToSet(slots), t \in Listed(slots') : s[1] = t[1] => t \in ToSet(slots)
    BY <2>2, <2>3 DEF Reused
  <2>6. Listed(slots') \subseteq run[r].chosen
    BY <2>2
  <2> QED
    BY <2>3, <2>5, <2>6 DEF Apart
<1> QED
  BY <1>1, ListInvariant, PTL DEF ListSpec, RefreshKeepsSlots

-----------------------------------------------------------------------------
(* The audit records (module AuditLog) *)

\* What the variables are made of.
AuditRecords == [ request : Callers, attempt : Nat, status : {"ok", "failed"},
                  began : Nat, at : Nat ]

CallSteps == {"new", "sent", "stamped", "again", "done"}

AuditTypeOK ==
    /\ audits \in Seq(AuditRecords)
    /\ call \in [Callers -> [ at : CallSteps, attempt : Nat, began : Nat,
                              record : AuditRecords \cup {<<>>} ]]
    /\ clock \in Nat
    /\ told \in [Callers -> [ records : Seq(AuditRecords), answer : {"none", "ok", "failed"} ]]

\* The records a request has made, kept or not.
Own(r) == told[r].records

\* Record n of a request is the one of its n-th attempt; it began after those
\* before it, which have failed.
InOrder(r, own) ==
    \A n \in 1 .. Len(own) :
        /\ own[n].request = r /\ own[n].attempt = n
        /\ \A m \in 1 .. n - 1 : own[m].status = "failed" /\ own[m].began <= own[n].began

BeganBy(own, time) == \A n \in 1 .. Len(own) : own[n].began <= time

AllFailed(own) == \A n \in 1 .. Len(own) : own[n].status = "failed"

Latest(own) == own[Len(own)]

\* What the step of a request says of its records.
Following(c, own, answer) ==
    /\ c.at = "sent" => /\ Len(own) = c.attempt - 1 /\ BeganBy(own, c.began)
                        /\ c.began <= clock
    /\ c.at \in {"new", "stamped", "again"} => Len(own) = c.attempt
    /\ c.at \in {"new", "sent", "again"} => AllFailed(own)
    /\ c.at = "stamped" => Len(own) > 0 /\ c.record = Latest(own)
    /\ answer # "none" => c.at = "done" /\ Len(own) > 0 /\ answer = Latest(own).status

OfCaller(r) ==
    /\ InOrder(r, Own(r)) /\ BeganBy(Own(r), clock)
    /\ Following(call[r], Own(r), told[r].answer)

\* What the list has was made by a request.
Made == \A x \in ToSet(audits) : \E n \in 1 .. Len(Own(x.request)) : x = Own(x.request)[n]

AuditInv ==
    /\ AuditTypeOK
    /\ \A r \in Callers : OfCaller(r)
    /\ Made

LEMMA InitAudit == AuditInit => AuditInv
BY DEF AuditInit, AuditInv, AuditTypeOK, CallSteps, OfCaller, InOrder, BeganBy, AllFailed,
   Following, Made, Own, ToSet

\* Dropping the oldest records keeps the newest.
LEMMA NewestKept ==
  ASSUME NEW s \in Seq(AuditRecords), Len(s) > 0
  PROVE  /\ KeepNewest(s) \in Seq(AuditRecords)
         /\ ToSet(KeepNewest(s)) \subseteq ToSet(s)
         /\ s[Len(s)] \in ToSet(KeepNewest(s))
<1> DEFINE m == IF Len(s) > MaxRecords THEN Len(s) - MaxRecords + 1 ELSE 1
<1>1. m \in 1 .. Len(s) /\ Len(s) \in Nat
  BY AuditAssumption
<1>2. KeepNewest(s) = SubSeq(s, m, Len(s))
  BY DEF KeepNewest
<1> HIDE DEF m
<1>3. \A i \in m .. Len(s) : s[i] \in AuditRecords
  BY <1>1
<1>4. /\ KeepNewest(s) \in Seq(AuditRecords)
      /\ Len(KeepNewest(s)) = Len(s) - m + 1
      /\ \A i \in 1 .. Len(s) - m + 1 : KeepNewest(s)[i] = s[m + i - 1]
  BY <1>1, <1>2, <1>3, SubSeqProperties
<1>5. ASSUME NEW x \in ToSet(KeepNewest(s)) PROVE x \in ToSet(s)
  <2>1. PICK i \in 1 .. Len(s) - m + 1 : x = s[m + i - 1]
    BY <1>4 DEF ToSet
  <2>2. m + i - 1 \in 1 .. Len(s)
    BY <1>1, <2>1
  <2> QED
    BY <2>1, <2>2 DEF ToSet
<1>6. s[Len(s)] \in ToSet(KeepNewest(s))
  <2>1. Len(s) - m + 1 \in 1 .. Len(KeepNewest(s)) /\ m + (Len(s) - m + 1) - 1 = Len(s)
    BY <1>1, <1>4
  <2>2. KeepNewest(s)[Len(s) - m + 1] = s[Len(s)]
    BY <1>1, <1>4, <2>1
  <2> QED
    BY <1>4, <2>1, <2>2 DEF ToSet
<1> QED
  BY <1>4, <1>5, <1>6

LEMMA BeganLater ==
  ASSUME NEW own \in Seq(AuditRecords), NEW t \in Nat, NEW u \in Nat, t <= u, BeganBy(own, t)
  PROVE  BeganBy(own, u)
<1> SUFFICES ASSUME NEW n \in 1 .. Len(own) PROVE own[n].began <= u
  BY DEF BeganBy
<1>1. own[n] \in AuditRecords
  OBVIOUS
<1>2. own[n].began \in Nat
  BY <1>1 DEF AuditRecords
<1>3. own[n].began <= t
  BY DEF BeganBy
<1> QED
  BY <1>2, <1>3

\* One more record after failures only.
LEMMA RecordAppended ==
  ASSUME NEW own \in Seq(AuditRecords), NEW x \in AuditRecords, NEW r,
         InOrder(r, own), AllFailed(own), BeganBy(own, x.began),
         x.request = r, x.attempt = Len(own) + 1
  PROVE  /\ Append(own, x) \in Seq(AuditRecords) /\ InOrder(r, Append(own, x))
         /\ BeganBy(Append(own, x), x.began)
         /\ Len(Append(own, x)) = Len(own) + 1 /\ Latest(Append(own, x)) = x
<1> DEFINE s == Append(own, x)
<1>1. /\ s \in Seq(AuditRecords) /\ Len(s) = Len(own) + 1 /\ s[Len(own) + 1] = x
      /\ \A n \in 1 .. Len(own) : s[n] = own[n]
      /\ Len(own) \in Nat /\ x.began \in Nat
  BY DEF AuditRecords
<1> HIDE DEF s
<1>2. \A n \in 1 .. Len(s) : n \in 1 .. Len(own) \/ n = Len(own) + 1
  BY <1>1
<1>3. \A n \in 1 .. Len(own) + 1 : \A m \in 1 .. n - 1 : m \in 1 .. Len(own)
  BY <1>1
<1>4. InOrder(r, s)
  <2> SUFFICES ASSUME NEW n \in 1 .. Len(s)
               PROVE  /\ s[n].request = r /\ s[n].attempt = n
                      /\ \A m \in 1 .. n - 1 : s[m].status = "failed" /\ s[m].began <= s[n].began
    BY DEF InOrder
  <2>1. CASE n = Len(own) + 1
    BY <1>1, <1>3, <2>1 DEF AllFailed, BeganBy
  <2>2. CASE n \in 1 .. Len(own)
    <3>1. \A m \in 1 .. n - 1 : m \in 1 .. Len(own)
      BY <1>1, <2>2
    <3> QED
      BY <1>1, <2>2, <3>1 DEF InOrder
  <2> QED
    BY <1>2, <2>1, <2>2
<1>5. BeganBy(s, x.began)
  BY <1>1, <1>2 DEF BeganBy
<1>6. Latest(s) = x
  BY <1>1 DEF Latest
<1> QED
  BY <1>1, <1>4, <1>5, <1>6 DEF s

\* The other requests only see time pass.
LEMMA OthersKept ==
  ASSUME AuditTypeOK, NEW q \in Callers, OfCaller(q), clock' \in Nat, clock <= clock',
         call'[q] = call[q], told'[q] = told[q]
  PROVE  OfCaller(q)'
<1>1. clock \in Nat /\ Own(q)' = Own(q) /\ Own(q) \in Seq(AuditRecords)
      /\ call[q].began \in Nat
  BY DEF AuditTypeOK, Own
<1>2. BeganBy(Own(q), clock')
  BY <1>1, BeganLater DEF OfCaller
<1>3. call[q].at = "sent" => call[q].began <= clock'
  BY <1>1 DEF OfCaller, Following
<1> QED
  BY <1>1, <1>2, <1>3 DEF OfCaller, Following

\* Made, whatever has been recorded since.
LEMMA MadeKept ==
  ASSUME AuditTypeOK, Made, audits' = audits,
         \A q \in Callers : \/ Own(q)' = Own(q)
                            \/ \E x : Own(q)' = Append(Own(q), x)
  PROVE  Made'
<1> SUFFICES ASSUME NEW x \in ToSet(audits), NEW q, q = x.request
             PROVE  \E n \in 1 .. Len(Own(q)') : x = Own(q)'[n]
  BY DEF Made, Own
<1>1. q \in Callers
  <2>1. x \in AuditRecords
    BY DEF AuditTypeOK, ToSet
  <2> QED
    BY <2>1 DEF AuditRecords
<1>2. PICK n \in 1 .. Len(Own(q)) : x = Own(q)[n]
  BY DEF Made
<1>3. Own(q) \in Seq(AuditRecords)
  BY <1>1 DEF AuditTypeOK, Own
<1>4. n \in 1 .. Len(Own(q)') /\ Own(q)'[n] = Own(q)[n]
  BY <1>1, <1>3
<1> QED
  BY <1>2, <1>4

LEMMA AttemptAudit ==
  ASSUME AuditInv, NEW r \in Callers, Attempt(r)
  PROVE  AuditInv'
<1>t. AuditTypeOK /\ OfCaller(r) /\ Made
  BY DEF AuditInv
<1>1. /\ call[r].at \in {"new", "again"} /\ Later /\ UNCHANGED <<audits, told>>
      /\ call' = [call EXCEPT ![r] = [call[r] EXCEPT !.at = "sent", !.attempt = call[r].attempt + 1,
                                                     !.began = clock']]
  BY DEF Attempt
<1>2. AuditTypeOK'
  <2>1. call[r] \in [at : CallSteps, attempt : Nat, began : Nat, record : AuditRecords \cup {<<>>}]
    BY <1>t DEF AuditTypeOK
  <2>2. clock \in Nat /\ clock' \in Nat /\ "sent" \in CallSteps
    BY <1>1, <1>t DEF AuditTypeOK, CallSteps, Later
  <2>a. call[r].attempt + 1 \in Nat
    BY <2>1
  <2>3. [call[r] EXCEPT !.at = "sent", !.attempt = call[r].attempt + 1, !.began = clock']
          \in [at : CallSteps, attempt : Nat, began : Nat, record : AuditRecords \cup {<<>>}]
    BY <2>1, <2>2, <2>a
  <2>4. call' \in [Callers -> [ at : CallSteps, attempt : Nat, began : Nat,
                               record : AuditRecords \cup {<<>>} ]]
    BY <1>1, <1>t, <2>3 DEF AuditTypeOK
  <2> QED
    BY <1>1, <1>t, <2>2, <2>4 DEF AuditTypeOK
<1>3. PICK c : c = call'[r]
  OBVIOUS
<1>4. /\ c.at = "sent" /\ c.attempt = call[r].attempt + 1 /\ c.began = clock'
      /\ \A q \in Callers \ {r} : call'[q] = call[q]
      /\ clock <= clock' /\ clock' \in Nat /\ clock \in Nat /\ call[r].attempt \in Nat
  BY <1>1, <1>3, <1>t DEF AuditTypeOK, Later
<1>5. PICK own \in Seq(AuditRecords) : own = Own(r) /\ own = Own(r)'
  BY <1>1, <1>t DEF Own, AuditTypeOK
<1>6. /\ InOrder(r, own) /\ BeganBy(own, clock) /\ AllFailed(own) /\ Len(own) = call[r].attempt
      /\ told'[r].answer = "none"
  BY <1>1, <1>5, <1>t DEF OfCaller, Following
<1>7. BeganBy(own, clock') /\ c.began <= clock' /\ Len(own) = c.attempt - 1
  BY <1>4, <1>6, BeganLater
<1>8. OfCaller(r)'
  BY <1>3, <1>4, <1>5, <1>6, <1>7 DEF OfCaller, Following
<1>9. \A q \in Callers \ {r} : OfCaller(q)'
  BY <1>1, <1>4, <1>t, OthersKept DEF AuditInv
<1>10. Made'
  BY <1>1, <1>t DEF Made, Own
<1> QED
  BY <1>2, <1>8, <1>9, <1>10 DEF AuditInv

\* The record x is stamped.
Stamped(r, x) ==
    /\ x.request = r /\ x.attempt = call[r].attempt /\ x.began = call[r].began
    /\ call' = [call EXCEPT ![r] = [call[r] EXCEPT !.at = "stamped", !.record = x]]
    /\ told' = [told EXCEPT ![r] = [told[r] EXCEPT !.records = Append(Own(r), x)]]

LEMMA StampAudit ==
  ASSUME AuditInv, NEW r \in Callers, Stamp(r)
  PROVE  AuditInv'
<1>t. AuditTypeOK /\ OfCaller(r) /\ Made
  BY DEF AuditInv
<1>0. PICK x \in AuditRecords : Stamped(r, x)
  <2>1. PICK status \in {"ok", "failed"} :
          LET x == [request |-> r, attempt |-> call[r].attempt, status |-> status,
                    began |-> call[r].began, at |-> clock']
          IN
        /\ call' = [call EXCEPT ![r].at = "stamped", ![r].record = x]
        /\ told' = [told EXCEPT ![r].records = Append(@, x)]
    BY DEF Stamp
  <2>2. PICK x : x = [request |-> r, attempt |-> call[r].attempt, status |-> status,
                began |-> call[r].began, at |-> clock']
    OBVIOUS
  <2>3. call' = [call EXCEPT ![r].at = "stamped", ![r].record = x]
    BY <2>1, <2>2
  <2>4. told' = [told EXCEPT ![r].records = Append(told[r].records, x)]
    BY <2>1, <2>2
  <2>5. call' = [call EXCEPT ![r] = [call[r] EXCEPT !.at = "stamped", !.record = x]]
    BY <2>3, <1>t DEF AuditTypeOK
  <2>6. told' = [told EXCEPT ![r] = [told[r] EXCEPT !.records = Append(Own(r), x)]]
    BY <2>4, <1>t DEF AuditTypeOK, Own
  <2>7. x \in AuditRecords
    <3>1. /\ call[r].attempt \in Nat /\ call[r].began \in Nat /\ clock' \in Nat
          /\ status \in {"ok", "failed"}
      BY <1>t, <2>1 DEF AuditTypeOK, Stamp, Later
    <3> QED
      BY <2>2, <3>1 DEF AuditRecords
  <2>8. x.request = r /\ x.attempt = call[r].attempt /\ x.began = call[r].began
    BY <2>2
  <2>9. Stamped(r, x)
    BY <2>5, <2>6, <2>8 DEF Stamped
  <2> QED
    BY <2>7, <2>9
<1>1. /\ x.request = r /\ x.attempt = call[r].attempt /\ x.began = call[r].began
      /\ call' = [call EXCEPT ![r] = [call[r] EXCEPT !.at = "stamped", !.record = x]]
      /\ told' = [told EXCEPT ![r] = [told[r] EXCEPT !.records = Append(Own(r), x)]]
  BY <1>0 DEF Stamped
<1>2. call[r].at = "sent" /\ Later /\ audits' = audits
  BY DEF Stamp
<1>3. PICK own \in Seq(AuditRecords) : own = Own(r)
  BY <1>t DEF Own, AuditTypeOK
<1>4. /\ clock <= clock' /\ clock' \in Nat /\ clock \in Nat /\ call[r].attempt \in Nat /\ call[r].began \in Nat
  BY <1>2, <1>t DEF AuditTypeOK, Later
<1>5. x.request = r /\ x.attempt = call[r].attempt /\ x.began = call[r].began
  BY <1>1
<1>6. /\ InOrder(r, own) /\ AllFailed(own) /\ Len(own) = call[r].attempt - 1
      /\ BeganBy(own, x.began) /\ x.began <= clock /\ told[r].answer = "none"
  BY <1>2, <1>3, <1>5, <1>t DEF OfCaller, Following
<1>7. PICK s : s = Append(own, x)
  OBVIOUS
<1>8. /\ s \in Seq(AuditRecords) /\ InOrder(r, s) /\ BeganBy(s, x.began)
      /\ Len(s) = Len(own) + 1 /\ Latest(s) = x
  BY <1>4, <1>5, <1>6, <1>7, RecordAppended
<1>9. AuditTypeOK'
  <2>1. /\ call[r] \in [at : CallSteps, attempt : Nat, began : Nat, record : AuditRecords \cup {<<>>}]
        /\ told[r] \in [records : Seq(AuditRecords), answer : {"none", "ok", "failed"}]
        /\ "stamped" \in CallSteps
    BY <1>t DEF AuditTypeOK, CallSteps
  <2>2. [call[r] EXCEPT !.at = "stamped", !.record = x]
          \in [at : CallSteps, attempt : Nat, began : Nat, record : AuditRecords \cup {<<>>}]
    BY <1>5, <2>1
  <2>3. [told[r] EXCEPT !.records = s]
          \in [records : Seq(AuditRecords), answer : {"none", "ok", "failed"}]
    BY <1>8, <2>1
  <2>4. call' \in [Callers -> [ at : CallSteps, attempt : Nat, began : Nat,
                               record : AuditRecords \cup {<<>>} ]]
    BY <1>1, <1>t, <2>2 DEF AuditTypeOK
  <2>5. told' \in [Callers -> [ records : Seq(AuditRecords), answer : {"none", "ok", "failed"} ]]
    BY <1>1, <1>3, <1>7, <1>t, <2>3 DEF AuditTypeOK
  <2> QED
    BY <1>2, <1>4, <1>t, <2>4, <2>5 DEF AuditTypeOK
<1>10. PICK c : c = call'[r]
  OBVIOUS
<1>11. /\ Own(r)' = s /\ told'[r].answer = "none"
       /\ c.at = "stamped" /\ c.record = x /\ c.attempt = call[r].attempt
       /\ \A q \in Callers \ {r} : call'[q] = call[q] /\ told'[q] = told[q]
  BY <1>1, <1>3, <1>6, <1>7, <1>10, <1>t DEF AuditTypeOK, Own
<1>12. BeganBy(s, clock') /\ Len(s) = c.attempt /\ Len(s) > 0
  <2>1. x.began \in Nat /\ clock' \in Nat /\ x.began <= clock'
    BY <1>4, <1>5, <1>6
  <2>2. BeganBy(s, clock')
    BY <1>8, <2>1, BeganLater
  <2>3. Len(s) = c.attempt /\ Len(s) > 0
    BY <1>4, <1>6, <1>8, <1>11
  <2> QED
    BY <2>2, <2>3
<1>13. OfCaller(r)'
  BY <1>8, <1>10, <1>11, <1>12 DEF OfCaller, Following
<1>14. \A q \in Callers \ {r} : OfCaller(q)'
  BY <1>2, <1>4, <1>11, <1>t, OthersKept DEF AuditInv
<1>15. Made'
  BY <1>2, <1>3, <1>7, <1>11, <1>t, MadeKept DEF Own
<1> QED
  BY <1>9, <1>13, <1>14, <1>15 DEF AuditInv

LEMMA AppendAudit ==
  ASSUME AuditInv, NEW r \in Callers, AppendRecord(r)
  PROVE  AuditInv'
<1>t. AuditTypeOK /\ OfCaller(r) /\ Made
  BY DEF AuditInv
<1>1. PICK own \in Seq(AuditRecords) : own = Own(r)
  BY <1>t DEF Own, AuditTypeOK
<1>2. PICK x : x = call[r].record
  OBVIOUS
<1>3. /\ InOrder(r, own) /\ BeganBy(own, clock) /\ Len(own) = call[r].attempt /\ Len(own) > 0
      /\ x = own[Len(own)] /\ clock' = clock /\ told[r].answer = "none"
  BY <1>1, <1>2, <1>t DEF OfCaller, Following, AppendRecord, Latest
<1>4. x \in AuditRecords /\ Len(own) \in 1 .. Len(own) /\ x.status \in {"ok", "failed"}
  <2>1. Len(own) \in 1 .. Len(own)
    BY <1>3
  <2>2. x \in AuditRecords
    BY <1>3, <2>1
  <2> QED
    BY <2>1, <2>2 DEF AuditRecords
<1>5. PICK s : s = Append(audits, x)
  OBVIOUS
<1>6. /\ s \in Seq(AuditRecords) /\ Len(s) > 0 /\ s[Len(s)] = x
      /\ \A y \in ToSet(s) : y \in ToSet(audits) \/ y = x
  <2>1. audits \in Seq(AuditRecords)
    BY <1>t DEF AuditTypeOK
  <2>2. /\ s \in Seq(AuditRecords) /\ Len(s) = Len(audits) + 1 /\ s[Len(audits) + 1] = x
        /\ \A n \in 1 .. Len(audits) : s[n] = audits[n]
        /\ Len(audits) \in Nat
    BY <1>4, <1>5, <2>1
  <2>3. \A n \in 1 .. Len(s) : n \in 1 .. Len(audits) \/ n = Len(audits) + 1
    BY <2>2
  <2> QED
    BY <2>1, <2>2, <2>3 DEF ToSet
<1>7. /\ audits' = KeepNewest(s) /\ audits' \in Seq(AuditRecords)
      /\ x \in ToSet(audits') /\ \A y \in ToSet(audits') : y \in ToSet(audits) \/ y = x
  <2>1. audits' = KeepNewest(s)
    BY <1>2, <1>5 DEF AppendRecord
  <2> QED
    BY <1>6, <2>1, NewestKept
<1>8. PICK at \in {"again", "done"}, answer \in {"none", "ok", "failed"} :
        /\ call' = [call EXCEPT ![r] = [call[r] EXCEPT !.at = at, !.record = <<>>]]
        /\ told' = [told EXCEPT ![r] = [told[r] EXCEPT !.answer = answer]]
        /\ at = "again" => answer = "none" /\ x.status = "failed"
        /\ at = "done" => answer = x.status
  <2>1. told = [told EXCEPT ![r] = [told[r] EXCEPT !.answer = told[r].answer]]
    <3>1. told[r] \in [records : Seq(AuditRecords), answer : {"none", "ok", "failed"}]
      BY <1>t DEF AuditTypeOK
    <3>2. told[r] = [told[r] EXCEPT !.answer = told[r].answer]
      BY <3>1
    <3> QED
      BY <1>t, <3>2 DEF AuditTypeOK
  <2>2. CASE /\ x.status = "failed"
             /\ call' = [call EXCEPT ![r].at = "again", ![r].record = <<>>]
             /\ UNCHANGED told
    BY <1>3, <1>t, <2>1, <2>2 DEF AuditTypeOK
  <2>3. CASE /\ call' = [call EXCEPT ![r].at = "done", ![r].record = <<>>]
             /\ told' = [told EXCEPT ![r].answer = x.status]
    BY <1>4, <1>t, <2>3 DEF AuditTypeOK
  <2> QED
    BY <1>2, <2>2, <2>3 DEF AppendRecord
<1>9. AuditTypeOK'
  <2>1. /\ call[r] \in [at : CallSteps, attempt : Nat, began : Nat, record : AuditRecords \cup {<<>>}]
        /\ told[r] \in [records : Seq(AuditRecords), answer : {"none", "ok", "failed"}]
        /\ at \in CallSteps /\ clock' \in Nat
    BY <1>3, <1>t DEF AuditTypeOK, CallSteps
  <2>2. [call[r] EXCEPT !.at = at, !.record = <<>>]
          \in [at : CallSteps, attempt : Nat, began : Nat, record : AuditRecords \cup {<<>>}]
    BY <2>1
  <2>3. [told[r] EXCEPT !.answer = answer]
          \in [records : Seq(AuditRecords), answer : {"none", "ok", "failed"}]
    BY <2>1
  <2>4. call' \in [Callers -> [ at : CallSteps, attempt : Nat, began : Nat,
                               record : AuditRecords \cup {<<>>} ]]
    BY <1>8, <1>t, <2>2 DEF AuditTypeOK
  <2>5. told' \in [Callers -> [ records : Seq(AuditRecords), answer : {"none", "ok", "failed"} ]]
    BY <1>8, <1>t, <2>3 DEF AuditTypeOK
  <2> QED
    BY <1>7, <2>1, <2>4, <2>5 DEF AuditTypeOK
<1>10. PICK c : c = call'[r]
  OBVIOUS
<1>11. /\ c.at = at /\ c.attempt = call[r].attempt
       /\ Own(r)' = own /\ told'[r].records = own /\ told'[r].answer = answer
       /\ \A q \in Callers \ {r} : call'[q] = call[q] /\ told'[q] = told[q]
       /\ \A q \in Callers : Own(q)' = Own(q)
  BY <1>1, <1>8, <1>10, <1>t DEF AuditTypeOK, Own
<1>12. BeganBy(own, clock')
  BY <1>3
<1>13. at = "again" => AllFailed(own)
  <2>1. \A n \in 1 .. Len(own) : n \in 1 .. Len(own) - 1 \/ n = Len(own)
    BY <1>4
  <2> QED
    BY <1>3, <1>4, <1>8, <2>1 DEF AllFailed, InOrder
<1>14. OfCaller(r)'
  <2>1. Following(c, own, answer)'
    BY <1>3, <1>8, <1>11, <1>13 DEF Following, Latest
  <2> QED
    BY <1>3, <1>10, <1>11, <1>12, <2>1 DEF OfCaller
<1>15. \A q \in Callers \ {r} : OfCaller(q)'
  BY <1>3, <1>11, <1>t, OthersKept DEF AuditInv, AuditTypeOK
<1>16. Made'
  <2> SUFFICES ASSUME NEW y \in ToSet(audits')
               PROVE  \E n \in 1 .. Len(told'[y.request].records) :
                         y = told'[y.request].records[n]
    BY DEF Made, Own
  <2>1. CASE y = x
    <3>1. x.request = r
      BY <1>3, <1>4 DEF InOrder
    <3> QED
      BY <1>3, <1>4, <1>11, <2>1, <3>1
  <2>2. CASE y \in ToSet(audits)
    <3>1. y.request \in Callers
      <4>1. y \in AuditRecords
        BY <1>t, <2>2 DEF AuditTypeOK, ToSet
      <4> QED
        BY <4>1 DEF AuditRecords
    <3>2. \E n \in 1 .. Len(Own(y.request)) : y = Own(y.request)[n]
      BY <1>t, <2>2 DEF Made
    <3>3. told'[y.request].records = Own(y.request)
      BY <1>11, <3>1 DEF Own
    <3> QED
      BY <3>2, <3>3
  <2> QED
    BY <1>7, <2>1, <2>2
<1> QED
  BY <1>9, <1>14, <1>15, <1>16 DEF AuditInv

LEMMA UnrecordedAudit ==
  ASSUME AuditInv, NEW r \in Callers, Unrecorded(r)
  PROVE  AuditInv'
<1>t. AuditTypeOK /\ OfCaller(r) /\ Made
  BY DEF AuditInv
<1>1. /\ call[r].at \in {"sent", "again"} /\ UNCHANGED <<audits, clock, told>>
      /\ call' = [call EXCEPT ![r] = [call[r] EXCEPT !.at = "done", !.record = <<>>]]
  BY DEF Unrecorded
<1>2. AuditTypeOK'
  <2>1. /\ call[r] \in [at : CallSteps, attempt : Nat, began : Nat, record : AuditRecords \cup {<<>>}]
        /\ "done" \in CallSteps /\ clock' \in Nat
    BY <1>1, <1>t DEF AuditTypeOK, CallSteps
  <2>2. [call[r] EXCEPT !.at = "done", !.record = <<>>]
          \in [at : CallSteps, attempt : Nat, began : Nat, record : AuditRecords \cup {<<>>}]
    BY <2>1
  <2>3. call' \in [Callers -> [ at : CallSteps, attempt : Nat, began : Nat,
                               record : AuditRecords \cup {<<>>} ]]
    BY <1>1, <1>t, <2>2 DEF AuditTypeOK
  <2> QED
    BY <1>1, <1>t, <2>1, <2>3 DEF AuditTypeOK
<1>3. PICK own \in Seq(AuditRecords) : own = Own(r) /\ own = Own(r)'
  BY <1>1, <1>t DEF Own, AuditTypeOK
<1>4. /\ InOrder(r, own) /\ BeganBy(own, clock) /\ told'[r].answer = "none"
  BY <1>1, <1>3, <1>t DEF OfCaller, Following
<1>5. PICK c : c = call'[r]
  OBVIOUS
<1>6. c.at = "done" /\ \A q \in Callers \ {r} : call'[q] = call[q]
  BY <1>1, <1>5, <1>t DEF AuditTypeOK
<1>7. BeganBy(own, clock')
  BY <1>1, <1>4
<1>8. OfCaller(r)'
  BY <1>3, <1>4, <1>5, <1>6, <1>7 DEF OfCaller, Following
<1>9. \A q \in Callers \ {r} : OfCaller(q)'
  BY <1>1, <1>6, <1>t, OthersKept DEF AuditInv, AuditTypeOK
<1>10. Made'
  BY <1>1, <1>t DEF Made, Own
<1> QED
  BY <1>2, <1>8, <1>9, <1>10 DEF AuditInv

LEMMA NextAudit == AuditInv /\ [AuditNext]_auditVars => AuditInv'
<1> SUFFICES ASSUME AuditInv, [AuditNext]_auditVars PROVE AuditInv'
  OBVIOUS
<1>1. ASSUME NEW r \in Callers, Attempt(r) PROVE AuditInv'
  BY <1>1, AttemptAudit
<1>2. ASSUME NEW r \in Callers, Stamp(r) PROVE AuditInv'
  BY <1>2, StampAudit
<1>3. ASSUME NEW r \in Callers, AppendRecord(r) PROVE AuditInv'
  BY <1>3, AppendAudit
<1>4. ASSUME NEW r \in Callers, Unrecorded(r) PROVE AuditInv'
  BY <1>4, UnrecordedAudit
<1>5. CASE UNCHANGED auditVars
  BY <1>5 DEF AuditInv, AuditTypeOK, OfCaller, Following, Made, Own, auditVars
<1> QED
  BY <1>1, <1>2, <1>3, <1>4, <1>5 DEF AuditNext

\* Types and the records of every request, in every reachable state
\* (gateway.go, recordAuditWithUsage).
THEOREM AuditInvariant == AuditSpec => []AuditInv
BY InitAudit, NextAudit, PTL DEF AuditSpec

\* The attempt a row shows as the last: the newest of those kept.
LEMMA FinalIsNewest ==
  ASSUME NEW r, NEW own \in Seq(AuditRecords), InOrder(r, own), NEW kept, kept # {},
         \A x \in kept : \E n \in 1 .. Len(own) : x = own[n]
  PROVE  \E n \in 1 .. Len(own) : /\ own[n] \in kept /\ Final(kept) = own[n]
                                 /\ \A m \in 1 .. Len(own) : own[m] \in kept => m <= n
<1> DEFINE S == {n \in 1 .. Len(own) : own[n] \in kept}
<1>1. S # {} /\ S \subseteq Nat /\ Len(own) \in Nat /\ \A n \in S : n <= Len(own)
  OBVIOUS
<1>2. PICK n \in S : \A m \in S : m <= n
  BY <1>1, GreatestNatural
<1>3. \A m \in 1 .. Len(own) : own[m].attempt = m
  BY DEF InOrder
<1>4. \A y \in kept \ {own[n]} : Precedes(y, own[n])
  <2> SUFFICES ASSUME NEW y \in kept, y # own[n] PROVE y.attempt < own[n].attempt
    BY DEF Precedes
  <2>1. PICK m \in 1 .. Len(own) : y = own[m]
    OBVIOUS
  <2>2. m <= n /\ m # n
    BY <1>2, <2>1
  <2> QED
    BY <1>1, <1>3, <2>1, <2>2
<1>5. ASSUME NEW x \in kept, \A y \in kept \ {x} : Precedes(y, x) PROVE x = own[n]
  <2>1. PICK m \in 1 .. Len(own) : x = own[m]
    OBVIOUS
  <2>2. m <= n
    BY <1>2, <2>1
  <2> SUFFICES ASSUME m # n PROVE FALSE
    BY <2>1
  <2>3. own[n] # x /\ own[n] \in kept
    BY <1>2, <1>3, <2>1
  <2>4. Precedes(own[n], x)
    BY <1>5, <2>3
  <2>5. n < m \/ n = m
    BY <1>2, <1>3, <2>1, <2>4 DEF Precedes
  <2> QED
    BY <1>1, <2>2, <2>5
<1>6. Final(kept) = own[n]
  BY <1>2, <1>4, <1>5 DEF Final
<1> QED
  BY <1>2, <1>6

\* The row of a request tells its answer if its last record was kept, and its whole
\* course if all were (server.go, collapseAuditRecords).
THEOREM RowsTellAnswer == AuditSpec => []RowTellsAnswer
<1>1. ASSUME AuditInv PROVE RowTellsAnswer
  <2> SUFFICES ASSUME NEW row \in RowsOf(audits), NEW r, r = row.request,
                      NEW own, own = told[r].records,
                      NEW answer, answer = told[r].answer
               PROVE  /\ row.recovered => \E n \in DOMAIN own : own[n].status = "failed"
                      /\ answer # "none" /\ Last(own) \in ToSet(audits) => row.status = answer
                      /\ answer # "none" /\ ToSet(own) \subseteq ToSet(audits)
                         => /\ row.began = own[1].began /\ row.at = Last(own).at
                            /\ row.attempts = Len(own)
                            /\ row.recovered <=> row.status = "ok" /\ Len(own) > 1
    BY DEF RowTellsAnswer
  <2>1. PICK z \in ToSet(audits) : row = Row(z.request, {x \in ToSet(audits) : x.request = z.request})
    BY DEF RowsOf
  <2>2. PICK kept : kept = {x \in ToSet(audits) : x.request = r}
    OBVIOUS
  <2>3. row = Row(r, kept) /\ z.request = r /\ z \in kept
    BY <2>1, <2>2 DEF Row
  <2>4. r \in Callers
    <3>1. z \in AuditRecords
      BY <1>1 DEF AuditInv, AuditTypeOK, ToSet
    <3> QED
      BY <2>3, <3>1 DEF AuditRecords
  <2>5. /\ own \in Seq(AuditRecords) /\ InOrder(r, own) /\ Len(own) \in Nat
        /\ answer # "none" => Len(own) > 0 /\ answer = Latest(own).status
    BY <1>1, <2>4 DEF AuditInv, AuditTypeOK, OfCaller, Following, Own
  <2>6. \A x \in kept : \E n \in 1 .. Len(own) : x = own[n]
    BY <1>1, <2>2 DEF AuditInv, Made, Own
  <2>7. PICK n \in 1 .. Len(own) : /\ own[n] \in kept /\ Final(kept) = own[n]
                                   /\ \A m \in 1 .. Len(own) : own[m] \in kept => m <= n
    BY SMTT(30), <2>3, <2>5, <2>6, FinalIsNewest
  <2>8. /\ row.at = own[n].at /\ row.status = own[n].status /\ row.began = Began(kept)
        /\ row.attempts = Max({x.attempt : x \in kept})
        /\ row.recovered <=> own[n].status = "ok" /\ \E x \in kept : x.status = "failed"
    <3>1. PICK h : row = [ request |-> r, at |-> own[n].at, status |-> own[n].status,
                           began |-> Began(kept),
                           attempts |-> Max({x.attempt : x \in kept}),
                           recovered |-> own[n].status = "ok"
                                         /\ \E x \in kept : x.status = "failed",
                           history |-> h ]
      BY <2>3, <2>7 DEF Row
    <3>2. /\ row.at = own[n].at /\ row.status = own[n].status /\ row.began = Began(kept)
          /\ row.attempts = Max({x.attempt : x \in kept})
      BY <3>1
    <3>3. row.recovered = (own[n].status = "ok" /\ \E x \in kept : x.status = "failed")
      BY <3>1
    <3> QED
      BY <3>2, <3>3
  <2>9. row.recovered => \E m \in DOMAIN own : own[m].status = "failed"
    BY <2>5, <2>6, <2>8
  <2>10. \A m \in 1 .. Len(own) : /\ own[m].request = r /\ own[m].attempt = m
                                  /\ own[m].began \in Nat /\ own[m].status \in {"ok", "failed"}
    <3>1. \A m \in 1 .. Len(own) : own[m] \in AuditRecords
      BY <2>5
    <3> QED
      BY <2>5, <3>1 DEF InOrder, AuditRecords
  <2>11. ASSUME answer # "none", Last(own) \in ToSet(audits)
         PROVE  n = Len(own) /\ row.status = answer
    <3>1. Len(own) \in 1 .. Len(own) /\ Last(own) = own[Len(own)]
      BY <2>5, <2>11 DEF Last
    <3>2. own[Len(own)] \in kept
      BY <2>2, <2>10, <2>11, <3>1
    <3>3. Len(own) <= n /\ n <= Len(own)
      BY <2>7, <3>1, <3>2
    <3>4. n = Len(own)
      BY <2>5, <3>3
    <3> QED
      BY <2>5, <2>8, <2>11, <3>4 DEF Latest
  <2>12. ASSUME answer # "none", ToSet(own) \subseteq ToSet(audits)
         PROVE  /\ row.began = own[1].began /\ row.at = Last(own).at
                /\ row.attempts = Len(own)
                /\ row.recovered <=> row.status = "ok" /\ Len(own) > 1
    <3>1. 1 \in 1 .. Len(own) /\ Len(own) \in 1 .. Len(own) /\ Last(own) = own[Len(own)]
      BY <2>5, <2>12 DEF Last
    <3>2. \A m \in 1 .. Len(own) : own[m] \in kept
      <4> SUFFICES ASSUME NEW m \in 1 .. Len(own) PROVE own[m] \in kept
        OBVIOUS
      <4>1. own[m] \in ToSet(own)
        BY <2>5 DEF ToSet
      <4> QED
        BY <2>2, <2>10, <2>12, <4>1
    <3>3. n = Len(own)
      BY <2>5, <2>7, <3>1, <3>2
    <3>4. row.at = Last(own).at
      BY <2>8, <3>1, <3>3
    <3>5. row.began = own[1].began
      <4> DEFINE B == {x.began : x \in kept}
      <4>1. own[1].began \in B
        BY <3>1, <3>2
      <4>2. \A b \in B : own[1].began <= b
        <5> SUFFICES ASSUME NEW m \in 1 .. Len(own) PROVE own[1].began <= own[m].began
          BY <2>6
        <5>1. CASE m = 1
          BY <2>10, <5>1
        <5>2. CASE m # 1
          <6>1. 1 \in 1 .. m - 1
            BY <5>2
          <6> QED
            BY <2>5, <6>1 DEF InOrder
        <5> QED
          BY <5>1, <5>2
      <4>3. \A b \in B : (\A c \in B : b <= c) => b = own[1].began
        <5>1. B \subseteq Nat
          BY <2>6, <2>10
        <5> HIDE DEF B
        <5> SUFFICES ASSUME NEW b \in B, \A c \in B : b <= c PROVE b = own[1].began
          OBVIOUS
        <5>2. b <= own[1].began /\ own[1].began <= b /\ b \in Nat /\ own[1].began \in Nat
          BY <4>1, <4>2, <5>1
        <5> QED
          BY ONLY <5>2
      <4> HIDE DEF B
      <4>4. Min(B) = own[1].began
        BY <4>1, <4>2, <4>3 DEF Min
      <4> QED
        BY <2>8, <4>4 DEF Began, B
    <3>6. row.attempts = Len(own)
      <4> DEFINE T == {x.attempt : x \in kept}
      <4>1. Len(own) \in T
        BY <2>10, <3>1, <3>2
      <4>2. \A t \in T : t \in 1 .. Len(own)
        BY <2>6, <2>10
      <4> HIDE DEF T
      <4>3. \A t \in T : t <= Len(own) /\ ((\A u \in T : t >= u) => t = Len(own))
        BY <2>5, <4>1, <4>2
      <4>4. \A t \in T : Len(own) >= t
        BY <2>5, <4>2
      <4>5. Max(T) = Len(own)
        BY <4>1, <4>3, <4>4 DEF Max
      <4> QED
        BY <2>8, <4>5 DEF T
    <3>7. row.recovered <=> row.status = "ok" /\ Len(own) > 1
      <4>1. ASSUME NEW m \in 1 .. Len(own), own[m].status = "failed", own[Len(own)].status = "ok"
            PROVE  Len(own) > 1
        <5>1. m # Len(own)
          BY <4>1
        <5> QED
          BY <2>5, <5>1
      <4>2. ASSUME Len(own) > 1 PROVE own[1].status = "failed"
        <5>1. 1 \in 1 .. Len(own) - 1
          BY <2>5, <4>2
        <5> QED
          BY <2>5, <3>1, <5>1 DEF InOrder
      <4> QED
        BY <2>6, <2>8, <3>1, <3>2, <3>3, <4>1, <4>2
    <3> QED
      BY <3>4, <3>5, <3>6, <3>7
  <2> QED
    BY <2>9, <2>11, <2>12
<1> QED
  BY <1>1, AuditInvariant, PTL

\* The members of a finite set that a strict order does not put after one of them:
\* their number is the place of that one, and every place is taken once.
NotAfter(S, before, x) == {y \in S : <<x, y>> \notin before}

LEMMA RankedOnce ==
  ASSUME NEW S, IsFiniteSet(S), NEW before,
         \A x \in S : <<x, x>> \notin before,
         \A x, y, z \in S : <<x, y>> \in before /\ <<y, z>> \in before => <<x, z>> \in before,
         \A x, y \in S : x # y => <<x, y>> \in before \/ <<y, x>> \in before
  PROVE  /\ Cardinality(S) \in Nat
         /\ \A x \in S : Cardinality(NotAfter(S, before, x)) \in 1 .. Cardinality(S)
         /\ \A x, y \in S : <<x, y>> \in before
              => Cardinality(NotAfter(S, before, x)) < Cardinality(NotAfter(S, before, y))
         /\ \A x, y \in S : Cardinality(NotAfter(S, before, x)) = Cardinality(NotAfter(S, before, y))
              => x = y
         /\ \A k \in 1 .. Cardinality(S) : \E x \in S : Cardinality(NotAfter(S, before, x)) = k
<1> DEFINE U(x) == NotAfter(S, before, x)
           C == Cardinality(S)
           f == [x \in S |-> Cardinality(U(x))]
<1>1. C \in Nat
  BY FS_CardinalityType
<1>2. ASSUME NEW x \in S
      PROVE  /\ U(x) \subseteq S /\ x \in U(x)
             /\ IsFiniteSet(U(x)) /\ Cardinality(U(x)) \in Nat
             /\ Cardinality(U(x)) <= C /\ Cardinality(U(x)) # 0
  <2>1. U(x) \subseteq S /\ x \in U(x)
    BY DEF NotAfter
  <2>2. IsFiniteSet(U(x)) /\ Cardinality(U(x)) <= C
    BY <2>1, FS_Subset
  <2>3. Cardinality(U(x)) \in Nat
    BY <2>2, FS_CardinalityType
  <2>4. Cardinality(U(x)) # 0
    BY <2>1, <2>2, FS_EmptySet
  <2> QED
    BY <2>1, <2>2, <2>3, <2>4
<1>3. ASSUME NEW x \in S, NEW y \in S, <<x, y>> \in before
      PROVE  Cardinality(U(x)) < Cardinality(U(y))
  <2>1. y \notin U(x)
    BY <1>3 DEF NotAfter
  <2>2. U(x) \subseteq U(y)
    <3> SUFFICES ASSUME NEW z \in S, <<x, z>> \notin before, <<y, z>> \in before PROVE FALSE
      BY DEF NotAfter
    <3> QED
      BY <1>3
  <2>3. Cardinality(U(x)) <= Cardinality(U(y)) /\ Cardinality(U(x)) # Cardinality(U(y))
    BY <1>2, <2>1, <2>2, FS_Subset
  <2> HIDE DEF U
  <2> QED
    BY <1>2, <2>3
<1> HIDE DEF U, C
<1>4. ASSUME NEW x \in S, NEW y \in S, Cardinality(U(x)) = Cardinality(U(y)) PROVE x = y
  <2>1. ~ (Cardinality(U(x)) < Cardinality(U(y))) /\ ~ (Cardinality(U(y)) < Cardinality(U(x)))
    BY <1>2, <1>4
  <2> QED
    BY <1>3, <2>1
<1>5. \A x \in S : Cardinality(U(x)) \in 1 .. C
  BY <1>1, <1>2
<1>6. f \in Injection(S, 1 .. C)
  BY <1>4, <1>5 DEF Injection, IsInjective
<1>7. IsFiniteSet(1 .. C) /\ Cardinality(1 .. C) = C
  <2>1. 1 \in Int /\ C \in Int /\ (1 > C => C = 0) /\ C - 1 + 1 = C
    BY <1>1
  <2> QED
    BY <2>1, FS_Interval
<1>8. f \in Surjection(S, 1 .. C)
  BY <1>6, <1>7, FS_Injection DEF C
<1>9. \A k \in 1 .. C : \E x \in S : Cardinality(U(x)) = k
  BY <1>8 DEF Surjection
<1> QED
  BY <1>1, <1>3, <1>4, <1>5, <1>9 DEF U, C

\* What the row of a request says of it: the last of its records that were kept.
LEMMA RowOfRequest ==
  ASSUME AuditInv, NEW row \in RowsOf(audits)
  PROVE  /\ row.request \in {x.request : x \in ToSet(audits)}
         /\ row = Row(row.request, {x \in ToSet(audits) : x.request = row.request})
         /\ row.at \in Nat
<1>1. PICK z \in ToSet(audits) : row = Row(z.request, {x \in ToSet(audits) : x.request = z.request})
  BY DEF RowsOf
<1>2. PICK r : r = z.request
  OBVIOUS
<1>3. PICK kept : kept = {x \in ToSet(audits) : x.request = r}
  OBVIOUS
<1>4. row = Row(r, kept) /\ row.request = r /\ row.at = Final(kept).at /\ z \in kept
  BY <1>1, <1>2, <1>3 DEF Row
<1>5. r \in Callers
  <2>1. z \in AuditRecords
    BY DEF AuditInv, AuditTypeOK, ToSet
  <2> QED
    BY <1>2, <2>1 DEF AuditRecords
<1>6. Own(r) \in Seq(AuditRecords) /\ InOrder(r, Own(r))
  BY <1>5 DEF AuditInv, AuditTypeOK, OfCaller, Own
<1>7. \A x \in kept : \E n \in 1 .. Len(Own(r)) : x = Own(r)[n]
  BY <1>3 DEF AuditInv, Made
<1>8. \E n \in 1 .. Len(Own(r)) : Final(kept) = Own(r)[n]
  BY <1>4, <1>6, <1>7, FinalIsNewest
<1>9. Final(kept).at \in Nat
  <2>1. PICK n \in 1 .. Len(Own(r)) : Final(kept) = Own(r)[n]
    BY <1>8
  <2>2. Own(r)[n] \in AuditRecords
    BY <1>6
  <2> QED
    BY <2>1, <2>2 DEF AuditRecords
<1> QED
  BY <1>2, <1>3, <1>4, <1>9

\* Where the records of a row begin: a place of its own.
LEMMA FirstPlaces ==
  ASSUME AuditInv
  PROVE  /\ \A x \in RowsOf(audits) : /\ FirstPlace(audits, x) \in 1 .. Len(audits)
                                      /\ FirstPlace(audits, x) \in Nat
                                      /\ audits[FirstPlace(audits, x)].request = x.request
         /\ \A x, y \in RowsOf(audits) : FirstPlace(audits, x) = FirstPlace(audits, y) => x = y
<1>1. ASSUME NEW x \in RowsOf(audits)
      PROVE  /\ FirstPlace(audits, x) \in 1 .. Len(audits) /\ FirstPlace(audits, x) \in Nat
             /\ audits[FirstPlace(audits, x)].request = x.request
  <2>1. PICK P : P = {k \in DOMAIN audits : audits[k].request = x.request}
    OBVIOUS
  <2>2. DOMAIN audits = 1 .. Len(audits) /\ Len(audits) \in Nat
    BY DEF AuditInv, AuditTypeOK
  <2>3. P # {}
    <3>1. PICK k \in DOMAIN audits : x.request = audits[k].request
      BY RowOfRequest DEF ToSet
    <3> QED
      BY <2>1, <3>1
  <2>4. P \subseteq Nat
    BY <2>1, <2>2
  <2>5. Min(P) \in P
    BY <2>3, <2>4, MinOf
  <2>6. FirstPlace(audits, x) = Min(P)
    BY <2>1 DEF FirstPlace
  <2> QED
    BY <2>1, <2>2, <2>4, <2>5, <2>6
<1>2. ASSUME NEW x \in RowsOf(audits), NEW y \in RowsOf(audits), x.request = y.request PROVE x = y
  BY ZenonT(30), <1>2, RowOfRequest
<1> QED
  BY <1>1, <1>2

\* Whatever the order of the records, every request that has one is shown in one
\* row, and the rows are in the order in which the requests ended, those of one
\* time in the order of their first records (server.go, collapseAuditRecords).
THEOREM OneRowPerRequest == AuditSpec => []RowPerRequest
<1>1. ASSUME AuditInv PROVE RowPerRequest
  <2> DEFINE requests == {x.request : x \in ToSet(audits)}
             First(x) == FirstPlace(audits, x)
  <2>1. PICK rows : rows = RowsOf(audits)
    OBVIOUS
  <2> DEFINE before == {p \in rows \X rows : Earlier(audits, p[1], p[2])}
             C == Cardinality(rows)
             UpTo(row) == {x \in rows : ~Earlier(audits, row, x)}
             At(k) == CHOOSE row \in rows : Cardinality(UpTo(row)) = k
  <2>2. \A x \in rows : /\ x.request \in requests /\ x.at \in Nat
                        /\ First(x) \in Nat /\ First(x) \in 1 .. Len(audits)
    BY <1>1, <2>1, RowOfRequest, FirstPlaces
  <2>3. \A x, y \in rows : First(x) = First(y) => x = y
    BY <1>1, <2>1, FirstPlaces
  <2>4. ASSUME NEW x \in rows, NEW y \in rows, x.request = y.request PROVE x = y
    BY ZenonT(30), <1>1, <2>1, <2>4, RowOfRequest
  <2>5. ASSUME NEW r \in requests PROVE \E x \in rows : x.request = r
    <3>1. Row(r, {x \in ToSet(audits) : x.request = r}) \in rows
      BY <2>1 DEF RowsOf
    <3>2. Row(r, {x \in ToSet(audits) : x.request = r}).request = r
      BY DEF Row
    <3> QED
      BY <3>1, <3>2
  <2>6. IsFiniteSet(rows)
    <3> DEFINE f == [x \in rows |-> First(x)]
    <3>1. IsFiniteSet(1 .. Len(audits))
      <4>1. 1 \in Int /\ Len(audits) \in Int
        BY <1>1 DEF AuditInv, AuditTypeOK
      <4> QED
        BY <4>1, FS_Interval
    <3> HIDE DEF First
    <3>2. f \in Injection(rows, 1 .. Len(audits))
      BY <2>2, <2>3 DEF Injection, IsInjective
    <3> QED
      BY <3>1, <3>2, FS_Injection
  <2>7. \A x, y \in rows : <<x, y>> \in before
                           <=> x.at < y.at \/ (x.at = y.at /\ First(x) < First(y))
    BY DEF Earlier
  <2>8. \A x, y \in rows : Earlier(audits, x, y) <=> <<x, y>> \in before
    OBVIOUS
  <2> HIDE DEF before, First, requests
  <2>9. \A x \in rows : <<x, x>> \notin before
    BY <2>2, <2>7
  <2>10. \A x, y, z \in rows : <<x, y>> \in before /\ <<y, z>> \in before => <<x, z>> \in before
    BY <2>2, <2>7
  <2>11. \A x, y \in rows : x # y => <<x, y>> \in before \/ <<y, x>> \in before
    <3> SUFFICES ASSUME NEW x \in rows, NEW y \in rows, x # y
                 PROVE  <<x, y>> \in before \/ <<y, x>> \in before
      OBVIOUS
    <3>1. First(x) # First(y)
      BY <2>3
    <3> QED
      BY <2>2, <2>7, <3>1
  <2>12. \A x \in rows : UpTo(x) = NotAfter(rows, before, x)
    BY <2>8 DEF NotAfter
  <2> HIDE DEF UpTo
  <2>13. /\ C \in Nat
         /\ \A x \in rows : Cardinality(UpTo(x)) \in 1 .. C
         /\ \A x, y \in rows : <<x, y>> \in before => Cardinality(UpTo(x)) < Cardinality(UpTo(y))
         /\ \A x, y \in rows : Cardinality(UpTo(x)) = Cardinality(UpTo(y)) => x = y
         /\ \A k \in 1 .. C : \E x \in rows : Cardinality(UpTo(x)) = k
    BY <2>6, <2>9, <2>10, <2>11, <2>12, RankedOnce
  <2>14. \A k \in 1 .. C : At(k) \in rows /\ Cardinality(UpTo(At(k))) = k
    BY <2>13
  <2>15. Rows = [k \in 1 .. C |-> At(k)]
    BY <2>1 DEF Rows, Collapsed, UpTo
  <2>16. \A x \in rows : Cardinality(UpTo(x)) \in 1 .. C /\ At(Cardinality(UpTo(x))) = x
    BY <2>13, <2>14
  <2> HIDE DEF At, C
  <2>17. /\ DOMAIN Rows = 1 .. C /\ Len(Rows) = C
         /\ \A k \in 1 .. C : Rows[k] = At(k)
    BY <2>13, <2>15
  <2>18. ToSet(Rows) = rows
    BY <2>14, <2>16, <2>17 DEF ToSet
  <2>19. ASSUME NEW j \in 1 .. C, NEW k \in 1 .. C, j < k
         PROVE  Earlier(audits, Rows[j], Rows[k])
    <3>1. /\ At(j) \in rows /\ At(k) \in rows
          /\ Cardinality(UpTo(At(j))) = j /\ Cardinality(UpTo(At(k))) = k
      BY <2>14
    <3>2. j # k /\ ~ (k < j)
      BY <2>13, <2>19
    <3>3. At(j) # At(k)
      BY <3>1, <3>2
    <3>4. <<At(k), At(j)>> \notin before
      BY <2>13, <3>1, <3>2
    <3>5. <<At(j), At(k)>> \in before
      BY <2>11, <3>1, <3>3, <3>4
    <3> QED
      BY <2>8, <2>17, <3>1, <3>5
  <2>20. {Rows[k].request : k \in DOMAIN Rows} = requests
    <3>1. \A k \in DOMAIN Rows : Rows[k] \in rows
      BY <2>18 DEF ToSet
    <3>2. \A x \in rows : \E k \in DOMAIN Rows : Rows[k] = x
      BY <2>18 DEF ToSet
    <3> QED
      BY <2>2, <2>5, <3>1, <3>2
  <2>21. C = Cardinality(requests)
    <3> DEFINE f == [x \in rows |-> x.request]
    <3>1. f \in Injection(rows, requests) /\ f \in Surjection(rows, requests)
      BY <2>2, <2>4, <2>5 DEF Injection, Surjection, IsInjective
    <3> HIDE DEF f
    <3> QED
      BY <2>6, <3>1, FS_Surjection DEF C
  <2> QED
    BY <2>1, <2>17, <2>18, <2>19, <2>20, <2>21 DEF RowPerRequest, requests
<1> QED
  BY <1>1, AuditInvariant, PTL

-----------------------------------------------------------------------------
(* The lifecycle events (module ResponsesLifecycle) *)

\* What the variables are made of.
ItemKinds == {"message", "function_call"}

ItemTypes == { "output_item.added", "content_part.added", "output_text.delta",
               "output_text.done", "content_part.done", "output_item.done",
               "function_call_arguments.delta", "function_call_arguments.done" }

DeltaTypes == {"output_text.delta", "function_call_arguments.delta"}

Says == [type : {"created", "in_progress", "failed"} \cup ItemTypes, item : Nat]
        \cup [type : {"completed"}, item : {NoItem}, output : SUBSET Nat]

ItemMaps == {[j \in D |-> upstream.kinds[j]] : D \in SUBSET Items}

StreamStates ==
    [ created : BOOLEAN, outputAdded : BOOLEAN, contentAdded : BOOLEAN,
      textDone : BOOLEAN, contentDone : BOOLEAN, outputDone : BOOLEAN,
      functionArgsDone : BOOLEAN, outputIndex : Nat, text : BOOLEAN,
      items : ItemMaps ]

InScript == {p \in Nat \X Nat : p[1] <= Len(upstream.kinds) + 1 /\ p[2] \in DOMAIN Script(p[1])}

EventsTypeOK ==
    /\ upstream \in Upstreams
    /\ place \in InScript \cup {End}
    /\ state \in StreamStates
    /\ sent \in Seq(Says)

-----------------------------------------------------------------------------
(* The script *)

LEMMA KindsType ==
  ASSUME upstream \in Upstreams
  PROVE  /\ upstream.kinds \in Seq(ItemKinds) /\ Len(upstream.kinds) \in Nat \ {0}
         /\ \A i \in Items : upstream.kinds[i] \in ItemKinds
         /\ Items = 1 .. Len(upstream.kinds) /\ NoItem \notin Items /\ NoItem = 0
<1> DEFINE k == upstream.kinds
<1>1. k \in Seq(ItemKinds) /\ k # <<>>
  BY LifecycleAssumption DEF ItemKinds
<1> HIDE DEF k
<1>2. Len(k) \in Nat \ {0}
  BY <1>1
<1>3. \A i \in 1 .. Len(k) : k[i] \in ItemKinds
  BY <1>1
<1> QED
  BY <1>1, <1>2, <1>3 DEF Items, NoItem, k

LEMMA MessageScript ==
  /\ Len(ItemScript("message")) = 7 /\ DOMAIN ItemScript("message") = 1 .. 7
  /\ ItemScript("message")[1] = "output_item.added"
  /\ ItemScript("message")[2] = "content_part.added"
  /\ ItemScript("message")[3] = "output_text.delta"
  /\ ItemScript("message")[4] = "output_text.delta"
  /\ ItemScript("message")[5] = "output_text.done"
  /\ ItemScript("message")[6] = "content_part.done"
  /\ ItemScript("message")[7] = "output_item.done"
BY DEF ItemScript

LEMMA CallScript ==
  /\ Len(ItemScript("function_call")) = 5 /\ DOMAIN ItemScript("function_call") = 1 .. 5
  /\ ItemScript("function_call")[1] = "output_item.added"
  /\ ItemScript("function_call")[2] = "function_call_arguments.delta"
  /\ ItemScript("function_call")[3] = "function_call_arguments.delta"
  /\ ItemScript("function_call")[4] = "function_call_arguments.done"
  /\ ItemScript("function_call")[5] = "output_item.done"
BY DEF ItemScript

\* Where the upstream is, and what comes there.
LEMMA ComingCases ==
  ASSUME upstream \in Upstreams, place \in InScript \cup {End}, place # End
  PROVE  /\ place = <<place[1], place[2]>> /\ place[1] \in Nat /\ place[2] \in Nat \ {0}
         /\ place[1] <= Len(upstream.kinds) + 1 /\ End[1] = Len(upstream.kinds) + 2
         /\ \/ /\ place[1] = 0 /\ place[2] = 1 /\ Coming = Event("created", NoItem)
               /\ Len(Script(place[1])) = 2
            \/ /\ place[1] = 0 /\ place[2] = 2 /\ Coming = Event("in_progress", NoItem)
               /\ Len(Script(place[1])) = 2
            \/ /\ place[1] = Len(upstream.kinds) + 1 /\ place[2] = 1
               /\ Coming = Event("completed", NoItem)
               /\ Len(Script(place[1])) = 1
            \/ /\ place[1] \in Items /\ upstream.kinds[place[1]] = "message"
               /\ place[2] \in 1 .. 7
               /\ Coming = Event(ItemScript("message")[place[2]], place[1])
               /\ Len(Script(place[1])) = 7
            \/ /\ place[1] \in Items /\ upstream.kinds[place[1]] = "function_call"
               /\ place[2] \in 1 .. 5
               /\ Coming = Event(ItemScript("function_call")[place[2]], place[1])
               /\ Len(Script(place[1])) = 5
<1>1. place \in Nat \X Nat /\ place[1] <= Len(upstream.kinds) + 1
      /\ place[2] \in DOMAIN Script(place[1])
  BY DEF InScript
<1>2. PICK p, k : p = place[1] /\ k = place[2] /\ p \in Nat /\ k \in Nat /\ place = <<p, k>>
  BY <1>1
<1>e. End[1] = Len(upstream.kinds) + 2
  BY DEF End
<1>3. CASE p = 0
  <2>1. p \notin Items /\ Script(p) = <<"created", "in_progress">>
    BY <1>3, KindsType DEF Script
  <2>2. k = 1 \/ k = 2
    BY <1>1, <1>2, <2>1
  <2> QED
    BY <1>1, <1>2, <1>3, <1>e, <2>1, <2>2 DEF Coming
<1>4. CASE p \in Items
  <2>1. Script(p) = ItemScript(upstream.kinds[p]) /\ p # NoItem
    BY <1>4, KindsType DEF Script
  <2>2. Coming = Event(ItemScript(upstream.kinds[p])[k], p)
    BY <1>2, <1>4, <2>1 DEF Coming
  <2>3. upstream.kinds[p] = "message" \/ upstream.kinds[p] = "function_call"
    BY <1>4, KindsType DEF ItemKinds
  <2>4. CASE upstream.kinds[p] = "message"
    <3>1. k \in 1 .. 7
      BY <1>1, <1>2, <2>1, <2>4, MessageScript
    <3> QED
      BY <1>1, <1>2, <1>4, <1>e, <2>1, <2>2, <2>4, <3>1, MessageScript, SMTT(60)
  <2>5. CASE upstream.kinds[p] = "function_call"
    <3>1. k \in 1 .. 5
      BY <1>1, <1>2, <2>1, <2>5, CallScript
    <3> QED
      BY <1>1, <1>2, <1>4, <1>e, <2>1, <2>2, <2>5, <3>1, CallScript
  <2> QED
    BY <2>3, <2>4, <2>5
<1>5. CASE p # 0 /\ p \notin Items
  <2>1. p = Len(upstream.kinds) + 1 /\ Script(p) = <<"completed">>
    BY <1>1, <1>2, <1>5, KindsType DEF Script
  <2>2. k = 1
    BY <1>1, <1>2, <2>1
  <2> QED
    BY <1>1, <1>2, <1>5, <1>e, <2>1, <2>2 DEF Coming
<1> QED
  BY <1>3, <1>4, <1>5

\* The next place is in the script, or its end.
LEMMA OnwardPlaces ==
  ASSUME upstream \in Upstreams, place \in InScript \cup {End}, place # End, Onward,
         UNCHANGED upstream
  PROVE  /\ place' \in (InScript \cup {End})'
         /\ place' = IF place[2] < Len(Script(place[1])) THEN <<place[1], place[2] + 1>>
                     ELSE <<place[1] + 1, 1>>
<1> DEFINE p == place[1] k == place[2] L == Len(upstream.kinds)
<1>1. p \in Nat /\ k \in Nat \ {0} /\ p <= L + 1 /\ L \in Nat \ {0}
  BY ComingCases, KindsType
<1>2. place' = IF k < Len(Script(p)) THEN <<p, k + 1>> ELSE <<p + 1, 1>>
  BY DEF Onward
<1>3. (InScript \cup {End})' = InScript \cup {End}
  BY DEF InScript, End, Script, Items
<1>4. \A q \in 0 .. L + 1 : /\ DOMAIN Script(q) = 1 .. Len(Script(q)) /\ Len(Script(q)) \in Nat \ {0}
  <2> SUFFICES ASSUME NEW q \in 0 .. L + 1
               PROVE  DOMAIN Script(q) = 1 .. Len(Script(q)) /\ Len(Script(q)) \in Nat \ {0}
    OBVIOUS
  <2>1. CASE q = 0
    BY <2>1, KindsType DEF Script
  <2>2. CASE q \in Items
    <3>1. Script(q) = ItemScript(upstream.kinds[q])
      BY <2>2, KindsType DEF Script
    <3> QED
      BY <2>2, <3>1, KindsType, MessageScript, CallScript DEF ItemKinds
  <2>3. CASE q # 0 /\ q \notin Items
    BY <2>3, KindsType DEF Script
  <2> QED
    BY <2>1, <2>2, <2>3
<1>5. CASE k < Len(Script(p))
  <2>1. Len(Script(p)) \in Nat /\ DOMAIN Script(p) = 1 .. Len(Script(p))
    BY <1>1, <1>4
  <2>2. <<p, k + 1>> \in InScript
    BY <1>1, <1>5, <2>1 DEF InScript
  <2> QED
    BY <1>2, <1>3, <1>5, <2>2
<1>6. CASE ~(k < Len(Script(p)))
  <2>1. CASE p + 1 <= L + 1
    <3>1. 1 \in DOMAIN Script(p + 1)
      BY <1>1, <1>4, <2>1
    <3>2. <<p + 1, 1>> \in InScript
      BY <1>1, <2>1, <3>1 DEF InScript
    <3> QED
      BY <1>2, <1>3, <1>6, <3>2
  <2>2. CASE p = L + 1
    <3>1. <<p + 1, 1>> = End
      BY <1>1, <2>2 DEF End
    <3> QED
      BY <1>2, <1>3, <1>6, <3>1
  <2> QED
    BY <1>1, <2>1, <2>2
<1> QED
  BY <1>2, <1>5, <1>6

-----------------------------------------------------------------------------
(* What an event does to the state, and what is sent of it *)

\* The event that comes is about an item if its type is.
LEMMA ComingType ==
  ASSUME upstream \in Upstreams, place \in InScript \cup {End}, place # End
  PROVE  /\ Coming.type \in {"created", "in_progress", "completed"} \cup ItemTypes
         /\ Coming.item = (IF Coming.type \in ItemTypes THEN place[1] ELSE NoItem)
         /\ Coming.type \in ItemTypes <=> place[1] \in Items
         /\ Coming = Event(Coming.type, Coming.item)
<1>1. CASE place[1] \notin Items
  BY <1>1, ComingCases, KindsType DEF Event, ItemTypes
<1>2. CASE place[1] \in Items /\ upstream.kinds[place[1]] = "message"
  <2>1. place[2] \in 1 .. 7 /\ Coming = Event(ItemScript("message")[place[2]], place[1])
    BY <1>2, ComingCases, KindsType
  <2>2. ItemScript("message")[place[2]] \in ItemTypes
    BY <2>1, MessageScript DEF ItemTypes
  <2> QED
    BY <1>2, <2>1, <2>2 DEF Event
<1>3. CASE place[1] \in Items /\ upstream.kinds[place[1]] # "message"
  <2>1. place[2] \in 1 .. 5 /\ Coming = Event(ItemScript("function_call")[place[2]], place[1])
    BY <1>3, ComingCases, KindsType
  <2>2. ItemScript("function_call")[place[2]] \in ItemTypes
    BY <2>1, CallScript DEF ItemTypes
  <2> QED
    BY <1>3, <2>1, <2>2 DEF Event
<1> QED
  BY <1>1, <1>2, <1>3

Names(e) ==
    IF e.type \in {"output_item.added", "output_item.done", "function_call_arguments.delta"}
    THEN {e.item} ELSE {}

LEMMA ObservedDoes ==
  ASSUME upstream \in Upstreams, state \in StreamStates, NEW e,
         e.item \in Items \cup {NoItem}, e.type \in ItemTypes <=> e.item \in Items,
         NEW o, o = Observed(state, e)
  PROVE  /\ o \in StreamStates
         /\ o.created <=> state.created
         /\ o.outputAdded <=> state.outputAdded \/ e.type = "output_item.added"
         /\ o.contentAdded <=> state.contentAdded \/ e.type = "content_part.added"
         /\ o.text <=> state.text \/ e.type = "output_text.delta"
         /\ o.textDone <=> state.textDone \/ e.type = "output_text.done"
         /\ o.contentDone <=> state.contentDone \/ e.type = "content_part.done"
         /\ o.outputDone <=> state.outputDone \/ e.type = "output_item.done"
         /\ o.functionArgsDone <=>
              state.functionArgsDone \/ e.type = "function_call_arguments.done"
         /\ o.outputIndex = IF e.item # NoItem THEN e.item ELSE state.outputIndex
         /\ DOMAIN o.items = DOMAIN state.items \cup Names(e)
<1>1. PICK D \in SUBSET Items : state.items = [j \in D |-> upstream.kinds[j]]
  BY DEF StreamStates, ItemMaps
<1>2. PICK current : current = IF e.item # NoItem THEN e.item ELSE state.outputIndex
  OBVIOUS
<1>3. PICK named : named = IF e.type \in {"output_item.added", "output_item.done"} THEN {current}
                           ELSE IF e.type = "function_call_arguments.delta"
                                   /\ current \notin DOMAIN state.items THEN {current}
                           ELSE {}
  OBVIOUS
<1>4. Names(e) \subseteq Items /\ (Names(e) # {} => e.item = current)
  BY <1>2, KindsType DEF Names, ItemTypes
<1>5. D \cup named = D \cup Names(e) /\ named \subseteq Names(e)
  BY <1>1, <1>3, <1>4 DEF Names
<1>6. PICK items : items = [i \in D \cup named |->
                              IF i \in named THEN upstream.kinds[i] ELSE state.items[i]]
  OBVIOUS
<1>7. items = [j \in D \cup named |-> upstream.kinds[j]]
  BY <1>1, <1>6
<1>8. items \in ItemMaps /\ DOMAIN items = D \cup Names(e)
  BY <1>4, <1>5, <1>7 DEF ItemMaps
<1>9. current \in Nat
  BY <1>2, KindsType DEF StreamStates
<1>10. o = [state EXCEPT
              !.outputIndex = current,
              !.outputAdded = @ \/ e.type = "output_item.added",
              !.contentAdded = @ \/ e.type = "content_part.added",
              !.text = @ \/ e.type = "output_text.delta",
              !.textDone = @ \/ e.type = "output_text.done",
              !.contentDone = @ \/ e.type = "content_part.done",
              !.outputDone = @ \/ e.type = "output_item.done",
              !.functionArgsDone = @ \/ e.type = "function_call_arguments.done",
              !.items = items]
  BY <1>1, <1>2, <1>3, <1>6 DEF Observed
<1>11. PICK a \in BOOLEAN : a = (state.outputAdded \/ e.type = "output_item.added")
  OBVIOUS
<1>12. PICK b \in BOOLEAN : b = (state.contentAdded \/ e.type = "content_part.added")
  OBVIOUS
<1>13. PICK t \in BOOLEAN : t = (state.text \/ e.type = "output_text.delta")
  OBVIOUS
<1>14. PICK u \in BOOLEAN : u = (state.textDone \/ e.type = "output_text.done")
  OBVIOUS
<1>15. PICK v \in BOOLEAN : v = (state.contentDone \/ e.type = "content_part.done")
  OBVIOUS
<1>16. PICK w \in BOOLEAN : w = (state.outputDone \/ e.type = "output_item.done")
  OBVIOUS
<1>17. PICK f \in BOOLEAN :
         f = (state.functionArgsDone \/ e.type = "function_call_arguments.done")
  OBVIOUS
<1>18. o = [state EXCEPT !.outputIndex = current, !.outputAdded = a, !.contentAdded = b,
                         !.text = t, !.textDone = u, !.contentDone = v, !.outputDone = w,
                         !.functionArgsDone = f, !.items = items]
  BY <1>10, <1>11, <1>12, <1>13, <1>14, <1>15, <1>16, <1>17
<1>19. /\ o \in StreamStates
       /\ o.created = state.created /\ o.outputAdded = a /\ o.contentAdded = b
       /\ o.text = t /\ o.textDone = u /\ o.contentDone = v /\ o.outputDone = w
       /\ o.functionArgsDone = f /\ o.outputIndex = current /\ o.items = items
  <2>1. /\ o.outputAdded = a /\ o.contentAdded = b /\ o.text = t /\ o.textDone = u
        /\ o.contentDone = v /\ o.outputDone = w /\ o.functionArgsDone = f
        /\ o.outputIndex = current /\ o.items = items /\ o.created = state.created
    BY <1>18, SMTT(60) DEF StreamStates
  <2>2. o \in StreamStates
    <3>1. PICK s1 \in StreamStates : s1 = [state EXCEPT !.outputIndex = current]
      BY <1>9, ZenonT(60) DEF StreamStates
    <3>2. PICK s2 \in StreamStates : s2 = [s1 EXCEPT !.outputAdded = a]
      BY <3>1, ZenonT(60) DEF StreamStates
    <3>3. PICK s3 \in StreamStates : s3 = [s2 EXCEPT !.contentAdded = b]
      BY <3>2, ZenonT(60) DEF StreamStates
    <3>4. PICK s4 \in StreamStates : s4 = [s3 EXCEPT !.text = t]
      BY <3>3, ZenonT(60) DEF StreamStates
    <3>5. PICK s5 \in StreamStates : s5 = [s4 EXCEPT !.textDone = u]
      BY <3>4, ZenonT(60) DEF StreamStates
    <3>6. PICK s6 \in StreamStates : s6 = [s5 EXCEPT !.contentDone = v]
      BY <3>5, ZenonT(60) DEF StreamStates
    <3>7. PICK s7 \in StreamStates : s7 = [s6 EXCEPT !.outputDone = w]
      BY <3>6, ZenonT(60) DEF StreamStates
    <3>8. PICK s8 \in StreamStates : s8 = [s7 EXCEPT !.functionArgsDone = f]
      BY <3>7, ZenonT(60) DEF StreamStates
    <3>9. PICK s9 \in StreamStates : s9 = [s8 EXCEPT !.items = items]
      BY <1>8, <3>8, ZenonT(60) DEF StreamStates
    <3> QED
      BY <1>18, <3>1, <3>2, <3>3, <3>4, <3>5, <3>6, <3>7, <3>8, <3>9
  <2> QED
    BY <2>1, <2>2
<1> QED
  BY <1>1, <1>2, <1>8, <1>11, <1>12, <1>13, <1>14, <1>15, <1>16, <1>17, <1>19

At(types, type) == {n \in 1 .. Len(types) : types[n] = type}

LEMMA InjectedDoes ==
  ASSUME NEW s \in StreamStates, NEW types \in Seq(ItemTypes), NEW o, o = Injected(s, types)
  PROVE  /\ o \in StreamStates /\ o.created
         /\ o.outputAdded <=> s.outputAdded \/ At(types, "output_item.added") # {}
         /\ o.contentAdded <=> s.contentAdded \/ At(types, "content_part.added") # {}
         /\ o.textDone <=> s.textDone \/ At(types, "output_text.done") # {}
         /\ o.contentDone <=> s.contentDone \/ At(types, "content_part.done") # {}
         /\ o.functionArgsDone <=>
              s.functionArgsDone \/ At(types, "function_call_arguments.done") # {}
         /\ o.outputDone <=> s.outputDone \/ At(types, "output_item.done") # {}
         /\ o.text = s.text /\ o.items = s.items /\ o.outputIndex = s.outputIndex
<1>0. DOMAIN types = 1 .. Len(types)
  OBVIOUS
<1>1. PICK a \in BOOLEAN : a = (s.outputAdded \/ At(types, "output_item.added") # {})
  OBVIOUS
<1>2. PICK b \in BOOLEAN : b = (s.contentAdded \/ At(types, "content_part.added") # {})
  OBVIOUS
<1>3. PICK u \in BOOLEAN : u = (s.textDone \/ At(types, "output_text.done") # {})
  OBVIOUS
<1>4. PICK v \in BOOLEAN : v = (s.contentDone \/ At(types, "content_part.done") # {})
  OBVIOUS
<1>5. PICK f \in BOOLEAN :
        f = (s.functionArgsDone \/ At(types, "function_call_arguments.done") # {})
  OBVIOUS
<1>6. PICK w \in BOOLEAN : w = (s.outputDone \/ At(types, "output_item.done") # {})
  OBVIOUS
<1>7. \A type : (\E n \in DOMAIN types : types[n] = type) <=> At(types, type) # {}
  BY <1>0 DEF At
<1>8. /\ a = (s.outputAdded \/ \E n \in DOMAIN types : types[n] = "output_item.added")
      /\ b = (s.contentAdded \/ \E n \in DOMAIN types : types[n] = "content_part.added")
      /\ u = (s.textDone \/ \E n \in DOMAIN types : types[n] = "output_text.done")
      /\ v = (s.contentDone \/ \E n \in DOMAIN types : types[n] = "content_part.done")
      /\ f = (s.functionArgsDone
                \/ \E n \in DOMAIN types : types[n] = "function_call_arguments.done")
      /\ w = (s.outputDone \/ \E n \in DOMAIN types : types[n] = "output_item.done")
  BY <1>1, <1>2, <1>3, <1>4, <1>5, <1>6, <1>7
<1>9. o = [s EXCEPT !.created = TRUE, !.outputAdded = a, !.contentAdded = b, !.textDone = u,
                    !.contentDone = v, !.functionArgsDone = f, !.outputDone = w]
  BY <1>8 DEF Injected
<1>10. /\ o \in StreamStates /\ o.created = TRUE
       /\ o.outputAdded = a /\ o.contentAdded = b /\ o.textDone = u /\ o.contentDone = v
       /\ o.functionArgsDone = f /\ o.outputDone = w
       /\ o.text = s.text /\ o.items = s.items /\ o.outputIndex = s.outputIndex
  BY <1>9 DEF StreamStates
<1> QED
  BY <1>1, <1>2, <1>3, <1>4, <1>5, <1>6, <1>10

Added == "output_item.added"
Closed == "output_item.done"

Injectable == ItemTypes \ DeltaTypes

LEMMA ConcatAt ==
  ASSUME NEW s \in Seq(Injectable), NEW t \in Seq(Injectable), NEW type
  PROVE  /\ s \o t \in Seq(Injectable) /\ Len(s \o t) = Len(s) + Len(t)
         /\ At(t, type) = {} => At(s \o t, type) = At(s, type)
         /\ At(s, type) = {} /\ At(t, type) = {1} => At(s \o t, type) = {Len(s) + 1}
<1>0. s \o t \in Seq(Injectable)
  BY ConcatProperties
<1>1. PICK x \in Seq(Injectable) : x = s \o t
  BY <1>0
<1>2. /\ Len(x) = Len(s) + Len(t) /\ Len(s) \in Nat /\ Len(t) \in Nat
      /\ \A n \in 1 .. Len(s) : x[n] = s[n]
      /\ \A n \in 1 .. Len(t) : x[Len(s) + n] = t[n]
  BY <1>1
<1>3. \A n \in 1 .. Len(x) : n \in 1 .. Len(s) \/ (n - Len(s) \in 1 .. Len(t)
                                                  /\ n = Len(s) + (n - Len(s)))
  BY <1>2
<1>4. At(t, type) = {} => At(x, type) = At(s, type)
  <2>1. SUFFICES ASSUME At(t, type) = {} PROVE At(x, type) = At(s, type)
    OBVIOUS
  <2>2. \A n \in 1 .. Len(t) : t[n] # type
    BY <2>1 DEF At
  <2>3. \A n \in 1 .. Len(x) : x[n] = type => n \in 1 .. Len(s)
    BY <1>2, <1>3, <2>2
  <2>4. \A n \in 1 .. Len(s) : n \in 1 .. Len(x) /\ x[n] = s[n]
    BY <1>2
  <2> QED
    BY <2>3, <2>4 DEF At
<1>5. ASSUME At(s, type) = {}, At(t, type) = {1}
      PROVE  At(x, type) = {Len(s) + 1}
  <2>1. 1 \in 1 .. Len(t) /\ t[1] = type
    BY <1>5 DEF At
  <2>2. Len(s) + 1 \in At(x, type)
    BY <1>2, <2>1 DEF At
  <2>3. ASSUME NEW n \in At(x, type) PROVE n = Len(s) + 1
    <3>1. n \in 1 .. Len(x) /\ x[n] = type
      BY DEF At
    <3>2. n \notin 1 .. Len(s)
      BY <1>2, <1>5, <3>1 DEF At
    <3>3. n - Len(s) \in At(t, type)
      BY <1>2, <1>3, <3>1, <3>2 DEF At
    <3> QED
      BY <1>2, <1>5, <3>1, <3>3
  <2> QED
    BY <2>2, <2>3
<1> QED
  BY <1>1, <1>2, <1>4, <1>5

LEMMA OneOrNone ==
  ASSUME NEW x \in Injectable, NEW v \in {<<>>, <<x>>}, NEW type
  PROVE  /\ v \in Seq(Injectable)
         /\ v = <<x>> /\ x = type => At(v, type) = {1}
         /\ v = <<>> \/ x # type => At(v, type) = {}
         /\ v = <<>> => Len(v) = 0
<1>1. CASE v = <<>>
  BY <1>1 DEF At
<1>2. CASE v = <<x>>
  <2>1. v \in Seq(Injectable) /\ Len(v) = 1 /\ v[1] = x /\ v # <<>>
    BY <1>2
  <2>2. 1 .. 1 = {1}
    OBVIOUS
  <2> QED
    BY <2>1, <2>2 DEF At
<1> QED
  BY <1>1, <1>2

\* Events are injected only in front of deltas, if the item was not announced,
\* and of the end, if it was not closed; no delta is ever injected.
LEMMA LifecycleDoes ==
  ASSUME NEW s \in StreamStates, NEW e, NEW types, types = Lifecycle(s, e)
  PROVE  /\ types \in Seq(Injectable)
         /\ e.type \in DeltaTypes /\ ~s.outputAdded => At(types, Added) = {1}
         /\ ~(e.type \in DeltaTypes /\ ~s.outputAdded) => At(types, Added) = {}
         /\ e.type = "completed" /\ (DOMAIN s.items # {} \/ s.text) /\ ~s.outputDone
              => \E n \in Nat : At(types, Closed) = {n}
         /\ ~(e.type = "completed" /\ (DOMAIN s.items # {} \/ s.text) /\ ~s.outputDone)
              => At(types, Closed) = {}
         /\ e.type \notin DeltaTypes \cup {"completed"} => types = <<>>
<1>0. /\ Added \in Injectable /\ Closed \in Injectable /\ "content_part.added" \in Injectable
      /\ "output_text.done" \in Injectable /\ "content_part.done" \in Injectable
      /\ "function_call_arguments.done" \in Injectable
      /\ Added # Closed
      /\ {"content_part.added", "output_text.done", "content_part.done",
          "function_call_arguments.done"} \cap {Added, Closed} = {}
  BY DEF Added, Closed, Injectable, ItemTypes, DeltaTypes
<1>n. /\ <<>> \in Seq(Injectable)
      /\ \A type : At(<<>>, type) = {}
  BY DEF At
<1>1. CASE e.type = "output_text.delta"
  <2>1. PICK a : a = IF s.outputAdded THEN <<>> ELSE <<Added>>
    OBVIOUS
  <2>2. PICK b : b = IF s.contentAdded THEN <<>> ELSE <<"content_part.added">>
    OBVIOUS
  <2>3. types = a \o b
    BY <1>1, <2>1, <2>2 DEF Lifecycle, Added
  <2>4. /\ a \in Seq(Injectable) /\ At(a, Closed) = {}
        /\ s.outputAdded => At(a, Added) = {}
        /\ ~s.outputAdded => At(a, Added) = {1}
    BY <1>0, <2>1, OneOrNone
  <2>5. /\ b \in Seq(Injectable) /\ At(b, Closed) = {} /\ At(b, Added) = {}
    <3>1. PICK u \in Injectable : u = "content_part.added" /\ u # Added /\ u # Closed
      BY <1>0
    <3>2. b \in {<<>>, <<u>>}
      BY <2>2, <3>1
    <3> QED
      BY <3>1, <3>2, OneOrNone
  <2>6. /\ types \in Seq(Injectable) /\ At(types, Closed) = {}
        /\ At(types, Added) = At(a, Added)
    BY <2>3, <2>4, <2>5, ConcatAt
  <2> QED
    BY <1>1, <2>4, <2>6 DEF DeltaTypes
<1>2. CASE e.type = "function_call_arguments.delta"
  <2>1. types = IF s.outputAdded THEN <<>> ELSE <<Added>>
    BY <1>2 DEF Lifecycle, Added
  <2>2. /\ types \in Seq(Injectable) /\ At(types, Closed) = {}
        /\ s.outputAdded => At(types, Added) = {}
        /\ ~s.outputAdded => At(types, Added) = {1}
    BY <1>0, <2>1, OneOrNone
  <2> QED
    BY <1>2, <2>2 DEF DeltaTypes
<1>3. CASE e.type = "completed"
  <2>1. CASE DOMAIN s.items = {} /\ ~s.text
    <3>1. types = <<>>
      BY <1>3, <2>1 DEF Lifecycle
    <3> QED
      BY <1>3, <1>n, <2>1, <3>1 DEF DeltaTypes
  <2>2. CASE ~(DOMAIN s.items = {} /\ ~s.text)
    <3>1. PICK a : a = IF s.text /\ ~s.textDone THEN <<"output_text.done">> ELSE <<>>
      OBVIOUS
    <3>2. PICK b : b = IF s.text /\ ~s.contentDone THEN <<"content_part.done">> ELSE <<>>
      OBVIOUS
    <3>3. PICK c : c = IF CurrentKind(s) = "function_call" /\ ~s.functionArgsDone
                       THEN <<"function_call_arguments.done">> ELSE <<>>
      OBVIOUS
    <3>4. PICK d : d = IF s.outputDone THEN <<>> ELSE <<Closed>>
      OBVIOUS
    <3>5. types = a \o b \o c \o d
      BY <1>3, <2>2, <3>1, <3>2, <3>3, <3>4 DEF Lifecycle, Closed
    <3>6. a \in Seq(Injectable) /\ At(a, Added) = {} /\ At(a, Closed) = {}
      BY <1>0, <3>1, OneOrNone
    <3>7. b \in Seq(Injectable) /\ At(b, Added) = {} /\ At(b, Closed) = {}
      BY <1>0, <3>2, OneOrNone
    <3>8. c \in Seq(Injectable) /\ At(c, Added) = {} /\ At(c, Closed) = {}
      BY <1>0, <3>3, OneOrNone
    <3>9. PICK x : x = a \o b
      OBVIOUS
    <3>x. x \in Seq(Injectable) /\ At(x, Added) = {} /\ At(x, Closed) = {}
      BY <3>6, <3>7, <3>9, ConcatAt
    <3>10. PICK y : y = x \o c
      OBVIOUS
    <3>y. y \in Seq(Injectable) /\ At(y, Added) = {} /\ At(y, Closed) = {}
      BY <3>8, <3>x, <3>10, ConcatAt
    <3>11. types = y \o d
      BY <3>5, <3>9, <3>10
    <3>12. /\ d \in Seq(Injectable) /\ At(d, Added) = {}
           /\ s.outputDone => At(d, Closed) = {}
           /\ ~s.outputDone => At(d, Closed) = {1}
      BY <1>0, <3>4, OneOrNone
    <3>13. /\ types \in Seq(Injectable) /\ At(types, Added) = {}
           /\ s.outputDone => At(types, Closed) = {}
           /\ ~s.outputDone => At(types, Closed) = {Len(y) + 1}
      <4>1. y \o d \in Seq(Injectable) /\ At(y \o d, Added) = {}
        BY <3>y, <3>12, ConcatAt
      <4>2. s.outputDone => At(y \o d, Closed) = {}
        BY <3>y, <3>12, ConcatAt
      <4>3. ~s.outputDone => At(y \o d, Closed) = {Len(y) + 1}
        BY <3>y, <3>12, ConcatAt
      <4> QED
        BY <3>11, <4>1, <4>2, <4>3
    <3>14. Len(y) + 1 \in Nat
      BY <3>y
    <3> QED
      BY <1>3, <2>2, <3>13, <3>14 DEF DeltaTypes
  <2> QED
    BY <2>1, <2>2
<1>4. CASE e.type \notin DeltaTypes \cup {"completed"}
  <2>1. types = <<>>
    BY <1>4 DEF Lifecycle, DeltaTypes
  <2> QED
    BY <1>4, <1>n, <2>1
<1> QED
  BY <1>1, <1>2, <1>3, <1>4 DEF DeltaTypes

\* What a step adds to what the client was sent: nothing of an item, up to a
\* place, the injected types, and the event itself.
Adds(base, types, item, out) ==
    /\ base \in Nat /\ base >= Len(sent)
    /\ Len(sent') = base + Len(types) + 1
    /\ \A n \in 1 .. Len(sent) : sent'[n] = sent[n]
    /\ \A n \in Len(sent) + 1 .. base : sent'[n] = Event("created", NoItem)
    /\ \A n \in 1 .. Len(types) : sent'[base + n] = Event(types[n], item)
    /\ sent'[base + Len(types) + 1] = out

LEMMA ConcatParts ==
  ASSUME NEW S, NEW s \in Seq(S), NEW t \in Seq(S)
  PROVE  /\ s \o t \in Seq(S) /\ Len(s \o t) = Len(s) + Len(t)
         /\ \A n \in 1 .. Len(s) : (s \o t)[n] = s[n]
         /\ \A n \in 1 .. Len(t) : (s \o t)[Len(s) + n] = t[n]
OBVIOUS

LEMMA ConcatAdds ==
  ASSUME NEW c, c = <<>> \/ c = <<Event("created", NoItem)>>,
         NEW types \in Seq(ItemTypes), NEW item \in Nat, NEW out \in Says,
         sent \in Seq(Says), upstream \in Upstreams,
         sent' = sent \o c \o [n \in DOMAIN types |-> Event(types[n], item)] \o <<out>>
  PROVE  Adds(Len(sent) + Len(c), types, item, out) /\ sent' \in Seq(Says)
<1>1. PICK v : v = [n \in 1 .. Len(types) |-> Event(types[n], item)]
  OBVIOUS
<1>2. \A n \in 1 .. Len(types) : types[n] \in ItemTypes /\ Event(types[n], item) \in Says
  BY DEF Event, Says
<1>3. v \in Seq(Says) /\ Len(v) = Len(types)
  BY <1>1, <1>2
<1>4. c \in Seq(Says) /\ Len(c) \in 0 .. 1
      /\ (Len(c) = 1 => c[1] = Event("created", NoItem))
  <2>1. Event("created", NoItem) \in Says
    BY DEF Event, Says, NoItem
  <2>2. CASE c = <<>>
    BY <2>2, EmptySeq
  <2>3. CASE c = <<Event("created", NoItem)>>
    BY <2>1, <2>3
  <2> QED
    BY <2>2, <2>3
<1>5. sent' = sent \o c \o v \o <<out>>
  <2>1. DOMAIN types = 1 .. Len(types)
    OBVIOUS
  <2> QED
    BY <1>1, <2>1
<1>s. sent \o c \in Seq(Says)
  BY <1>4, ConcatProperties
<1>6. PICK x \in Seq(Says) : x = sent \o c
  BY <1>s
<1>7. /\ Len(x) = Len(sent) + Len(c) /\ Len(x) \in Nat
      /\ \A n \in 1 .. Len(sent) : x[n] = sent[n]
      /\ \A n \in Len(sent) + 1 .. Len(x) : x[n] = Event("created", NoItem)
  BY <1>4, <1>6, SMTT(60)
<1>v. x \o v \in Seq(Says)
  BY <1>3, <1>6, ConcatProperties
<1>8. PICK y \in Seq(Says) : y = x \o v
  BY <1>v
<1>9. /\ Len(y) = Len(x) + Len(types)
      /\ \A n \in 1 .. Len(x) : y[n] = x[n]
      /\ \A n \in 1 .. Len(types) : y[Len(x) + n] = Event(types[n], item)
  <2>1. x \in Seq(Says) /\ v \in Seq(Says)
    BY <1>3, <1>6
  <2>2. /\ Len(x \o v) = Len(x) + Len(v)
        /\ \A n \in 1 .. Len(x) : (x \o v)[n] = x[n]
        /\ \A n \in 1 .. Len(v) : (x \o v)[Len(x) + n] = v[n]
    BY <2>1, ConcatParts
  <2> QED
    BY <1>1, <1>3, <1>8, <2>1, <2>2
<1>10. sent' = y \o <<out>>
  BY <1>5, <1>6, <1>8
<1>11. /\ Len(sent') = Len(y) + 1 /\ sent' \in Seq(Says) /\ Len(y) \in Nat
       /\ \A n \in 1 .. Len(y) : sent'[n] = y[n]
       /\ sent'[Len(y) + 1] = out
  <2>1. Len(y) \in Nat /\ <<out>> \in Seq(Says) /\ Len(<<out>>) = 1 /\ <<out>>[1] = out
    BY <1>8
  <2>2. /\ y \o <<out>> \in Seq(Says)
        /\ Len(y \o <<out>>) = Len(y) + Len(<<out>>)
        /\ \A n \in 1 .. Len(y) : (y \o <<out>>)[n] = y[n]
        /\ \A n \in 1 .. Len(<<out>>) : (y \o <<out>>)[Len(y) + n] = <<out>>[n]
    BY <1>8, <2>1, ConcatParts
  <2>3. 1 \in 1 .. Len(<<out>>)
    BY <2>1
  <2> QED
    BY <1>10, <2>1, <2>2, <2>3
<1>12. Len(types) \in Nat /\ Len(sent) \in Nat
  OBVIOUS
<1>13. PICK base : base = Len(sent) + Len(c)
  OBVIOUS
<1>14. base = Len(x) /\ base \in Nat /\ base >= Len(sent) /\ Len(y) = base + Len(types)
  BY <1>4, <1>7, <1>9, <1>12, <1>13
<1>15. /\ \A n \in 1 .. Len(sent) : n \in 1 .. base /\ n \in 1 .. Len(y)
       /\ \A n \in Len(sent) + 1 .. base : n \in 1 .. base /\ n \in 1 .. Len(y)
       /\ \A n \in 1 .. Len(types) : base + n \in 1 .. Len(y)
  BY <1>12, <1>14
<1>16. Adds(base, types, item, out)
  BY <1>7, <1>9, <1>11, <1>14, <1>15 DEF Adds
<1> QED
  BY <1>11, <1>13, <1>16

\* What the events of a type about an item are then.
Gains(base, types, item, out, type, i) ==
    \A n : n \in About(type, i)' <=>
             \/ n \in About(type, i)
             \/ item = i /\ n \in Nat /\ n - base \in At(types, type)
             \/ n = base + Len(types) + 1 /\ out.type = type /\ out.item = i

LEMMA AddsAbout ==
  ASSUME NEW base \in Nat, NEW types \in Seq(ItemTypes), NEW item, NEW out,
         Adds(base, types, item, out), sent \in Seq(Says), sent' \in Seq(Says),
         NEW type, type # "created", NEW i
  PROVE  Gains(base, types, item, out, type, i)
<1>1. /\ base \in Nat /\ Len(sent) \in Nat /\ base >= Len(sent) /\ Len(types) \in Nat
      /\ Len(sent') = base + Len(types) + 1
      /\ DOMAIN sent' = 1 .. Len(sent') /\ DOMAIN sent = 1 .. Len(sent)
  BY DEF Adds
<1>2. \A n : n \in About(type, i)' <=>
               n \in 1 .. Len(sent') /\ sent'[n].type = type /\ sent'[n].item = i
  BY <1>1 DEF About, Positions
<1>3. \A n : n \in About(type, i) <=>
               n \in 1 .. Len(sent) /\ sent[n].type = type /\ sent[n].item = i
  BY <1>1 DEF About, Positions
<1>4. \A n \in 1 .. Len(sent) : n \in 1 .. Len(sent') /\ sent'[n] = sent[n]
  BY <1>1 DEF Adds
<1>5. \A n \in Len(sent) + 1 .. base : sent'[n].type = "created"
  BY DEF Adds, Event
<1>6. \A n \in 1 .. Len(types) :
        base + n \in 1 .. Len(sent') /\ sent'[base + n] = Event(types[n], item)
  BY <1>1 DEF Adds
<1>7. base + Len(types) + 1 \in 1 .. Len(sent') /\ sent'[base + Len(types) + 1] = out
  BY <1>1 DEF Adds
<1>8. \A n \in Nat : n - base \in At(types, type) <=>
                       n - base \in 1 .. Len(types) /\ types[n - base] = type
  BY DEF At
<1>9. \A n \in Nat : n - base \in 1 .. Len(types) =>
        n \in 1 .. Len(sent') /\ sent'[n].type = types[n - base] /\ sent'[n].item = item
  <2> SUFFICES ASSUME NEW n \in Nat, n - base \in 1 .. Len(types)
               PROVE  n \in 1 .. Len(sent') /\ sent'[n].type = types[n - base]
                      /\ sent'[n].item = item
    OBVIOUS
  <2>1. PICK m \in 1 .. Len(types) : m = n - base /\ n = base + m
    BY <1>1
  <2> QED
    <3>1. base + m \in 1 .. Len(sent') /\ sent'[base + m] = Event(types[m], item)
      BY <1>6
    <3>2. sent'[base + m].type = types[m] /\ sent'[base + m].item = item
      BY <3>1 DEF Event
    <3> QED
      BY <2>1, <3>1, <3>2
<1>10. \A n \in 1 .. Len(sent') :
         \/ n \in 1 .. Len(sent) \/ n \in Len(sent) + 1 .. base
         \/ n - base \in 1 .. Len(types) \/ n = base + Len(types) + 1
  BY <1>1, SMTT(60)
<1> SUFFICES ASSUME NEW n
             PROVE  n \in About(type, i)' <=>
                      \/ n \in About(type, i)
                      \/ item = i /\ n \in Nat /\ n - base \in At(types, type)
                      \/ n = base + Len(types) + 1 /\ out.type = type /\ out.item = i
  BY DEF Gains
<1>11. ASSUME n \in About(type, i) PROVE n \in About(type, i)'
  BY <1>2, <1>3, <1>4, <1>11
<1>12. ASSUME item = i, n \in Nat, n - base \in At(types, type) PROVE n \in About(type, i)'
  BY <1>2, <1>8, <1>9, <1>12
<1>13. ASSUME n = base + Len(types) + 1, out.type = type, out.item = i
       PROVE  n \in About(type, i)'
  BY <1>2, <1>7, <1>13
<1>14. ASSUME n \in About(type, i)'
       PROVE  \/ n \in About(type, i)
              \/ item = i /\ n \in Nat /\ n - base \in At(types, type)
              \/ n = base + Len(types) + 1 /\ out.type = type /\ out.item = i
  <2>1. n \in 1 .. Len(sent') /\ sent'[n].type = type /\ sent'[n].item = i /\ n \in Nat
    BY <1>1, <1>2, <1>14
  <2>2. CASE n \in 1 .. Len(sent)
    BY <1>3, <1>4, <2>1, <2>2
  <2>3. CASE n \in Len(sent) + 1 .. base
    BY <1>5, <2>1, <2>3
  <2>4. CASE n - base \in 1 .. Len(types)
    BY <1>8, <1>9, <2>1, <2>4
  <2>5. CASE n = base + Len(types) + 1
    BY <1>7, <2>1, <2>5
  <2> QED
    BY <1>10, <2>1, <2>2, <2>3, <2>4, <2>5
<1> QED
  BY <1>11, <1>12, <1>13, <1>14

\* A relayed event, part by part.
LEMMA RelayDoes ==
  ASSUME EventsTypeOK, RelayEvent
  PROVE  \E o \in StreamStates, types \in Seq(Injectable), base \in Nat, out \in Says :
           /\ o = Observed(state, Coming) /\ types = Lifecycle(o, Coming)
           /\ out \in PassedOn(o, Coming)
           /\ Adds(base, types, o.outputIndex, out)
           /\ sent' \in Seq(Says) /\ state' = Injected(o, types)
           /\ place # End /\ Coming.type \notin upstream.omits /\ Coming.type # "created"
           /\ Onward /\ UNCHANGED upstream
<1>0. upstream \in Upstreams /\ place \in InScript \cup {End} /\ place # End
      /\ state \in StreamStates /\ sent \in Seq(Says)
  BY DEF EventsTypeOK, RelayEvent
<1>1. PICK o : o = Observed(state, Coming)
  OBVIOUS
<1>2. PICK types : types = Lifecycle(o, Coming)
  OBVIOUS
<1>3. /\ Coming.item \in Items \cup {NoItem}
      /\ Coming.type \in ItemTypes <=> Coming.item \in Items
      /\ Coming.item \in Nat
  BY <1>0, ComingType, ComingCases, KindsType
<1>4. o \in StreamStates
  BY <1>0, <1>1, <1>3, ObservedDoes
<1>5. types \in Seq(Injectable) /\ types \in Seq(ItemTypes)
  <2>1. types \in Seq(Injectable)
    BY <1>2, <1>4, LifecycleDoes
  <2>2. \A n \in 1 .. Len(types) : types[n] \in ItemTypes
    BY <2>1 DEF Injectable
  <2> QED
    BY <2>1, <2>2
<1>6. /\ \E out \in PassedOn(o, Coming) :
           sent' = sent \o (IF o.created THEN <<>> ELSE <<Event("created", NoItem)>>)
                        \o [n \in DOMAIN types |-> Event(types[n], o.outputIndex)]
                        \o <<out>>
      /\ state' = Injected(o, types)
      /\ Coming.type \notin upstream.omits /\ Coming.type # "created"
      /\ Onward /\ UNCHANGED upstream
  BY <1>1, <1>2 DEF RelayEvent
<1>7. PICK out \in PassedOn(o, Coming) :
           sent' = sent \o (IF o.created THEN <<>> ELSE <<Event("created", NoItem)>>)
                        \o [n \in DOMAIN types |-> Event(types[n], o.outputIndex)]
                        \o <<out>>
  BY <1>6
<1>8. out \in Says
  <2>1. CASE Coming.type = "completed"
    <3>1. Items \subseteq Nat /\ o.outputIndex \in Nat
      BY <1>0, <1>4, KindsType DEF StreamStates
    <3>2. DOMAIN o.items \subseteq Items
      BY <1>4 DEF StreamStates, ItemMaps
    <3>3. Snapshot(o) \subseteq Nat
      BY <3>1, <3>2 DEF Snapshot
    <3>4. PICK output \in SUBSET Nat :
            out = [type |-> "completed", item |-> NoItem, output |-> output]
      BY <2>1, <3>1, <3>3 DEF PassedOn
    <3> QED
      BY <3>4 DEF Says
  <2>2. CASE Coming.type # "completed"
    <3>1. out = Coming
      BY <2>2 DEF PassedOn
    <3>2. /\ Coming = Event(Coming.type, Coming.item)
          /\ Coming.type \in {"created", "in_progress"} \cup ItemTypes
      BY <1>0, <2>2, ComingType
    <3> QED
      BY <1>3, <3>1, <3>2 DEF Event, Says
  <2> QED
    BY <2>1, <2>2
<1>9. PICK c : c = IF o.created THEN <<>> ELSE <<Event("created", NoItem)>>
  OBVIOUS
<1>10. o.outputIndex \in Nat
  BY <1>4 DEF StreamStates
<1>11. c = <<>> \/ c = <<Event("created", NoItem)>>
  BY <1>9
<1>12. sent' = sent \o c \o [n \in DOMAIN types |-> Event(types[n], o.outputIndex)] \o <<out>>
  BY <1>7, <1>9
<1>13. Adds(Len(sent) + Len(c), types, o.outputIndex, out) /\ sent' \in Seq(Says)
  BY <1>0, <1>5, <1>8, <1>10, <1>11, <1>12, ConcatAdds
<1>14. Len(sent) + Len(c) \in Nat
  BY <1>13 DEF Adds
<1> QED
  BY <1>0, <1>1, <1>2, <1>4, <1>5, <1>6, <1>7, <1>8, <1>13, <1>14

-----------------------------------------------------------------------------
(* Types *)

LEMMA InitEventTypes == EventsInit => EventsTypeOK
<1> SUFFICES ASSUME EventsInit PROVE EventsTypeOK
  OBVIOUS
<1>1. upstream \in Upstreams /\ place = <<NoItem, 1>> /\ sent = <<>>
  BY DEF EventsInit
<1>2. place \in InScript
  <2>1. Script(NoItem) = <<"created", "in_progress">> /\ NoItem = 0
    BY DEF Script, NoItem
  <2>2. Len(upstream.kinds) \in Nat
    BY <1>1, KindsType
  <2> QED
    BY <1>1, <2>1, <2>2 DEF InScript
<1>3. state \in StreamStates
  <2>1. <<>> = [j \in {} |-> upstream.kinds[j]]
    OBVIOUS
  <2>2. <<>> \in ItemMaps
    BY <2>1 DEF ItemMaps
  <2> QED
    BY <2>2 DEF EventsInit, StreamStates, NoItem
<1>4. sent \in Seq(Says)
  BY <1>1, EmptySeq
<1> QED
  BY <1>1, <1>2, <1>3, <1>4 DEF EventsTypeOK

LEMMA NextEventTypes == EventsTypeOK /\ [EventsNext]_eventVars => EventsTypeOK'
<1> SUFFICES ASSUME EventsTypeOK, [EventsNext]_eventVars PROVE EventsTypeOK'
  OBVIOUS
<1>0. upstream \in Upstreams /\ place \in InScript \cup {End}
      /\ state \in StreamStates /\ sent \in Seq(Says)
  BY DEF EventsTypeOK
<1>u. UNCHANGED upstream => /\ StreamStates' = StreamStates /\ Says' = Says
                           /\ (InScript \cup {End})' = InScript \cup {End}
  BY DEF StreamStates, ItemMaps, Items, Says, InScript, End, Script
<1>m. Event("created", NoItem) \in Says /\ Event("failed", NoItem) \in Says
  BY DEF Event, Says, NoItem
<1>t. [state EXCEPT !.created = TRUE] \in StreamStates
  BY <1>0 DEF StreamStates
<1>1. CASE RelayCreated
  <2>1. place # End /\ Onward /\ UNCHANGED upstream /\ Coming.type = "created"
        /\ state' = [state EXCEPT !.created = TRUE] /\ sent' = Append(sent, Coming)
    BY <1>1 DEF RelayCreated
  <2>2. Coming \in Says
    BY <1>0, <2>1, <1>m, ComingType DEF ItemTypes
  <2>3. sent' \in Seq(Says)
    BY <1>0, <2>1, <2>2
  <2> QED
    BY <1>0, <1>u, <1>t, <2>1, <2>3, OnwardPlaces DEF EventsTypeOK
<1>2. CASE RelayEvent
  <2>1. PICK o \in StreamStates, types \in Seq(Injectable) :
          state' = Injected(o, types) /\ sent' \in Seq(Says)
          /\ place # End /\ Onward /\ UNCHANGED upstream
    BY <1>2, RelayDoes
  <2>2. types \in Seq(ItemTypes)
    <3>1. \A n \in 1 .. Len(types) : types[n] \in ItemTypes
      BY DEF Injectable
    <3> QED
      BY <3>1
  <2>3. state' \in StreamStates
    BY <2>1, <2>2, InjectedDoes
  <2> QED
    BY <1>0, <1>u, <2>1, <2>3, OnwardPlaces DEF EventsTypeOK
<1>3. CASE Omit
  BY <1>0, <1>3, <1>u, OnwardPlaces DEF EventsTypeOK, Omit
<1>4. CASE Fail
  <2>1. PICK c \in Seq(Says) :
          c = IF state.created THEN <<>> ELSE <<Event("created", NoItem)>>
    <3>1. <<>> \in Seq(Says) /\ <<Event("created", NoItem)>> \in Seq(Says)
      BY <1>m, EmptySeq
    <3> QED
      BY <3>1
  <2>2. sent' = sent \o c \o <<Event("failed", NoItem)>>
    BY <1>4, <2>1 DEF Fail
  <2>3. sent \o c \in Seq(Says) /\ <<Event("failed", NoItem)>> \in Seq(Says)
    BY <1>0, <1>m, ConcatProperties
  <2>4. sent' \in Seq(Says)
    BY <2>2, <2>3, ConcatProperties
  <2>5. place' = End /\ UNCHANGED upstream /\ state' = [state EXCEPT !.created = TRUE]
    BY <1>4 DEF Fail
  <2> QED
    BY <1>0, <1>t, <1>u, <2>4, <2>5 DEF EventsTypeOK, End
<1>5. CASE UNCHANGED eventVars
  BY <1>0, <1>5, <1>u DEF EventsTypeOK, eventVars
<1> QED
  BY <1>1, <1>2, <1>3, <1>4, <1>5 DEF EventsNext

-----------------------------------------------------------------------------
(* What each step sends of an item *)

\* Where a step is taken, and where it leads.
LEMMA PlaceStep ==
  ASSUME upstream \in Upstreams, place \in InScript \cup {End}, place # End, Onward,
         UNCHANGED upstream
  PROVE  LET p == place[1] IN
         /\ p \in Nat /\ place = <<p, place[2]>> /\ place[2] \in Nat \ {0}
         /\ \/ /\ p = 0 /\ Coming.type \in Progress
               /\ place' = <<0, 2>> \/ place' = <<1, 1>>
            \/ /\ p \in Items /\ Coming.item = p /\ Coming.type \in ItemTypes
               /\ Coming.type = Added <=> place[2] = 1
               /\ Coming.type \in DeltaTypes => place[2] > 1
               /\ IF Coming.type = Closed THEN place' = <<p + 1, 1>>
                  ELSE place' = <<p, place[2] + 1>>
            \/ /\ p = Len(upstream.kinds) + 1 /\ Coming.type = "completed" /\ place' = End
<1> DEFINE p == place[1] k == place[2]
<1>1. /\ p \in Nat /\ place = <<p, k>> /\ k \in Nat \ {0}
      /\ place' = IF k < Len(Script(p)) THEN <<p, k + 1>> ELSE <<p + 1, 1>>
  BY ComingCases, OnwardPlaces
<1>2. CASE p = 0
  <2>1. /\ Len(Script(p)) = 2 /\ k \in {1, 2}
        /\ Coming = Event("created", NoItem) \/ Coming = Event("in_progress", NoItem)
    BY <1>2, ComingCases, KindsType
  <2>2. Coming.type \in Progress
    BY <2>1 DEF Event, Progress
  <2>3. place' = <<0, 2>> \/ place' = <<1, 1>>
    <3>1. CASE k = 1
      BY <1>1, <1>2, <2>1, <3>1
    <3>2. CASE k = 2
      <4>1. place' = <<p + 1, 1>>
        BY <1>1, <2>1, <3>2
      <4> QED
        BY <1>2, <4>1
    <3> QED
      BY <2>1, <3>1, <3>2
  <2> QED
    BY <1>1, <1>2, <2>2, <2>3
<1>3. CASE p = Len(upstream.kinds) + 1
  <2>1. Len(Script(p)) = 1 /\ k = 1 /\ Coming = Event("completed", NoItem)
    BY <1>3, ComingCases, KindsType
  <2> QED
    BY <1>1, <1>3, <2>1 DEF Event, End
<1>4. CASE p \in Items /\ upstream.kinds[p] = "message"
  <2>1. /\ Len(Script(p)) = 7 /\ k \in 1 .. 7
        /\ Coming = Event(ItemScript("message")[k], p)
    BY <1>4, ComingCases, KindsType
  <2>2. PICK type : type = ItemScript("message")[k]
    OBVIOUS
  <2>3. /\ type = Added <=> k = 1
        /\ type \in DeltaTypes => k > 1
        /\ type = Closed <=> k = 7
        /\ type \in ItemTypes
    BY <2>1, <2>2, MessageScript DEF Added, Closed, DeltaTypes, ItemTypes
  <2>4. Coming.type = type /\ Coming.item = p
    BY <2>1, <2>2 DEF Event
  <2> QED
    BY <1>1, <1>4, <2>1, <2>3, <2>4
<1>5. CASE p \in Items /\ upstream.kinds[p] # "message"
  <2>1. /\ Len(Script(p)) = 5 /\ k \in 1 .. 5
        /\ Coming = Event(ItemScript("function_call")[k], p)
    BY <1>5, ComingCases, KindsType
  <2>2. PICK type : type = ItemScript("function_call")[k]
    OBVIOUS
  <2>3. /\ type = Added <=> k = 1
        /\ type \in DeltaTypes => k > 1
        /\ type = Closed <=> k = 5
        /\ type \in ItemTypes
    BY <2>1, <2>2, CallScript DEF Added, Closed, DeltaTypes, ItemTypes
  <2>4. Coming.type = type /\ Coming.item = p
    BY <2>1, <2>2 DEF Event
  <2> QED
    BY <1>1, <1>5, <2>1, <2>3, <2>4
<1>6. p = 0 \/ p \in Items \/ p = Len(upstream.kinds) + 1
  BY ComingCases, KindsType
<1> QED
  BY <1>1, <1>2, <1>3, <1>4, <1>5, <1>6

LEMMA AddsCompleted ==
  ASSUME NEW base, NEW types \in Seq(ItemTypes), NEW item, NEW out,
         Adds(base, types, item, out), sent \in Seq(Says), sent' \in Seq(Says)
  PROVE  /\ Positions("completed")' =
              Positions("completed") \cup
                (IF out.type = "completed" THEN {Len(sent')} ELSE {})
         /\ Len(sent') = base + Len(types) + 1 /\ sent'[Len(sent')] = out
<1>1. /\ base \in Nat /\ Len(sent) \in Nat /\ base >= Len(sent) /\ Len(types) \in Nat
      /\ Len(sent') = base + Len(types) + 1
      /\ DOMAIN sent' = 1 .. Len(sent') /\ DOMAIN sent = 1 .. Len(sent)
  BY DEF Adds
<1>2. sent'[Len(sent')] = out
  BY <1>1 DEF Adds
<1>3. \A n \in 1 .. Len(sent) : n \in 1 .. Len(sent') /\ sent'[n] = sent[n]
  BY <1>1 DEF Adds
<1>4. \A n \in Len(sent) + 1 .. base : sent'[n].type # "completed"
  BY DEF Adds, Event
<1>5. \A m \in 1 .. Len(types) : sent'[base + m].type # "completed"
  <2>1. SUFFICES ASSUME NEW m \in 1 .. Len(types)
                 PROVE  sent'[base + m].type # "completed"
    OBVIOUS
  <2>2. types[m] \in ItemTypes
    OBVIOUS
  <2>3. sent'[base + m] = Event(types[m], item)
    BY DEF Adds
  <2>4. sent'[base + m].type = types[m]
    BY <2>3 DEF Event
  <2> QED
    BY <2>2, <2>4 DEF ItemTypes
<1>6. \A n \in 1 .. Len(sent') :
        \/ n \in 1 .. Len(sent) \/ n \in Len(sent) + 1 .. base
        \/ \E m \in 1 .. Len(types) : n = base + m
        \/ n = Len(sent')
  <2> SUFFICES ASSUME NEW n \in 1 .. Len(sent'), n \notin 1 .. Len(sent),
                      n \notin Len(sent) + 1 .. base, n # Len(sent')
               PROVE  \E m \in 1 .. Len(types) : n = base + m
    OBVIOUS
  <2>1. n - base \in 1 .. Len(types) /\ n = base + (n - base)
    BY <1>1
  <2> QED
    BY <2>1
<1>7. Positions("completed")' = {n \in 1 .. Len(sent') : sent'[n].type = "completed"}
  BY <1>1 DEF Positions
<1>8. Positions("completed") = {n \in 1 .. Len(sent) : sent[n].type = "completed"}
  BY <1>1 DEF Positions
<1>9. ASSUME NEW n \in 1 .. Len(sent')
      PROVE  sent'[n].type = "completed" <=>
               n \in Positions("completed") \/ (n = Len(sent') /\ out.type = "completed")
  <2>1. n \in 1 .. Len(sent) => n # Len(sent')
    BY <1>1
  <2> QED
    BY <1>2, <1>3, <1>4, <1>5, <1>6, <1>8, <2>1
<1>10. \A n \in Positions("completed") : n \in 1 .. Len(sent')
  BY <1>3, <1>8
<1>11. Len(sent') \in 1 .. Len(sent')
  BY <1>1
<1> QED
  BY <1>1, <1>2, <1>7, <1>9, <1>10, <1>11

\* What a relayed event makes of the events of an item: k is its own place, a and
\* c are those of the two injected events that matter here.
LEMMA RelayItems ==
  ASSUME EventsTypeOK, RelayEvent
  PROVE  \E o \in StreamStates, k \in Nat, a \in Nat, c \in Nat :
           /\ o = Observed(state, Coming)
           /\ k = Len(sent') /\ Len(sent) < k /\ Len(sent) < c
           /\ Coming.type \in DeltaTypes /\ ~o.outputAdded => Len(sent) < a /\ a < k
           /\ \A i, n : n \in About(Added, i)' <=>
                \/ n \in About(Added, i)
                \/ /\ n = a /\ Coming.type \in DeltaTypes /\ ~o.outputAdded /\ o.outputIndex = i
                \/ n = k /\ Coming.type = Added /\ Coming.item = i
           /\ \A i, n : n \in About(Closed, i)' <=>
                \/ n \in About(Closed, i)
                \/ /\ n = c /\ Coming.type = "completed" /\ (DOMAIN o.items # {} \/ o.text)
                   /\ ~o.outputDone /\ o.outputIndex = i
                \/ n = k /\ Coming.type = Closed /\ Coming.item = i
           /\ \A i, n : n \in Deltas(i)' <=>
                n \in Deltas(i) \/ (n = k /\ Coming.type \in DeltaTypes /\ Coming.item = i)
           /\ Positions("completed")' = Positions("completed") \cup
                                          (IF Coming.type = "completed" THEN {k} ELSE {})
           /\ Coming.type = "completed" => sent'[k].output \in {Items, Snapshot(o)}
           /\ state'.outputAdded <=> o.outputAdded \/ Coming.type \in DeltaTypes
           /\ state'.outputDone <=>
                \/ o.outputDone
                \/ Coming.type = "completed" /\ (DOMAIN o.items # {} \/ o.text)
           /\ state'.text = o.text /\ state'.items = o.items
           /\ state'.outputIndex = o.outputIndex
           /\ place # End /\ Coming.type \notin upstream.omits /\ Onward /\ UNCHANGED upstream
<1>0. upstream \in Upstreams /\ place \in InScript \cup {End} /\ place # End
      /\ state \in StreamStates /\ sent \in Seq(Says)
  BY DEF EventsTypeOK, RelayEvent
<1>1. PICK o \in StreamStates, types \in Seq(Injectable), base \in Nat, out \in Says :
           /\ o = Observed(state, Coming) /\ types = Lifecycle(o, Coming)
           /\ out \in PassedOn(o, Coming)
           /\ Adds(base, types, o.outputIndex, out)
           /\ sent' \in Seq(Says) /\ state' = Injected(o, types)
           /\ place # End /\ Coming.type \notin upstream.omits /\ Coming.type # "created"
           /\ Onward /\ UNCHANGED upstream
  BY RelayDoes
<1>2. types \in Seq(ItemTypes)
  <2>1. \A n \in 1 .. Len(types) : types[n] \in ItemTypes
    BY DEF Injectable
  <2> QED
    BY <2>1
<1>3. PICK k : k = base + Len(types) + 1
  OBVIOUS
<1>4. /\ k \in Nat /\ k = Len(sent') /\ base >= Len(sent) /\ Len(types) \in Nat
      /\ Len(sent) \in Nat /\ base < k
  <2>1. Len(types) \in Nat /\ Len(sent) \in Nat
    BY <1>0, <1>2
  <2>2. Len(sent') = base + Len(types) + 1 /\ base >= Len(sent)
    BY <1>1 DEF Adds
  <2> QED
    BY <1>3, <2>1, <2>2
<1>5. \A type, i : type # "created" =>
        \A n : n \in About(type, i)' <=>
                  \/ n \in About(type, i)
                  \/ o.outputIndex = i /\ n \in Nat /\ n - base \in At(types, type)
                  \/ n = k /\ out.type = type /\ out.item = i
  <2> SUFFICES ASSUME NEW type, NEW i, type # "created"
               PROVE  \A n : n \in About(type, i)' <=>
                        \/ n \in About(type, i)
                        \/ o.outputIndex = i /\ n \in Nat /\ n - base \in At(types, type)
                        \/ n = k /\ out.type = type /\ out.item = i
    OBVIOUS
  <2>1. Adds(base, types, o.outputIndex, out) /\ sent \in Seq(Says) /\ sent' \in Seq(Says)
    BY <1>0, <1>1
  <2>2. PICK item : item = o.outputIndex
    OBVIOUS
  <2>3. Adds(base, types, item, out)
    BY <2>1, <2>2
  <2>4. Gains(base, types, item, out, type, i)
    BY <1>2, <2>1, <2>3, AddsAbout
  <2> QED
    BY <1>3, <2>2, <2>4 DEF Gains
<1>6. /\ out.type = Coming.type
      /\ Coming.type # "completed" => out.item = Coming.item
      /\ Coming.type = "completed" => out.output \in {Items, Snapshot(o)}
  BY <1>1 DEF PassedOn
<1>7. Added # "completed" /\ Closed # "completed" /\ Added # "created" /\ Closed # "created"
      /\ "completed" \notin DeltaTypes /\ "created" \notin DeltaTypes
  BY DEF Added, Closed, DeltaTypes
<1>8. \E a \in Nat : /\ Coming.type \in DeltaTypes /\ ~o.outputAdded => Len(sent) < a /\ a < k
                     /\ \A n \in Nat : n - base \in At(types, Added) <=>
                          n = a /\ Coming.type \in DeltaTypes /\ ~o.outputAdded
  <2>1. CASE Coming.type \in DeltaTypes /\ ~o.outputAdded
    <3>1. At(types, Added) = {1}
      BY <1>1, <2>1, LifecycleDoes
    <3>2. 1 \in 1 .. Len(types)
      BY <3>1 DEF At
    <3>3. base + 1 \in Nat /\ Len(sent) < base + 1 /\ base + 1 < k
      BY <1>3, <1>4, <3>2
    <3>4. \A n \in Nat : n - base = 1 <=> n = base + 1
      OBVIOUS
    <3> QED
      BY <2>1, <3>1, <3>3, <3>4
  <2>2. CASE ~(Coming.type \in DeltaTypes /\ ~o.outputAdded)
    <3>1. At(types, Added) = {}
      BY <1>1, <2>2, LifecycleDoes
    <3> QED
      BY <2>2, <3>1
  <2> QED
    BY <2>1, <2>2
<1>9. PICK a \in Nat : /\ Coming.type \in DeltaTypes /\ ~o.outputAdded => Len(sent) < a /\ a < k
                      /\ \A n \in Nat : n - base \in At(types, Added) <=>
                           n = a /\ Coming.type \in DeltaTypes /\ ~o.outputAdded
  BY <1>8
<1> DEFINE closes == /\ Coming.type = "completed" /\ (DOMAIN o.items # {} \/ o.text)
                     /\ ~o.outputDone
<1>10. \E c \in Nat : /\ Len(sent) < c
                      /\ \A n \in Nat : n - base \in At(types, Closed) <=> n = c /\ closes
  <2>1. CASE closes
    <3>1. PICK m \in Nat : At(types, Closed) = {m}
      BY <1>1, <2>1, LifecycleDoes
    <3>2. m \in 1 .. Len(types)
      BY <3>1 DEF At
    <3>3. base + m \in Nat /\ Len(sent) < base + m
      BY <1>1, <1>4, <3>2
    <3>4. \A n \in Nat : n - base = m <=> n = base + m
      BY <1>1, <3>2
    <3> QED
      BY <2>1, <3>1, <3>3, <3>4
  <2>2. CASE ~closes
    <3>1. At(types, Closed) = {}
      BY <1>1, <2>2, LifecycleDoes
    <3>2. Len(sent) + 1 \in Nat /\ Len(sent) < Len(sent) + 1
      BY <1>4
    <3> QED
      BY <2>2, <3>1, <3>2
  <2> QED
    BY <2>1, <2>2
<1>11. PICK c \in Nat : /\ Len(sent) < c
                       /\ \A n \in Nat : n - base \in At(types, Closed) <=> n = c /\ closes
  BY <1>10
<1>12. \A i, n : n \in About(Added, i)' <=>
                \/ n \in About(Added, i)
                \/ /\ n = a /\ Coming.type \in DeltaTypes /\ ~o.outputAdded /\ o.outputIndex = i
                \/ n = k /\ Coming.type = Added /\ Coming.item = i
  <2> SUFFICES ASSUME NEW i, NEW n
               PROVE  n \in About(Added, i)' <=>
                \/ n \in About(Added, i)
                \/ /\ n = a /\ Coming.type \in DeltaTypes /\ ~o.outputAdded /\ o.outputIndex = i
                \/ n = k /\ Coming.type = Added /\ Coming.item = i
    OBVIOUS
  <2>1. n \in About(Added, i)' <=>
                  \/ n \in About(Added, i)
                  \/ o.outputIndex = i /\ n \in Nat /\ n - base \in At(types, Added)
                  \/ n = k /\ out.type = Added /\ out.item = i
    BY <1>5, <1>7
  <2>2. out.type = Added <=> Coming.type = Added
    BY <1>6
  <2>3. Coming.type = Added => out.item = Coming.item
    BY <1>6, <1>7
  <2>4. n \in Nat => (n - base \in At(types, Added) <=>
                         n = a /\ Coming.type \in DeltaTypes /\ ~o.outputAdded)
    BY <1>9
  <2> QED
    BY <1>9, <2>1, <2>2, <2>3, <2>4
<1>13. \A i, n : n \in About(Closed, i)' <=>
                \/ n \in About(Closed, i)
                \/ n = c /\ closes /\ o.outputIndex = i
                \/ n = k /\ Coming.type = Closed /\ Coming.item = i
  <2> SUFFICES ASSUME NEW i, NEW n
               PROVE  n \in About(Closed, i)' <=>
                        \/ n \in About(Closed, i)
                        \/ n = c /\ closes /\ o.outputIndex = i
                        \/ n = k /\ Coming.type = Closed /\ Coming.item = i
    OBVIOUS
  <2>1. n \in About(Closed, i)' <=>
                  \/ n \in About(Closed, i)
                  \/ o.outputIndex = i /\ n \in Nat /\ n - base \in At(types, Closed)
                  \/ n = k /\ out.type = Closed /\ out.item = i
    BY <1>5, <1>7
  <2>2. out.type = Closed <=> Coming.type = Closed
    BY <1>6
  <2>3. Coming.type = Closed => out.item = Coming.item
    BY <1>6, <1>7
  <2>4. n \in Nat => (n - base \in At(types, Closed) <=> n = c /\ closes)
    BY <1>11
  <2> HIDE DEF closes
  <2> QED
    BY <1>11, <2>1, <2>2, <2>3, <2>4
<1>14. ASSUME NEW type \in DeltaTypes
       PROVE  \A i, n : n \in About(type, i)' <=>
                n \in About(type, i) \/ (n = k /\ Coming.type = type /\ Coming.item = i)
  <2>1. At(types, type) = {}
    <3>1. \A n \in 1 .. Len(types) : types[n] # type
      BY DEF Injectable
    <3> QED
      BY <3>1 DEF At
  <2> QED
    BY <1>5, <1>6, <1>7, <2>1
<1>15. \A i, n : n \in Deltas(i)' <=>
                n \in Deltas(i) \/ (n = k /\ Coming.type \in DeltaTypes /\ Coming.item = i)
  <2>1. "output_text.delta" \in DeltaTypes /\ "function_call_arguments.delta" \in DeltaTypes
        /\ (Coming.type \in DeltaTypes <=> \/ Coming.type = "output_text.delta"
                                          \/ Coming.type = "function_call_arguments.delta")
    BY DEF DeltaTypes
  <2> QED
    BY <1>14, <2>1 DEF Deltas
<1>16. /\ Positions("completed")' = Positions("completed") \cup
                                      (IF Coming.type = "completed" THEN {k} ELSE {})
       /\ sent'[k] = out
  BY <1>0, <1>1, <1>2, <1>3, <1>4, <1>6, AddsCompleted
<1>17. /\ state'.outputAdded <=> o.outputAdded \/ At(types, Added) # {}
       /\ state'.outputDone <=> o.outputDone \/ At(types, Closed) # {}
       /\ state'.text = o.text /\ state'.items = o.items
       /\ state'.outputIndex = o.outputIndex
  BY <1>1, <1>2, InjectedDoes DEF Added, Closed
<1>18. /\ ~o.outputAdded => (At(types, Added) # {} <=> Coming.type \in DeltaTypes)
       /\ Coming.type \notin DeltaTypes => At(types, Added) = {}
       /\ ~o.outputDone => (At(types, Closed) # {} <=> closes)
       /\ ~closes => At(types, Closed) = {}
  <2>1. {1} # {} /\ \A n \in Nat : {n} # {}
    OBVIOUS
  <2> QED
    BY <1>1, <2>1, LifecycleDoes
<1>19. /\ state'.outputAdded <=> o.outputAdded \/ Coming.type \in DeltaTypes
       /\ state'.outputDone <=>
                \/ o.outputDone
                \/ Coming.type = "completed" /\ (DOMAIN o.items # {} \/ o.text)
  <2>1. state'.outputAdded <=> o.outputAdded \/ Coming.type \in DeltaTypes
    <3>1. CASE o.outputAdded
      BY <1>17, <3>1
    <3>2. CASE ~o.outputAdded
      BY <1>17, <1>18, <3>2
    <3> QED
      BY <3>1, <3>2
  <2>2. state'.outputDone <=>
                \/ o.outputDone
                \/ Coming.type = "completed" /\ (DOMAIN o.items # {} \/ o.text)
    <3>1. CASE o.outputDone
      BY <1>17, <3>1
    <3>2. CASE ~o.outputDone
      BY <1>17, <1>18, <3>2
    <3> QED
      BY <3>1, <3>2
  <2> QED
    BY <2>1, <2>2
<1>20. o = Observed(state, Coming) /\ k \in Nat /\ o \in StreamStates
       /\ Coming.type \notin upstream.omits /\ Onward /\ UNCHANGED upstream
  BY <1>1, <1>4
<1>21. k = Len(sent') /\ Len(sent) < k
  BY <1>4
<1>22. Coming.type = "completed" => sent'[k].output \in {Items, Snapshot(o)}
  BY <1>6, <1>16
<1>23. Coming.type \in DeltaTypes /\ ~o.outputAdded => Len(sent) < a /\ a < k
  BY <1>9
<1>24. Len(sent) < c
  BY <1>11
<1> WITNESS o \in StreamStates, k \in Nat, a \in Nat, c \in Nat
<1>25. Positions("completed")' = Positions("completed") \cup
                                  (IF Coming.type = "completed" THEN {k} ELSE {})
  BY <1>16
<1>26. state'.text = o.text /\ state'.items = o.items /\ state'.outputIndex = o.outputIndex
  BY <1>17
<1> QED
  BY <1>0, <1>12, <1>13, <1>15, <1>19, <1>20, <1>21, <1>22, <1>23, <1>24, <1>25, <1>26, ZenonT(60)

\* An event that is about no item changes nothing of the items.
LEMMA SilentKeeps ==
  ASSUME sent \in Seq(Says), sent' \in Seq(Says), Len(sent') >= Len(sent),
         \A n \in 1 .. Len(sent) : sent'[n] = sent[n],
         \A n \in Len(sent) + 1 .. Len(sent') :
            sent'[n].type \in Progress \cup {"failed"}
  PROVE  /\ \A i : /\ About(Added, i)' = About(Added, i) /\ About(Closed, i)' = About(Closed, i)
                   /\ Deltas(i)' = Deltas(i)
         /\ Positions("completed")' = Positions("completed")
<1>1. /\ DOMAIN sent = 1 .. Len(sent) /\ DOMAIN sent' = 1 .. Len(sent')
      /\ Len(sent) \in Nat /\ Len(sent') \in Nat
  OBVIOUS
<1>2. \A n \in 1 .. Len(sent') : n \in 1 .. Len(sent) \/ n \in Len(sent) + 1 .. Len(sent')
  BY <1>1
<1>3. \A n \in 1 .. Len(sent) : n \in 1 .. Len(sent')
  BY <1>1
<1>4. ASSUME NEW type, type \notin Progress \cup {"failed"}
      PROVE  Positions(type)' = Positions(type)
  <2>1. Positions(type)' = {n \in 1 .. Len(sent') : sent'[n].type = type}
    BY <1>1 DEF Positions
  <2>2. Positions(type) = {n \in 1 .. Len(sent) : sent[n].type = type}
    BY <1>1 DEF Positions
  <2> QED
    BY <1>2, <1>3, <1>4, <2>1, <2>2
<1>5. ASSUME NEW type, type \notin Progress \cup {"failed"}, NEW i
      PROVE  About(type, i)' = About(type, i)
  <2>1. Positions(type)' = Positions(type) /\ Positions(type) \subseteq 1 .. Len(sent)
    BY <1>1, <1>4, <1>5 DEF Positions
  <2>2. About(type, i)' = {n \in Positions(type)' : sent'[n].item = i}
    BY DEF About
  <2> QED
    BY <2>1, <2>2 DEF About
<1>6. ({Added, Closed, "completed"} \cup DeltaTypes) \cap (Progress \cup {"failed"}) = {}
  BY DEF Added, Closed, DeltaTypes, Progress
<1>7. \A i : About(Added, i)' = About(Added, i) /\ About(Closed, i)' = About(Closed, i)
  BY <1>5, <1>6
<1>8. \A i : Deltas(i)' = Deltas(i)
  <2>1. "output_text.delta" \in DeltaTypes /\ "function_call_arguments.delta" \in DeltaTypes
    BY DEF DeltaTypes
  <2> QED
    BY <1>5, <1>6, <2>1 DEF Deltas
<1>9. Positions("completed")' = Positions("completed")
  BY <1>4, <1>6
<1> QED
  BY <1>7, <1>8, <1>9

\* The other steps: nothing of an item is sent.
LEMMA SilentSteps ==
  ASSUME EventsTypeOK, EventsTypeOK', RelayCreated \/ Omit \/ Fail
  PROVE  /\ place # End /\ UNCHANGED upstream
         /\ \A i : /\ About(Added, i)' = About(Added, i) /\ About(Closed, i)' = About(Closed, i)
                  /\ Deltas(i)' = Deltas(i)
         /\ Positions("completed")' = Positions("completed")
         /\ state'.outputAdded = state.outputAdded /\ state'.outputDone = state.outputDone
         /\ state'.text = state.text /\ state'.items = state.items
         /\ state'.outputIndex = state.outputIndex
         /\ \/ place' = End
            \/ Onward /\ Coming.type \in Progress
            \/ Onward /\ Coming.type \in upstream.omits
<1>0. state \in StreamStates /\ sent \in Seq(Says) /\ sent' \in Seq(Says)
      /\ upstream \in Upstreams /\ Len(sent) \in Nat
  BY DEF EventsTypeOK
<1>1. /\ place # End /\ UNCHANGED upstream
      /\ state' = state \/ state' = [state EXCEPT !.created = TRUE]
      /\ \/ place' = End
         \/ Onward /\ Coming.type \in Progress
         \/ Onward /\ Coming.type \in upstream.omits
  BY DEF RelayCreated, Omit, Fail, Progress
<1>2. /\ state'.outputAdded = state.outputAdded /\ state'.outputDone = state.outputDone
      /\ state'.text = state.text /\ state'.items = state.items
      /\ state'.outputIndex = state.outputIndex
  BY <1>0, <1>1 DEF StreamStates
<1>3. /\ Len(sent') >= Len(sent)
      /\ \A n \in 1 .. Len(sent) : sent'[n] = sent[n]
      /\ \A n \in Len(sent) + 1 .. Len(sent') : sent'[n].type \in Progress \cup {"failed"}
  <2>1. CASE RelayCreated
    <3>1. sent' = Append(sent, Coming) /\ Coming.type = "created"
      BY <2>1 DEF RelayCreated
    <3>2. Len(sent') = Len(sent) + 1 /\ sent'[Len(sent) + 1] = Coming
          /\ \A n \in 1 .. Len(sent) : sent'[n] = sent[n]
      BY <1>0, <3>1
    <3>3. \A n \in Len(sent) + 1 .. Len(sent') : n = Len(sent) + 1
      BY <1>0, <3>2
    <3> QED
      BY <1>0, <3>1, <3>2, <3>3 DEF Progress
  <2>2. CASE Omit
    BY <1>0, <2>2 DEF Omit
  <2>3. CASE Fail
    <3>1. PICK c : c = IF state.created THEN <<>> ELSE <<Event("created", NoItem)>>
      OBVIOUS
    <3>2. c \in Seq(Says) /\ \A n \in 1 .. Len(c) : c[n].type = "created"
      <4>1. Event("created", NoItem) \in Says /\ Event("created", NoItem).type = "created"
        BY DEF Event, Says, NoItem
      <4>2. CASE c = <<>>
        BY <4>2, EmptySeq
      <4>3. CASE c = <<Event("created", NoItem)>>
        BY <4>1, <4>3
      <4> QED
        BY <3>1, <4>2, <4>3
    <3>3. PICK f : f = Event("failed", NoItem)
      OBVIOUS
    <3>4. f \in Says /\ f.type = "failed"
      BY <3>3 DEF Event, Says, NoItem
    <3>5. sent' = sent \o c \o <<f>>
      BY <2>3, <3>1, <3>3 DEF Fail
    <3>6. sent \o c \in Seq(Says)
      BY <1>0, <3>2, ConcatProperties
    <3>7. PICK x \in Seq(Says) : x = sent \o c
      BY <3>6
    <3>8. /\ Len(x) = Len(sent) + Len(c) /\ Len(x) \in Nat /\ Len(c) \in Nat
          /\ \A n \in 1 .. Len(sent) : x[n] = sent[n]
          /\ \A n \in Len(sent) + 1 .. Len(x) : x[n].type = "created"
      <4>1. /\ Len(x) = Len(sent) + Len(c) /\ Len(x) \in Nat /\ Len(c) \in Nat
            /\ \A n \in 1 .. Len(sent) : x[n] = sent[n]
            /\ \A n \in 1 .. Len(c) : x[Len(sent) + n] = c[n]
        BY <1>0, <3>2, <3>7
      <4>2. \A n \in Len(sent) + 1 .. Len(x) :
               n - Len(sent) \in 1 .. Len(c) /\ n = Len(sent) + (n - Len(sent))
        BY <1>0, <4>1
      <4> SUFFICES ASSUME NEW l \in Len(sent) + 1 .. Len(x) PROVE x[l].type = "created"
        BY <4>1
      <4>3. PICK m \in 1 .. Len(c) : l = Len(sent) + m
        BY <4>2
      <4>4. x[Len(sent) + m] = c[m]
        BY <1>0, <3>2, <3>7
      <4> QED
        BY <3>2, <4>3, <4>4
    <3>9. /\ Len(sent') = Len(x) + 1 /\ sent'[Len(x) + 1] = f
          /\ \A n \in 1 .. Len(x) : sent'[n] = x[n]
      BY <3>4, <3>5, <3>7
    <3>10. \A n \in Len(sent) + 1 .. Len(sent') : n \in 1 .. Len(x) \/ n = Len(x) + 1
      BY <1>0, <3>8, <3>9
    <3>11. \A m \in Len(sent) + 1 .. Len(sent') : sent'[m].type \in Progress \cup {"failed"}
      <4> SUFFICES ASSUME NEW n \in Len(sent) + 1 .. Len(sent')
                   PROVE  sent'[n].type \in Progress \cup {"failed"}
        OBVIOUS
      <4>1. CASE n = Len(x) + 1
        BY <3>4, <3>9, <4>1
      <4>2. CASE n \in 1 .. Len(x)
        <5>1. n \in Len(sent) + 1 .. Len(x)
          BY <1>0, <3>8, <4>2
        <5> QED
          BY <3>8, <3>9, <4>2, <5>1 DEF Progress
      <4> QED
        BY <3>10, <4>1, <4>2
    <3>12. \A n \in 1 .. Len(sent) : n \in 1 .. Len(x)
      BY <1>0, <3>8
    <3> QED
      BY <1>0, <3>8, <3>9, <3>11, <3>12
  <2> QED
    BY <2>1, <2>2, <2>3
<1>4. /\ \A i : /\ About(Added, i)' = About(Added, i) /\ About(Closed, i)' = About(Closed, i)
                /\ Deltas(i)' = Deltas(i)
      /\ Positions("completed")' = Positions("completed")
  BY <1>0, <1>3, SilentKeeps
<1> QED
  BY <1>1, <1>2, <1>4

-----------------------------------------------------------------------------
(* The invariant *)

\* Of the events of an item: it is announced at most once, closed at most once,
\* and every delta has its announcement before it.
ItemsInv ==
    \A i \in Items :
        /\ \A m, n \in About(Added, i) : m = n
        /\ \A m, n \in About(Closed, i) : m = n
        /\ \A n \in Deltas(i) : \E m \in About(Added, i) : m < n

\* Nothing is completed before the end; what is, is the last that is sent and
\* tells of every item that had output, and each of these has been closed.
FinalInv ==
    /\ place # End => Positions("completed") = {}
    /\ \A n \in Positions("completed") :
         /\ n = Len(sent)
         /\ \A i \in Items :
              Deltas(i) # {} => About(Closed, i) # {} /\ i \in sent[n].output

\* With one item, the flags tell what was sent of it.
OneItem ==
    /\ state.outputAdded <=> About(Added, 1) # {}
    /\ state.outputDone <=> About(Closed, 1) # {}
    /\ place[1] = 0 \/ place = <<1, 1>> => ~state.outputAdded
    /\ place[1] <= 1 => ~state.outputDone
    /\ Deltas(1) # {} => state.text \/ DOMAIN state.items # {}
    /\ state.text \/ DOMAIN state.items # {} => state.outputIndex = 1

Begun(i) == place[1] > i \/ (place[1] = i /\ place[2] > 1)

\* With nothing left out of the items, what was sent of an item is what the
\* upstream has said of it, and the flags are set from the first item on.
Complete ==
    \A i \in Items :
        /\ About(Added, i) # {} <=> Begun(i)
        /\ About(Closed, i) # {} <=> place[1] > i
        /\ Begun(i) => state.outputAdded /\ i \in DOMAIN state.items
        /\ place[1] > i => state.outputDone

EventsInv ==
    /\ EventsTypeOK
    /\ ItemsInv
    /\ FinalInv
    /\ IF Len(upstream.kinds) = 1 THEN OneItem ELSE place # End => Complete

LEMMA InitEvents == EventsInit => EventsInv
<1> SUFFICES ASSUME EventsInit PROVE EventsInv
  OBVIOUS
<1>1. EventsTypeOK
  BY InitEventTypes
<1>2. /\ place = <<0, 1>> /\ sent = <<>> /\ upstream \in Upstreams
      /\ ~state.outputAdded /\ ~state.outputDone /\ ~state.text /\ state.items = <<>>
  BY DEF EventsInit, NoItem
<1>3. /\ \A type : Positions(type) = {}
      /\ \A type, i : About(type, i) = {}
      /\ \A i : Deltas(i) = {}
  BY <1>2 DEF Positions, About, Deltas
<1>4. ItemsInv /\ FinalInv
  BY <1>3 DEF ItemsInv, FinalInv
<1>5. OneItem
  <2>1. DOMAIN state.items = {}
    BY <1>2
  <2> QED
    BY <1>2, <1>3, <2>1 DEF OneItem
<1>6. Complete
  <2>1. \A i \in Items : ~(place[1] > i) /\ ~Begun(i)
    BY <1>2, KindsType DEF Begun
  <2> QED
    BY <1>3, <2>1 DEF Complete
<1> QED
  BY <1>1, <1>4, <1>5, <1>6 DEF EventsInv

LEMMA SilentInv ==
  ASSUME EventsInv, EventsTypeOK', Supports(upstream), RelayCreated \/ Omit \/ Fail
  PROVE  EventsInv'
<1> DEFINE L == Len(upstream.kinds)
<1>0. /\ EventsTypeOK /\ ItemsInv /\ FinalInv
      /\ IF L = 1 THEN OneItem ELSE place # End => Complete
      /\ upstream \in Upstreams /\ place \in InScript \cup {End} /\ state \in StreamStates
  BY DEF EventsInv, EventsTypeOK
<1>1. /\ place # End /\ UNCHANGED upstream
      /\ \A i : /\ About(Added, i)' = About(Added, i) /\ About(Closed, i)' = About(Closed, i)
               /\ Deltas(i)' = Deltas(i)
      /\ Positions("completed")' = Positions("completed")
      /\ state'.outputAdded = state.outputAdded /\ state'.outputDone = state.outputDone
      /\ state'.text = state.text /\ state'.items = state.items
      /\ state'.outputIndex = state.outputIndex
      /\ \/ place' = End
         \/ Onward /\ Coming.type \in Progress
         \/ Onward /\ Coming.type \in upstream.omits
  BY <1>0, SilentSteps
<1>2. Items' = Items /\ End' = End /\ Len(upstream.kinds)' = L
  BY <1>1 DEF Items, End
<1>3. ItemsInv'
  BY <1>0, <1>1, <1>2 DEF ItemsInv
<1>4. FinalInv'
  BY <1>0, <1>1 DEF FinalInv
<1>5. L \in Nat \ {0} /\ Items = 1 .. L /\ End = <<L + 2, 1>> /\ place[1] \in Nat
      /\ place = <<place[1], place[2]>>
  BY <1>0, <1>1, KindsType, ComingCases DEF End
<1>p. CASE Onward /\ place' # End
  <2> DEFINE p == place[1]
  <2>1. \/ /\ p = 0 /\ Coming.type \in Progress
           /\ place' = <<0, 2>> \/ place' = <<1, 1>>
        \/ /\ p \in Items /\ Coming.item = p /\ Coming.type \in ItemTypes
           /\ place[2] \in Nat \ {0}
           /\ \/ place' = <<p + 1, 1>>
              \/ place' = <<p, place[2] + 1>>
        \/ /\ p = L + 1 /\ Coming.type = "completed" /\ place' = End
    BY <1>0, <1>1, <1>p, PlaceStep
  <2>2. CASE L = 1
    <3>1. place[1]' = 0 \/ place' = <<1, 1>> => place[1] = 0
      BY <1>5, <2>1, <2>2
    <3>2. place[1]' <= 1 => place[1] <= 1
      BY <1>5, <2>1, <2>2
    <3>3. OneItem'
      BY <1>0, <1>1, <2>2, <3>1, <3>2 DEF OneItem
    <3> QED
      BY <1>0, <1>1, <1>2, <1>3, <1>4, <2>2, <3>3 DEF EventsInv
  <2>3. CASE L # 1
    <3>1. Coming.type \in Progress
      <4>1. upstream.omits \subseteq Progress
        BY <2>3 DEF Supports
      <4> QED
        BY <1>1, <1>p, <4>1, <1>5, <2>1
    <3>2. p = 0 /\ (place' = <<0, 2>> \/ place' = <<1, 1>>)
      BY <2>1, <3>1 DEF Progress, ItemTypes
    <3>3. \A i \in Items : /\ ~Begun(i) /\ ~(place[1] > i)
                           /\ ~Begun(i)' /\ ~(place[1]' > i)
      BY <1>5, <3>2 DEF Begun
    <3>4. Complete'
      BY <1>0, <1>1, <1>2, <2>3, <3>3 DEF Complete
    <3> QED
      BY <1>0, <1>1, <1>2, <1>3, <1>4, <2>3, <3>4 DEF EventsInv
  <2> QED
    BY <2>2, <2>3
<1>e. CASE place' = End
  <2>1. CASE L = 1
    <3>1. OneItem'
      <4>1. ~(place[1]' = 0) /\ place' # <<1, 1>> /\ ~(place[1]' <= 1)
        BY <1>5, <1>e, <2>1
      <4> QED
        BY <1>0, <1>1, <2>1, <4>1 DEF OneItem
    <3> QED
      BY <1>0, <1>1, <1>2, <1>3, <1>4, <2>1, <3>1 DEF EventsInv
  <2>2. CASE L # 1
    BY <1>2, <1>3, <1>4, <1>e, <2>2 DEF EventsInv
  <2> QED
    BY <2>1, <2>2
<1> QED
  BY <1>1, <1>p, <1>e

\* Why a relayed event keeps the invariant: nothing is announced or closed that
\* was before, a delta is not without its announcement, and the end closes what
\* is open and tells of it.
RelaysWell(o) ==
    \A i \in Items :
      /\ Coming.type \in DeltaTypes /\ ~o.outputAdded /\ o.outputIndex = i
           => About(Added, i) = {}
      /\ Coming.type = Added /\ Coming.item = i => About(Added, i) = {}
      /\ Coming.type = "completed" /\ ~o.outputDone /\ o.outputIndex = i
           /\ (DOMAIN o.items # {} \/ o.text)
           => About(Closed, i) = {}
      /\ Coming.type = Closed /\ Coming.item = i => About(Closed, i) = {}
      /\ Coming.type \in DeltaTypes /\ Coming.item = i
           => About(Added, i) # {} \/ (~o.outputAdded /\ o.outputIndex = i)
      /\ Coming.type = "completed" /\ Deltas(i) # {} =>
           /\ i \in Snapshot(o)
           /\ \/ About(Closed, i) # {}
              \/ ~o.outputDone /\ o.outputIndex = i /\ (DOMAIN o.items # {} \/ o.text)

LEMMA OneRelaysWell ==
  ASSUME EventsTypeOK, RelayEvent, Len(upstream.kinds) = 1, OneItem,
         NEW o, o = Observed(state, Coming)
  PROVE  /\ RelaysWell(o)
         /\ DOMAIN o.items \subseteq {1}
         /\ o.text \/ DOMAIN o.items # {} => o.outputIndex = 1
         /\ Coming.type \in DeltaTypes => o.text \/ DOMAIN o.items # {}
<1>0. upstream \in Upstreams /\ place \in InScript \cup {End} /\ place # End
      /\ state \in StreamStates /\ Onward /\ UNCHANGED upstream
  BY DEF EventsTypeOK, RelayEvent
<1>1. Items = {1} /\ NoItem = 0
  BY <1>0, KindsType
<1>2. /\ o \in StreamStates
      /\ o.outputAdded <=> state.outputAdded \/ Coming.type = Added
      /\ o.outputDone <=> state.outputDone \/ Coming.type = Closed
      /\ o.text <=> state.text \/ Coming.type = "output_text.delta"
      /\ o.outputIndex = IF Coming.item # NoItem THEN Coming.item ELSE state.outputIndex
      /\ DOMAIN o.items = DOMAIN state.items \cup Names(Coming)
  BY <1>0, ComingType, KindsType, ObservedDoes DEF Added, Closed
<1>3. /\ Coming.item = (IF Coming.type \in ItemTypes THEN 1 ELSE 0)
      /\ Coming.type \in ItemTypes <=> place[1] = 1
  BY <1>0, <1>1, ComingType
<1>4. /\ Coming.type = Added => place = <<1, 1>>
      /\ Coming.type = Closed => place[1] <= 1
  <2>1. Added \in ItemTypes /\ Closed \in ItemTypes
    BY DEF Added, Closed, ItemTypes
  <2>2. /\ place = <<place[1], place[2]>>
        /\ place[1] \in Items => (Coming.type = Added <=> place[2] = 1)
    <3>1. \A i \in Items : i # 0 /\ i # Len(upstream.kinds) + 1
      BY <1>1
    <3> QED
      BY <1>0, <3>1, PlaceStep
  <2> QED
    BY <1>1, <1>3, <2>1, <2>2
<1>5. /\ DeltaTypes \subseteq ItemTypes /\ Added \in ItemTypes /\ Closed \in ItemTypes
      /\ "completed" \notin ItemTypes /\ Added \notin DeltaTypes /\ Closed \notin DeltaTypes
      /\ Added # Closed
  BY DEF DeltaTypes, ItemTypes, Added, Closed
<1>6. Coming.type \notin ItemTypes => Names(Coming) = {} /\ Coming.type # "output_text.delta"
  BY DEF Names, ItemTypes
<1>7. o.text \/ DOMAIN o.items # {} => o.outputIndex = 1
  BY <1>1, <1>2, <1>3, <1>6 DEF OneItem
<1>8. Coming.type \in DeltaTypes => o.text \/ DOMAIN o.items # {}
  <2>1. CASE Coming.type = "output_text.delta"
    BY <1>2, <2>1
  <2>2. CASE Coming.type = "function_call_arguments.delta"
    <3>1. Names(Coming) # {}
      BY <2>2 DEF Names
    <3> QED
      BY <1>2, <3>1
  <2> QED
    BY <2>1, <2>2 DEF DeltaTypes
<1>9. DOMAIN o.items \subseteq {1}
  BY <1>1, <1>2 DEF StreamStates, ItemMaps
<1>10. ASSUME Coming.type = "completed", Deltas(1) # {}
       PROVE  /\ o.text \/ DOMAIN o.items # {}
              /\ o.outputIndex = 1 /\ 1 \in Snapshot(o)
              /\ About(Closed, 1) # {} \/ ~o.outputDone
  <2>1. o.text \/ DOMAIN o.items # {}
    BY <1>2, <1>10 DEF OneItem
  <2>2. 1 \in Snapshot(o)
    <3>1. CASE DOMAIN o.items # {}
      BY <1>9, <3>1 DEF Snapshot
    <3>2. CASE DOMAIN o.items = {}
      BY <1>7, <2>1, <3>2 DEF Snapshot
    <3> QED
      BY <3>1, <3>2
  <2>3. About(Closed, 1) # {} \/ ~o.outputDone
    BY <1>2, <1>5, <1>10 DEF OneItem
  <2> QED
    BY <1>7, <2>1, <2>2, <2>3
<1>11. RelaysWell(o)
  <2> SUFFICES
      /\ Coming.type \in DeltaTypes /\ ~o.outputAdded => About(Added, 1) = {}
      /\ Coming.type = Added => About(Added, 1) = {}
      /\ Coming.type = "completed" /\ ~o.outputDone => About(Closed, 1) = {}
      /\ Coming.type = Closed => About(Closed, 1) = {}
      /\ Coming.type \in DeltaTypes
           => About(Added, 1) # {} \/ (~o.outputAdded /\ o.outputIndex = 1)
    BY <1>1, <1>7, <1>10 DEF RelaysWell
  <2>1. Coming.type \in DeltaTypes /\ ~o.outputAdded => About(Added, 1) = {}
    BY <1>2 DEF OneItem
  <2>2. Coming.type = Added => About(Added, 1) = {}
    BY <1>4 DEF OneItem
  <2>3. Coming.type = "completed" /\ ~o.outputDone => About(Closed, 1) = {}
    BY <1>2 DEF OneItem
  <2>4. Coming.type = Closed => About(Closed, 1) = {}
    BY <1>4 DEF OneItem
  <2>5. Coming.type \in DeltaTypes
           => About(Added, 1) # {} \/ (~o.outputAdded /\ o.outputIndex = 1)
    BY <1>2, <1>5, <1>7, <1>8 DEF OneItem
  <2> QED
    BY <2>1, <2>2, <2>3, <2>4, <2>5
<1> QED
  BY <1>7, <1>8, <1>9, <1>11

LEMMA CompleteRelaysWell ==
  ASSUME EventsTypeOK, RelayEvent, Complete, NEW o, o = Observed(state, Coming)
  PROVE  RelaysWell(o)
<1> DEFINE p == place[1] L == Len(upstream.kinds)
<1>0. upstream \in Upstreams /\ place \in InScript \cup {End} /\ place # End
      /\ state \in StreamStates /\ Onward /\ UNCHANGED upstream
  BY DEF EventsTypeOK, RelayEvent
<1>1. Items = 1 .. L /\ NoItem = 0 /\ L \in Nat \ {0} /\ p \in Nat /\ place[2] \in Nat \ {0}
      /\ \A i \in Items : i # 0 /\ i # L + 1
  BY <1>0, KindsType, ComingCases
<1>2. /\ o \in StreamStates
      /\ o.outputAdded <=> state.outputAdded \/ Coming.type = Added
      /\ o.outputDone <=> state.outputDone \/ Coming.type = Closed
      /\ DOMAIN o.items = DOMAIN state.items \cup Names(Coming)
  BY <1>0, ComingType, KindsType, ObservedDoes DEF Added, Closed
<1>5. /\ DeltaTypes \subseteq ItemTypes /\ Added \in ItemTypes /\ Closed \in ItemTypes
      /\ "completed" \notin ItemTypes /\ Added \notin DeltaTypes /\ Closed \notin DeltaTypes
      /\ Progress \cap ItemTypes = {} /\ "completed" \notin Progress
  BY DEF DeltaTypes, ItemTypes, Added, Closed, Progress
<1>3. ASSUME Coming.type \in ItemTypes
      PROVE  /\ p \in Items /\ Coming.item = p
             /\ Coming.type = Added <=> place[2] = 1
             /\ Coming.type \in DeltaTypes => place[2] > 1
  <2>1. \/ p = 0 /\ Coming.type \in Progress
        \/ /\ p \in Items /\ Coming.item = p
           /\ Coming.type = Added <=> place[2] = 1
           /\ Coming.type \in DeltaTypes => place[2] > 1
        \/ Coming.type = "completed"
    BY <1>0, PlaceStep
  <2> QED
    BY <1>3, <1>5, <2>1
<1>4. ASSUME Coming.type = "completed"
      PROVE  p = L + 1 /\ \A i \in Items : p > i
  <2>1. \/ p = 0 /\ Coming.type \in Progress
        \/ p \in Items /\ Coming.type \in ItemTypes
        \/ p = L + 1
    BY <1>0, PlaceStep
  <2>2. p = L + 1
    BY <1>4, <1>5, <2>1
  <2> QED
    BY <1>1, <2>2
<1>6. ASSUME NEW i \in Items, Coming.type \in DeltaTypes
      PROVE  o.outputAdded /\ (Coming.item = i => About(Added, i) # {})
  <2>1. p \in Items /\ Coming.item = p /\ Begun(p)
    BY <1>3, <1>5, <1>6 DEF Begun
  <2> QED
    BY <1>2, <2>1 DEF Complete
<1>7. ASSUME NEW i \in Items, Coming.type = Added, Coming.item = i
      PROVE  About(Added, i) = {}
  <2>1. p = i /\ place[2] = 1 /\ i \in Nat
    BY <1>1, <1>3, <1>5, <1>7
  <2>2. ~Begun(i)
    BY <2>1 DEF Begun
  <2> QED
    BY <2>2 DEF Complete
<1>8. ASSUME NEW i \in Items, Coming.type = Closed, Coming.item = i
      PROVE  About(Closed, i) = {}
  <2>1. p = i /\ i \in Nat
    BY <1>1, <1>3, <1>5, <1>8
  <2>2. ~(place[1] > i)
    BY <2>1
  <2> QED
    BY <2>2 DEF Complete
<1>9. ASSUME Coming.type = "completed", NEW i \in Items
      PROVE  o.outputDone /\ i \in Snapshot(o) /\ About(Closed, i) # {}
  <2>1. place[1] > i /\ Begun(i)
    BY <1>4, <1>9 DEF Begun
  <2>2. state.outputDone /\ i \in DOMAIN state.items /\ About(Closed, i) # {}
    BY <2>1 DEF Complete
  <2>3. i \in DOMAIN o.items
    BY <1>2, <2>2
  <2> QED
    BY <1>2, <2>2, <2>3 DEF Snapshot
<1> QED
  BY <1>6, <1>7, <1>8, <1>9 DEF RelaysWell

LEMMA RelayInv ==
  ASSUME EventsInv, EventsTypeOK', Supports(upstream), RelayEvent
  PROVE  EventsInv'
<1> DEFINE L == Len(upstream.kinds)
<1>0. /\ EventsTypeOK /\ ItemsInv /\ FinalInv
      /\ IF L = 1 THEN OneItem ELSE place # End => Complete
      /\ upstream \in Upstreams /\ place \in InScript \cup {End} /\ state \in StreamStates
      /\ place # End /\ Onward /\ UNCHANGED upstream /\ sent \in Seq(Says)
  BY DEF EventsInv, EventsTypeOK, RelayEvent
<1>1. PICK o \in StreamStates, k \in Nat, a \in Nat, c \in Nat :
           /\ o = Observed(state, Coming)
           /\ k = Len(sent') /\ Len(sent) < k /\ Len(sent) < c
           /\ Coming.type \in DeltaTypes /\ ~o.outputAdded => Len(sent) < a /\ a < k
           /\ \A i, n : n \in About(Added, i)' <=>
                \/ n \in About(Added, i)
                \/ /\ n = a /\ Coming.type \in DeltaTypes /\ ~o.outputAdded /\ o.outputIndex = i
                \/ n = k /\ Coming.type = Added /\ Coming.item = i
           /\ \A i, n : n \in About(Closed, i)' <=>
                \/ n \in About(Closed, i)
                \/ /\ n = c /\ Coming.type = "completed" /\ (DOMAIN o.items # {} \/ o.text)
                   /\ ~o.outputDone /\ o.outputIndex = i
                \/ n = k /\ Coming.type = Closed /\ Coming.item = i
           /\ \A i, n : n \in Deltas(i)' <=>
                n \in Deltas(i) \/ (n = k /\ Coming.type \in DeltaTypes /\ Coming.item = i)
           /\ Positions("completed")' = Positions("completed") \cup
                                          (IF Coming.type = "completed" THEN {k} ELSE {})
           /\ Coming.type = "completed" => sent'[k].output \in {Items, Snapshot(o)}
           /\ state'.outputAdded <=> o.outputAdded \/ Coming.type \in DeltaTypes
           /\ state'.outputDone <=>
                \/ o.outputDone
                \/ Coming.type = "completed" /\ (DOMAIN o.items # {} \/ o.text)
           /\ state'.text = o.text /\ state'.items = o.items
           /\ state'.outputIndex = o.outputIndex
           /\ place # End /\ Coming.type \notin upstream.omits /\ Onward /\ UNCHANGED upstream
  BY <1>0, RelayItems
<1>2. RelaysWell(o)
  <2>1. CASE L = 1
    BY <1>0, <1>1, <2>1, OneRelaysWell
  <2>2. CASE L # 1
    BY <1>0, <1>1, <2>2, CompleteRelaysWell
  <2> QED
    BY <2>1, <2>2
<1>3. Items' = Items /\ End' = End /\ L' = L
  BY <1>0 DEF Items, End
<1>4. Added \notin DeltaTypes /\ Closed # "completed" /\ "completed" \notin DeltaTypes
  BY DEF Added, Closed, DeltaTypes
<1>5. \A i : \A n \in About(Added, i) : n \in Nat /\ n < k
  <2>1. \A n \in DOMAIN sent : n \in Nat /\ n < k
    BY <1>0, <1>1
  <2> QED
    BY <2>1 DEF About, Positions
<1>6. ItemsInv'
  <2>1. ASSUME NEW i \in Items, NEW m, m \in About(Added, i)', NEW n, n \in About(Added, i)'
        PROVE  m = n
    <3>1. CASE About(Added, i) = {}
      BY <1>1, <1>4, <2>1, <3>1
    <3>2. CASE About(Added, i) # {}
      <4>1. m \in About(Added, i) /\ n \in About(Added, i)
        BY <1>1, <1>2, <2>1, <3>2 DEF RelaysWell
      <4> QED
        BY <1>0, <4>1 DEF ItemsInv
    <3> QED
      BY <3>1, <3>2
  <2>2. ASSUME NEW i \in Items, NEW m, m \in About(Closed, i)', NEW n, n \in About(Closed, i)'
        PROVE  m = n
    <3>1. CASE About(Closed, i) = {}
      BY <1>1, <1>4, <2>2, <3>1
    <3>2. CASE About(Closed, i) # {}
      <4>1. m \in About(Closed, i) /\ n \in About(Closed, i)
        BY <1>1, <1>2, <2>2, <3>2 DEF RelaysWell
      <4> QED
        BY <1>0, <4>1 DEF ItemsInv
    <3> QED
      BY <3>1, <3>2
  <2>3. ASSUME NEW i \in Items, NEW n, n \in Deltas(i)'
        PROVE  \E m \in About(Added, i)' : m < n
    <3>1. CASE n \in Deltas(i)
      <4>1. PICK m \in About(Added, i) : m < n
        BY <1>0, <3>1 DEF ItemsInv
      <4> QED
        BY <1>1, <4>1
    <3>2. CASE n = k /\ Coming.type \in DeltaTypes /\ Coming.item = i
      <4>1. CASE About(Added, i) # {}
        <5>1. PICK m : m \in About(Added, i)
          BY <4>1
        <5> QED
          BY <1>1, <1>5, <3>2, <5>1
      <4>2. CASE About(Added, i) = {}
        <5>1. ~o.outputAdded /\ o.outputIndex = i
          BY <1>2, <3>2, <4>2 DEF RelaysWell
        <5>2. a \in About(Added, i)' /\ a < k
          BY <1>1, <3>2, <5>1
        <5> QED
          BY <3>2, <5>2
      <4> QED
        BY <4>1, <4>2
    <3> QED
      BY <1>1, <2>3, <3>1, <3>2
  <2> QED
    BY <1>3, <2>1, <2>2, <2>3 DEF ItemsInv
<1>7. FinalInv'
  <2>1. Positions("completed") = {}
    BY <1>0 DEF FinalInv
  <2>2. CASE Coming.type # "completed"
    BY <1>1, <2>1, <2>2 DEF FinalInv
  <2>3. CASE Coming.type = "completed"
    <3>1. place' = End'
      <4>1. Coming.type \notin ItemTypes /\ Coming.type \notin Progress
        BY <2>3 DEF ItemTypes, Progress
      <4> QED
        BY <1>0, <1>3, <4>1, PlaceStep
    <3>2. Positions("completed")' = {k}
      BY <1>1, <2>1, <2>3
    <3>3. ASSUME NEW i \in Items, Deltas(i)' # {}
          PROVE  About(Closed, i)' # {} /\ i \in sent'[k].output
      <4>1. Deltas(i) # {}
        BY <1>1, <1>4, <2>3, <3>3
      <4>2. /\ i \in Snapshot(o)
            /\ \/ About(Closed, i) # {}
               \/ ~o.outputDone /\ o.outputIndex = i /\ (DOMAIN o.items # {} \/ o.text)
        BY <1>2, <2>3, <4>1 DEF RelaysWell
      <4>3. i \in sent'[k].output
        BY <1>1, <2>3, <4>2
      <4>4. About(Closed, i)' # {}
        BY <1>1, <2>3, <4>2
      <4> QED
        BY <4>3, <4>4
    <3> QED
      BY <1>1, <1>3, <3>1, <3>2, <3>3 DEF FinalInv
  <2> QED
    BY <2>2, <2>3
<1>8. /\ o.outputAdded <=> state.outputAdded \/ Coming.type = Added
      /\ o.outputDone <=> state.outputDone \/ Coming.type = Closed
      /\ state.text => o.text
      /\ DOMAIN o.items = DOMAIN state.items \cup Names(Coming)
  BY <1>0, <1>1, ComingType, KindsType, ObservedDoes DEF Added, Closed
<1>9. /\ place[1] \in Nat /\ place[2] \in Nat \ {0} /\ place = <<place[1], place[2]>>
      /\ L \in Nat \ {0} /\ Items = 1 .. L /\ End = <<L + 2, 1>>
  BY <1>0, KindsType, ComingCases DEF End
<1>10. \/ /\ place[1] = 0 /\ Coming.type \in Progress
          /\ place' = <<0, 2>> \/ place' = <<1, 1>>
       \/ /\ place[1] \in Items /\ Coming.item = place[1] /\ Coming.type \in ItemTypes
          /\ Coming.type = Added <=> place[2] = 1
          /\ Coming.type \in DeltaTypes => place[2] > 1
          /\ IF Coming.type = Closed THEN place' = <<place[1] + 1, 1>>
             ELSE place' = <<place[1], place[2] + 1>>
       \/ /\ place[1] = L + 1 /\ Coming.type = "completed" /\ place' = End
  BY <1>0, PlaceStep
<1>11. /\ (Progress \cup {"completed"}) \cap ({Added, Closed} \cup DeltaTypes) = {}
       /\ "completed" \notin Progress /\ "completed" \notin ItemTypes /\ Added # Closed
       /\ Added \in ItemTypes /\ Closed \in ItemTypes /\ DeltaTypes \subseteq ItemTypes
       /\ Closed \notin DeltaTypes /\ Progress \cap ItemTypes = {}
  BY DEF Progress, Added, Closed, DeltaTypes, ItemTypes
<1>12. CASE L = 1
  <2>0. /\ OneItem /\ Items = {1}
        /\ Coming.type \in ItemTypes => Coming.item = 1 /\ place[1] = 1
    BY <1>0, <1>9, <1>10, <1>11, <1>12
  <2>1. /\ o.text \/ DOMAIN o.items # {} => o.outputIndex = 1
        /\ Coming.type \in DeltaTypes => o.text \/ DOMAIN o.items # {}
    BY <1>0, <1>1, <1>12, OneRelaysWell
  <2>2. state'.outputAdded <=> About(Added, 1)' # {}
    <3>1. About(Added, 1)' # {} <=>
            \/ About(Added, 1) # {}
            \/ Coming.type \in DeltaTypes /\ ~o.outputAdded
            \/ Coming.type = Added
      BY <1>1, <1>11, <2>0, <2>1
    <3> QED
      BY <1>1, <1>8, <2>0, <3>1 DEF OneItem
  <2>3. state'.outputDone <=> About(Closed, 1)' # {}
    <3>1. About(Closed, 1)' # {} <=>
            \/ About(Closed, 1) # {}
            \/ /\ Coming.type = "completed" /\ (DOMAIN o.items # {} \/ o.text)
               /\ ~o.outputDone
            \/ Coming.type = Closed
      BY <1>1, <1>11, <2>0, <2>1
    <3> QED
      BY <1>1, <1>8, <2>0, <3>1 DEF OneItem
  <2>4. place[1]' = 0 \/ place' = <<1, 1>> => ~state'.outputAdded
    <3>1. SUFFICES ASSUME place[1]' = 0 \/ place' = <<1, 1>> PROVE ~state'.outputAdded
      OBVIOUS
    <3>2. place[1] = 0 /\ Coming.type \in Progress
      BY <1>9, <1>10, <1>12, <3>1
    <3>3. Coming.type # Added /\ Coming.type \notin DeltaTypes
      BY <1>11, <3>2
    <3> QED
      BY <1>1, <1>8, <2>0, <3>2, <3>3 DEF OneItem
  <2>5. place[1]' <= 1 => ~state'.outputDone
    <3>1. SUFFICES ASSUME place[1]' <= 1 PROVE ~state'.outputDone
      OBVIOUS
    <3>2. place[1] <= 1 /\ Coming.type # Closed /\ Coming.type # "completed"
      BY <1>9, <1>10, <1>11, <1>12, <3>1
    <3> QED
      BY <1>1, <1>8, <2>0, <3>2 DEF OneItem
  <2>6. Deltas(1)' # {} => state'.text \/ DOMAIN (state'.items) # {}
    BY <1>1, <1>8, <2>0, <2>1 DEF OneItem
  <2>7. state'.text \/ DOMAIN (state'.items) # {} => state'.outputIndex = 1
    BY <1>1, <2>1
  <2>8. OneItem'
    BY <2>2, <2>3, <2>4, <2>5, <2>6, <2>7 DEF OneItem
  <2> QED
    BY <1>0, <1>3, <1>6, <1>7, <1>12, <2>8 DEF EventsInv
<1>13. CASE L # 1
  <2> SUFFICES ASSUME place' # End' PROVE Complete'
    BY <1>0, <1>3, <1>6, <1>7, <1>13 DEF EventsInv
  <2>0. Complete /\ Coming.type # "completed" /\ place[1] # L + 1
    BY <1>0, <1>3, <1>10, <1>11, <1>13, <1>9
  <2>1. ASSUME NEW i \in Items
        PROVE  /\ Begun(i)' <=> Begun(i) \/ (Coming.type = Added /\ Coming.item = i)
               /\ place[1]' > i <=> place[1] > i \/ (Coming.type = Closed /\ Coming.item = i)
    <3>1. i \in Nat /\ i > 0
      BY <1>9
    <3>2. CASE place[1] = 0
      <4>1. Coming.type # Added /\ Coming.type # Closed
        BY <1>9, <1>10, <1>11, <2>0, <3>2
      <4> QED
        BY <1>9, <1>10, <3>1, <3>2, <4>1, SMTT(60) DEF Begun
    <3>3. CASE place[1] \in Items
      <4>1. /\ Coming.item = place[1]
            /\ Coming.type = Added <=> place[2] = 1
            /\ IF Coming.type = Closed THEN place' = <<place[1] + 1, 1>>
               ELSE place' = <<place[1], place[2] + 1>>
        BY <1>9, <1>10, <2>0, <3>3
      <4>2. CASE Coming.type = Closed
        <5>1. place[2] > 1 /\ place' = <<place[1] + 1, 1>> /\ Coming.type # Added
          BY <1>9, <1>11, <4>1, <4>2
        <5>2. /\ place[1]' > i <=> place[1] > i \/ place[1] = i
              /\ Begun(i)' <=> place[1] > i \/ place[1] = i
              /\ Begun(i) <=> place[1] > i \/ place[1] = i
          BY <1>9, <3>1, <5>1 DEF Begun
        <5> QED
          BY <4>1, <4>2, <5>1, <5>2
      <4>3. CASE Coming.type # Closed
        <5>1. place' = <<place[1], place[2] + 1>>
          BY <4>1, <4>3
        <5>2. /\ place[1]' > i <=> place[1] > i
              /\ Begun(i)' <=> place[1] > i \/ place[1] = i
              /\ Begun(i) \/ (place[2] = 1 /\ place[1] = i) <=>
                   place[1] > i \/ place[1] = i
          BY <1>9, <3>1, <5>1, SMTT(60) DEF Begun
        <5> QED
          BY <4>1, <4>3, <5>2
      <4> QED
        BY <4>2, <4>3
    <3> QED
      BY <1>10, <2>0, <3>2, <3>3
  <2>2. Coming.type \in DeltaTypes => o.outputAdded
    <3>1. SUFFICES ASSUME Coming.type \in DeltaTypes PROVE o.outputAdded
      OBVIOUS
    <3>2. place[1] \in Items /\ place[2] > 1
      BY <1>10, <1>11, <3>1
    <3>3. Begun(place[1])
      BY <3>2 DEF Begun
    <3> QED
      BY <1>8, <2>0, <3>2, <3>3 DEF Complete
  <2>3. ASSUME NEW i \in Items
        PROVE  /\ About(Added, i)' # {} <=>
                     About(Added, i) # {} \/ (Coming.type = Added /\ Coming.item = i)
               /\ About(Closed, i)' # {} <=>
                     About(Closed, i) # {} \/ (Coming.type = Closed /\ Coming.item = i)
    BY <1>1, <2>0, <2>2
  <2>4. ASSUME NEW i \in Items, Begun(i)'
        PROVE  state'.outputAdded /\ i \in DOMAIN (state'.items)
    <3>1. CASE Begun(i)
      BY <1>1, <1>8, <2>0, <3>1 DEF Complete
    <3>2. CASE Coming.type = Added /\ Coming.item = i
      <4>1. i \in Names(Coming)
        BY <3>2 DEF Names, Added
      <4> QED
        BY <1>1, <1>8, <3>2, <4>1
    <3> QED
      BY <2>1, <2>4, <3>1, <3>2
  <2>5. ASSUME NEW i \in Items, place[1]' > i
        PROVE  state'.outputDone
    <3>1. CASE place[1] > i
      BY <1>1, <1>8, <2>0, <3>1 DEF Complete
    <3>2. CASE Coming.type = Closed
      BY <1>1, <1>8, <3>2
    <3> QED
      BY <2>1, <2>5, <3>1, <3>2
  <2>6. \A i \in Items :
          /\ About(Added, i)' # {} <=> Begun(i)'
          /\ About(Closed, i)' # {} <=> place[1]' > i
    BY <2>0, <2>1, <2>3 DEF Complete
  <2> QED
    BY <1>3, <2>4, <2>5, <2>6 DEF Complete
<1> QED
  BY <1>12, <1>13

LEMMA NextEvents ==
  EventsInv /\ Supports(upstream) /\ [EventsNext]_eventVars => EventsInv'
<1> SUFFICES ASSUME EventsInv, Supports(upstream), [EventsNext]_eventVars PROVE EventsInv'
  OBVIOUS
<1>1. EventsTypeOK'
  BY NextEventTypes DEF EventsInv
<1>2. CASE RelayEvent
  BY <1>1, <1>2, RelayInv
<1>3. CASE RelayCreated \/ Omit \/ Fail
  BY <1>1, <1>3, SilentInv
<1>4. CASE UNCHANGED eventVars
  BY <1>1, <1>4 DEF EventsInv, eventVars, ItemsInv, FinalInv, OneItem, Complete, Begun,
                    Items, Deltas, About, Positions, End
<1> QED
  BY <1>2, <1>3, <1>4 DEF EventsNext

\* The flags are one set for the whole response: this is why a response with more
\* than one item needs an upstream that leaves nothing out of them.
LEMMA EventsHold ==
  ASSUME \A u \in Upstreams : Supports(u)
  PROVE  EventsSpec => []EventsInv
<1>1. EventsInv => Supports(upstream)
  BY DEF EventsInv, EventsTypeOK
<1> QED
  BY <1>1, InitEvents, NextEvents, PTL DEF EventsSpec

LEMMA EventsInvMeans == EventsInv => AnnouncedOnce /\ ClosedBeforeCompleted
<1> SUFFICES ASSUME EventsInv PROVE AnnouncedOnce /\ ClosedBeforeCompleted
  OBVIOUS
<1>1. ItemsInv /\ FinalInv
  BY DEF EventsInv
<1>2. AnnouncedOnce
  <2> SUFFICES ASSUME NEW i \in Items, NEW n \in Deltas(i)
               PROVE  \E m \in About(Added, i) : m < n /\ About(Added, i) = {m}
    BY DEF AnnouncedOnce, Added
  <2>1. PICK m \in About(Added, i) : m < n
    BY <1>1 DEF ItemsInv
  <2>2. About(Added, i) = {m}
    BY <1>1 DEF ItemsInv
  <2> QED
    BY <2>1, <2>2
<1>3. ClosedBeforeCompleted
  <2> SUFFICES ASSUME NEW n \in Positions("completed")
               PROVE  /\ n = Len(sent)
                      /\ \A i \in Items :
                            Deltas(i) # {} => /\ Cardinality(About(Closed, i)) = 1
                                              /\ i \in sent[n].output
    BY DEF ClosedBeforeCompleted, Closed
  <2>1. n = Len(sent)
    BY <1>1 DEF FinalInv
  <2>2. ASSUME NEW i \in Items, Deltas(i) # {}
        PROVE  Cardinality(About(Closed, i)) = 1 /\ i \in sent[n].output
    <3>1. About(Closed, i) # {} /\ i \in sent[n].output
      BY <1>1, <2>2 DEF FinalInv
    <3>2. PICK m : m \in About(Closed, i)
      BY <3>1
    <3>3. About(Closed, i) = {m}
      BY <1>1, <3>2 DEF ItemsInv
    <3> QED
      BY <3>1, <3>3, FS_Singleton
  <2> QED
    BY <2>1, <2>2
<1> QED
  BY <1>2, <1>3

\* The state, the place in the script and what was sent are what they look like
\* (responsesStreamState and copyResponsesStreamResponse, gateway.go:1874-2120,
\* 2289-2423).
THEOREM EventTypes == EventsSpec => []EventsTypeOK
BY InitEventTypes, NextEventTypes, PTL DEF EventsSpec

\* If every upstream has one item, or leaves nothing out of any, an item is
\* announced once and before its first delta: the flags of ensureTextLifecycle and
\* ensureOutputLifecycle suffice for these (gateway.go:2101-2120).
THEOREM AnnouncesOnce ==
  ASSUME \A u \in Upstreams : Supports(u)
  PROVE  EventsSpec => []AnnouncedOnce
BY EventsHold, EventsInvMeans, PTL

\* For the same upstreams, response.completed comes last and only when every item
\* that had output has been closed, once, and is in the snapshot (completionEvents
\* and outputSnapshot, gateway.go:1940-2035).
THEOREM ClosesBeforeCompleted ==
  ASSUME \A u \in Upstreams : Supports(u)
  PROVE  EventsSpec => []ClosedBeforeCompleted
BY EventsHold, EventsInvMeans, PTL

=============================================================================
