------------------------- MODULE ResponsesLifecycle -------------------------
(***************************************************************************)
(* responsesStreamState: the lifecycle events that the gateway adds to a   *)
(* Responses stream when the upstream leaves them out                      *)
(* (internal/gateway/gateway.go).  The upstream walks through the script   *)
(* of a complete response and omits some kinds of events; the gateway      *)
(* observes each event, adds to it, and passes it on.                      *)
(*                                                                         *)
(* An event is a record of its type (without "response.") and the output   *)
(* item it is about; a completed event carries the items of its snapshot.  *)
(* Texts, ids and usage are left out.                                      *)
(***************************************************************************)
EXTENDS Naturals, Sequences, FiniteSets

CONSTANT
    Upstreams  \* records: the kinds of the items of a response, in order,
               \* and the types of the events this upstream leaves out

ASSUME LifecycleAssumption ==
    \A u \in Upstreams : /\ u.kinds \in Seq({"message", "function_call"})
                         /\ u.kinds # <<>>

NoItem == 0

VARIABLES
    upstream,    \* one of Upstreams
    place,       \* how far the upstream has come: a part of the script, an event
    state,       \* the fields of responsesStreamState
    sent         \* the events the client has been sent

eventVars == <<upstream, place, state, sent>>

Items == 1 .. Len(upstream.kinds)

Event(type, item) == [type |-> type, item |-> item]

\* The events of one item in a complete stream.
ItemScript(kind) ==
    IF kind = "message"
    THEN <<"output_item.added", "content_part.added",
           "output_text.delta", "output_text.delta",
           "output_text.done", "content_part.done", "output_item.done">>
    ELSE <<"output_item.added", "function_call_arguments.delta",
           "function_call_arguments.delta",
           "function_call_arguments.done", "output_item.done">>

\* The parts of a complete stream: the start, the items, the end.
Script(part) ==
    IF part = NoItem THEN <<"created", "in_progress">>
    ELSE IF part \in Items THEN ItemScript(upstream.kinds[part])
    ELSE <<"completed">>

End == <<Len(upstream.kinds) + 2, 1>>

Coming ==
    Event(Script(place[1])[place[2]], IF place[1] \in Items THEN place[1] ELSE NoItem)

Onward ==
    place' = IF place[2] < Len(Script(place[1])) THEN <<place[1], place[2] + 1>>
             ELSE <<place[1] + 1, 1>>

EventsInit ==
    /\ upstream \in Upstreams
    /\ place = <<NoItem, 1>>
    /\ state = [ created |-> FALSE, outputAdded |-> FALSE,
                 contentAdded |-> FALSE, textDone |-> FALSE,
                 contentDone |-> FALSE, outputDone |-> FALSE,
                 functionArgsDone |-> FALSE, outputIndex |-> NoItem,
                 text |-> FALSE, items |-> <<>> ]
    /\ sent = <<>>

-----------------------------------------------------------------------------
\* observe: an event sets the flag of its type, whatever item it is about,
\* and the latest item becomes the current one.  `items' is the map of the
\* items that were announced, or had arguments, by their index.
Observed(s, e) ==
    LET current == IF e.item # NoItem THEN e.item ELSE s.outputIndex
        named   == IF e.type \in {"output_item.added", "output_item.done"}
                   THEN {current}
                   ELSE IF e.type = "function_call_arguments.delta"
                           /\ current \notin DOMAIN s.items THEN {current}
                   ELSE {}
    IN  [s EXCEPT
            !.outputIndex = current,
            !.outputAdded = @ \/ e.type = "output_item.added",
            !.contentAdded = @ \/ e.type = "content_part.added",
            !.text = @ \/ e.type = "output_text.delta",
            !.textDone = @ \/ e.type = "output_text.done",
            !.contentDone = @ \/ e.type = "content_part.done",
            !.outputDone = @ \/ e.type = "output_item.done",
            !.functionArgsDone = @ \/ e.type = "function_call_arguments.done",
            !.items = [i \in DOMAIN s.items \cup named |->
                          IF i \in named THEN upstream.kinds[i] ELSE s.items[i]]]

\* currentItem: an item nobody announced is a message.
CurrentKind(s) ==
    IF s.outputIndex \in DOMAIN s.items THEN s.items[s.outputIndex]
    ELSE "message"

\* Faulty variant: the end of a response closes nothing.
LifecycleOfDeltas(s, e) ==
    IF e.type \in {"output_text.delta", "function_call_arguments.delta"}
    THEN IF s.outputAdded THEN <<>> ELSE <<"output_item.added">>
    ELSE <<>>

\* Faulty variant: events are announced for text only.
LifecycleOfText(s, e) ==
    CASE e.type = "output_text.delta" ->
           (IF s.outputAdded THEN <<>> ELSE <<"output_item.added">>)
             \o (IF s.contentAdded THEN <<>> ELSE <<"content_part.added">>)
      [] e.type = "completed" /\ ~s.outputDone -> <<"output_item.done">>
      [] OTHER -> <<>>

\* The types of the events injected in front of an event, in this order.
Lifecycle(s, e) ==
    CASE e.type = "output_text.delta" ->
           (IF s.outputAdded THEN <<>> ELSE <<"output_item.added">>)
             \o (IF s.contentAdded THEN <<>> ELSE <<"content_part.added">>)
      [] e.type = "function_call_arguments.delta" ->
           IF s.outputAdded THEN <<>> ELSE <<"output_item.added">>
      [] e.type = "completed" ->
           IF DOMAIN s.items = {} /\ ~s.text THEN <<>>
           ELSE (IF s.text /\ ~s.textDone THEN <<"output_text.done">> ELSE <<>>)
             \o (IF s.text /\ ~s.contentDone THEN <<"content_part.done">> ELSE <<>>)
             \o (IF CurrentKind(s) = "function_call" /\ ~s.functionArgsDone
                 THEN <<"function_call_arguments.done">> ELSE <<>>)
             \o (IF s.outputDone THEN <<>> ELSE <<"output_item.done">>)
      [] OTHER -> <<>>

\* The events above set the flags of the state too.
Injected(s, types) ==
    LET said(type) == \E n \in DOMAIN types : types[n] = type
    IN  [s EXCEPT
            !.created = TRUE,
            !.outputAdded = @ \/ said("output_item.added"),
            !.contentAdded = @ \/ said("content_part.added"),
            !.textDone = @ \/ said("output_text.done"),
            !.contentDone = @ \/ said("content_part.done"),
            !.functionArgsDone = @ \/ said("function_call_arguments.done"),
            !.outputDone = @ \/ said("output_item.done")]

\* outputSnapshot: the announced items or, if there are none, the text.
Snapshot(s) ==
    IF DOMAIN s.items # {} THEN DOMAIN s.items
    ELSE IF s.text THEN {s.outputIndex} ELSE {}

\* What takes the place of the event.  A completed event without output gets
\* the snapshot, one with output keeps its own: all items.
PassedOn(s, e) ==
    IF e.type # "completed" THEN {e}
    ELSE { [type |-> "completed", item |-> NoItem, output |-> output] :
              output \in {Items, Snapshot(s)} }

\* response.created is passed on as it is and is not observed.
RelayCreated ==
    /\ place # End
    /\ Coming.type = "created"
    /\ "created" \notin upstream.omits
    /\ state' = [state EXCEPT !.created = TRUE]
    /\ sent' = Append(sent, Coming)
    /\ Onward
    /\ UNCHANGED upstream

RelayEvent ==
    LET e     == Coming
        s     == Observed(state, e)
        types == Lifecycle(s, e)
    IN
    /\ place # End
    /\ e.type \notin upstream.omits \cup {"created"}
    /\ \E out \in PassedOn(s, e) :
         sent' = sent
                   \o (IF s.created THEN <<>> ELSE <<Event("created", NoItem)>>)
                   \o [n \in DOMAIN types |-> Event(types[n], s.outputIndex)]
                   \o <<out>>
    /\ state' = Injected(s, types)
    /\ Onward
    /\ UNCHANGED upstream

\* The upstream leaves an event out.
Omit ==
    /\ place # End
    /\ Coming.type \in upstream.omits
    /\ Onward
    /\ UNCHANGED <<upstream, state, sent>>

\* The upstream may fail at any time; the failure is passed on, and nothing
\* is added that would make the response look complete.
Fail ==
    /\ place # End
    /\ sent' = sent
                 \o (IF state.created THEN <<>> ELSE <<Event("created", NoItem)>>)
                 \o <<Event("failed", NoItem)>>
    /\ state' = [state EXCEPT !.created = TRUE]
    /\ place' = End
    /\ UNCHANGED upstream

EventsNext == RelayCreated \/ RelayEvent \/ Omit \/ Fail

EventsSpec == EventsInit /\ [][EventsNext]_eventVars

-----------------------------------------------------------------------------
(* Properties *)

Progress == {"created", "in_progress"}

\* Upstreams for which the flags suffice: one item, or nothing left out of any.
Supports(u) == Len(u.kinds) = 1 \/ u.omits \subseteq Progress

Positions(type) == {n \in DOMAIN sent : sent[n].type = type}

About(type, i) == {n \in Positions(type) : sent[n].item = i}

Deltas(i) ==
    About("output_text.delta", i) \cup About("function_call_arguments.delta", i)

\* An item is announced before its first delta and announced once.
AnnouncedOnce ==
    \A i \in Items :
        \A n \in Deltas(i) : \E m \in About("output_item.added", i) :
            m < n /\ About("output_item.added", i) = {m}

\* When the response is completed, every item that had output has been closed
\* once and is in the final snapshot, from which clients read the response as a
\* whole, and nothing follows.
ClosedBeforeCompleted ==
    \A n \in Positions("completed") :
        /\ n = Len(sent)
        /\ \A i \in Items :
             Deltas(i) # {} => /\ Cardinality(About("output_item.done", i)) = 1
                               /\ i \in sent[n].output
=============================================================================
