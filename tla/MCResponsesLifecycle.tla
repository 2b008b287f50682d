------------------------ MODULE MCResponsesLifecycle ------------------------
(* Instances of ResponsesLifecycle for TLC. *)
EXTENDS ResponsesLifecycle

Lifecycles == {"output_item.added", "content_part.added", "output_text.done",
               "content_part.done", "function_call_arguments.done",
               "output_item.done"}

\* One item with any of its lifecycle events missing, and four complete items.
Supported ==
    [kinds : {<<"message">>, <<"function_call">>},
     omits : SUBSET (Progress \cup Lifecycles)]
    \cup [kinds : {<<"message", "function_call", "message", "function_call">>},
          omits : SUBSET Progress]

\* An upstream that sends nothing but deltas.
TwoCalls ==
    {[kinds |-> <<"function_call", "function_call">>, omits |-> Progress \cup Lifecycles]}
=============================================================================
