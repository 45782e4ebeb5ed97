------------------------- MODULE V1ChatCompletition -------------------------
(***************************************************************************)
(* llm/provider/v1chatcompletition.py: the Chat Completions adapter.  The  *)
(* message and the calls being read are kept on the provider object; the   *)
(* loops that launch the calls are suspended inside the dict of calls.     *)
(* Every chunk carries one thing: text, a piece of a call, or the reason   *)
(* why the response ends.                                                  *)
(***************************************************************************)
EXTENDS ProviderStream

CONSTANT Overlap   \* how many responses are read at a time (the Semaphore allows 2)

VARIABLES
  message,   \* self._current_assistant_message
  calls,     \* self._current_tool_calls: which dict object
  heap,      \* the dict objects, as sequences of entries in insertion order
  loop       \* per response, the iteration over a dict that is suspended

vars == <<said, items, pc, message, calls, heap, loop>>

\* A response creates a dict when it begins and another when it is finalized.
Dict == Stream \X {"begin", "end"}

NoLoop == [dict |-> None, pos |-> 0, size |-> 0, final |-> FALSE]

Init ==
  /\ BaseInit
  /\ message = None /\ calls = None
  /\ heap = [d \in Dict |-> <<>>]
  /\ loop = [s \in Stream |-> NoLoop]

\* The state is reset before the request is sent.
Begin(s) ==
  /\ pc[s] = "idle" /\ Cardinality(Active) < Overlap
  /\ message' = None /\ calls' = <<s, "begin">>
  /\ Goto(s, "reading")
  /\ UNCHANGED <<said, items, heap, loop>>

\* No finish_reason has been sent.
Unfinished(s) == pc[s] = "reading" /\ OpenBlocks(s) = DOMAIN said[s]

\* The server opens block b of kind k, or continues it.
Piece(s, k, b) ==
  \/ b = Len(said[s]) + 1 /\ Says(s, k)
  \/ b \in DOMAIN said[s] /\ said[s][b].kind = k /\ SaysMore(s, b)

\* delta.content; a response has one text.
ContentChunk(s) ==
  /\ Unfinished(s)
  /\ \E b \in 1..MaxBlocks :
       /\ \A a \in DOMAIN said[s] : said[s][a].kind = "message" => a = b
       /\ Piece(s, "message", b)
       /\ \/ /\ message = None
             /\ NewItem(s, "message")
             /\ message' = <<s, Len(items[s]) + 1>>
          \/ /\ message # None
             /\ Absorb(message, <<s, b>>)
             /\ UNCHANGED message
  /\ Goto(s, "emitting")
  /\ UNCHANGED <<calls, heap, loop>>

\* The index of a call is its rank among the calls of its response.
CallIndex(s, b) == Cardinality({a \in 1..(b - 1) : said[s][a].kind = "function_call"})

Entries(x) == {p \in DOMAIN heap[calls] : heap[calls][p].index = x}

\* delta.tool_calls: a new index makes a new item, a known one adds arguments.
CallChunk(s) ==
  /\ Unfinished(s)
  /\ \E b \in 1..MaxBlocks :
       /\ Piece(s, "function_call", b)
       /\ LET x == CallIndex(s, b) IN
          \/ /\ Entries(x) = {}
             /\ NewItem(s, "function_call")
             /\ heap' = [heap EXCEPT ![calls] =
                          Append(@, [index |-> x, ref |-> <<s, Len(items[s]) + 1>>])]
             /\ Goto(s, "emitting")
          \/ /\ \E p \in Entries(x) : Absorb(heap[calls][p].ref, <<s, b>>)
             /\ UNCHANGED <<heap, pc>>
  /\ UNCHANGED <<message, calls, loop>>

\* Defect: _finalize_stream() does not look at the status of the calls.
LoopOverAll(final) == [dict |-> calls, pos |-> 0, size |-> Len(heap[calls]), final |-> FALSE]

\* A loop over the current dict begins; final: the one of _finalize_stream().
NewLoop(final) == [dict |-> calls, pos |-> 0, size |-> Len(heap[calls]), final |-> final]

\* The loop l runs to its next suspension: it raises if the dict has grown, it
\* completes the next call it has to, or it is over.
Iterate(s, l) ==
  LET entries == heap[l.dict]
      ahead == {p \in (l.pos + 1)..Len(entries) :
                  l.final => At(entries[p].ref).status = "in_progress"} IN
  \/ /\ Len(entries) # l.size
     /\ Goto(s, "cut")
     /\ UNCHANGED <<items, message, calls, loop>>
  \/ /\ Len(entries) = l.size
     /\ \E p \in ahead :
          /\ \A q \in ahead : p <= q
          /\ Complete(entries[p].ref)
          /\ loop' = [loop EXCEPT ![s] = [l EXCEPT !.pos = p]]
     /\ Goto(s, "sending")
     /\ UNCHANGED <<message, calls>>
  \/ /\ Len(entries) = l.size /\ ahead = {} /\ l.final
     /\ message' = None /\ calls' = <<s, "end">>
     /\ Goto(s, "done")
     /\ UNCHANGED <<items, loop>>
  \/ /\ Len(entries) = l.size /\ ahead = {} /\ ~l.final
     /\ Goto(s, "reading")
     /\ UNCHANGED <<items, message, calls, loop>>

\* finish_reason: "stop" completes the text, "tool_calls" the calls, any other
\* leaves both to _finalize_stream().
FinishChunk(s, reason) ==
  /\ Unfinished(s)
  /\ said' = [said EXCEPT ![s] = [b \in DOMAIN @ |-> [@[b] EXCEPT !.closed = TRUE]]]
  /\ \/ /\ reason = "tool_calls"
        /\ \E b \in DOMAIN said[s] : said[s][b].kind = "function_call"
        /\ Iterate(s, NewLoop(FALSE))
     \/ /\ reason = "stop" /\ message # None
        /\ Complete(message)
        /\ Goto(s, "emitting")
        /\ UNCHANGED <<message, calls, loop>>
     \/ /\ reason = "length" \/ (reason = "stop" /\ message = None)
        /\ UNCHANGED <<items, pc, message, calls, loop>>
  /\ UNCHANGED heap

\* The call just announced is launched.
LaunchItem(s) ==
  /\ pc[s] = "sending"
  /\ Run(heap[loop[s].dict][loop[s].pos].ref, s)
  /\ Goto(s, "launching")
  /\ UNCHANGED <<said, message, calls, heap, loop>>

Continue(s) ==
  /\ pc[s] = "launching"
  /\ Iterate(s, loop[s])
  /\ UNCHANGED <<said, heap>>

\* [DONE]: _finalize_stream() completes the text first ...
FinalizeText(s) ==
  /\ pc[s] = "reading" /\ OpenBlocks(s) = {}
  /\ message # None /\ At(message).status = "in_progress"
  /\ Complete(message)
  /\ Goto(s, "finalizing")
  /\ UNCHANGED <<said, message, calls, heap, loop>>

\* ... and then the calls that are still in progress.
FinalizeCalls(s) ==
  /\ \/ pc[s] = "finalizing"
     \/ /\ pc[s] = "reading" /\ OpenBlocks(s) = {}
        /\ message # None => At(message).status # "in_progress"
  /\ Iterate(s, NewLoop(TRUE))
  /\ UNCHANGED <<said, heap>>

Emitted(s) ==
  /\ pc[s] = "emitting"
  /\ Goto(s, "reading")
  /\ UNCHANGED <<said, items, message, calls, heap, loop>>

\* The task is cancelled or raises, or the connection ends without [DONE].
Cut(s) ==
  /\ s \in Active
  /\ Goto(s, "cut")
  /\ UNCHANGED <<said, items, message, calls, heap, loop>>

Next ==
  \E s \in Stream :
    \/ Begin(s) \/ ContentChunk(s) \/ CallChunk(s) \/ LaunchItem(s) \/ Continue(s)
    \/ FinalizeText(s) \/ FinalizeCalls(s) \/ Emitted(s) \/ Cut(s)
    \/ \E reason \in {"stop", "tool_calls", "length"} : FinishChunk(s, reason)

Spec == Init /\ [][Next]_vars

=============================================================================
