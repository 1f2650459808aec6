---------------------------- MODULE BoundedQueue ----------------------------
(***************************************************************************)
(* What the batch processor needs of its queue: a bounded first-in         *)
(* first-out queue with many producers and one consumer, in which adding   *)
(* and removing are single steps.  Add may refuse a span when the queue is *)
(* full (batch_span_processor_options.h:23) and, as SpanQueue shows, also  *)
(* when the consumer has removed something during the call.                *)
(***************************************************************************)
EXTENDS Naturals, Sequences

CONSTANTS Producer,  \* threads that end spans
          MaxSize,   \* max_queue_size
          MaxAdds    \* bound: calls of Add per producer

VARIABLES queue,     \* the spans queued, oldest first
          removed,   \* the spans the consumer has got, in order
          adding,    \* producers inside Add
          overtaken, \* those during whose call the consumer has removed spans
          nadd       \* calls of Add made

bqVars == <<queue, removed, adding, overtaken, nadd>>

Init ==
  /\ queue = <<>> /\ removed = <<>>
  /\ adding = {} /\ overtaken = {}
  /\ nadd = [p \in Producer |-> 0]

(* Calls Add with the span <<p, nadd'[p]>>.                                *)
Call(p) ==
  /\ p \notin adding /\ nadd[p] < MaxAdds
  /\ nadd' = [nadd EXCEPT ![p] = @ + 1]
  /\ adding' = adding \cup {p}
  /\ UNCHANGED <<queue, removed, overtaken>>

Return(p) ==
  /\ p \in adding
  /\ adding' = adding \ {p}
  /\ overtaken' = overtaken \ {p}

Put(p) ==
  /\ Return(p)
  /\ Len(queue) < MaxSize
  /\ queue' = Append(queue, <<p, nadd[p]>>)
  /\ UNCHANGED <<removed, nadd>>

Refuse(p) ==
  /\ Return(p)
  /\ Len(queue) = MaxSize \/ p \in overtaken
  /\ UNCHANGED <<queue, removed, nadd>>

Remove(n) ==
  /\ removed' = removed \o SubSeq(queue, 1, n)
  /\ queue' = SubSeq(queue, n + 1, Len(queue))
  /\ overtaken' = adding
  /\ UNCHANGED <<adding, nadd>>

Next ==
  \/ \E p \in Producer : Call(p) \/ Put(p) \/ Refuse(p)
  \/ \E n \in 1..Len(queue) : Remove(n)

Spec == Init /\ [][Next]_bqVars
=============================================================================
