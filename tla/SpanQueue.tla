----------------------------- MODULE SpanQueue -----------------------------
(***************************************************************************)
(* The queue of the batch span processor: CircularBuffer                   *)
(* (sdk/common/circular_buffer.h) over AtomicUniquePtr slots               *)
(* (sdk/common/atomic_unique_ptr.h), which the hooks of preload_tracer.cpp *)
(* fill from every thread that ends a span and one worker empties.         *)
(*                                                                         *)
(* Every access to an atomic is a step of its own.  A weak                 *)
(* compare-exchange may fail although the values agree.                    *)
(***************************************************************************)
EXTENDS Integers, Sequences

CONSTANTS Producer,  \* threads that end spans
          MaxSize,   \* max_queue_size
          MaxAdds,   \* bound: calls of Add per producer
          Null       \* nullptr

Capacity == MaxSize + 1
Slot == 0..MaxSize
SlotOf(k) == k % Capacity    \* where the k-th span added goes, from 0
Span == Producer \X (1..MaxAdds)

ASSUME QueueAssumption ==
  /\ MaxSize \in Nat \ {0} /\ MaxAdds \in Nat
  /\ Null \notin Span

VARIABLES
  head_, tail_, data_,  \* the buffer
  pc,                   \* where a producer is in Add
  nadd,                 \* calls of Add it has made
  ptr,                  \* the span it still owns
  tail, head,           \* its local variables
  cpc,                  \* where the consumer is in Consume
  n,                    \* its argument
  range,                \* the slots it has peeked
  done,                 \* how many of them it has emptied
  taken,                \* history: spans handed to the exporter, in order
  added,                \* history: spans whose Add returned true, in order
  overtaken, wasFull    \* history: producers during whose call the consumer
                        \* has advanced, and the buffer has been full

producers == <<pc, nadd, ptr, tail, head>>
consumer  == <<cpc, n, range, done, taken>>
vars == <<head_, tail_, data_, producers, consumer, added, overtaken, wasFull>>

PC == {"idle", "tail", "head", "swap", "cas", "undo"}

(* The buffer's members and the locals of Add and Consume have their types.*)
TypeOK ==
  /\ head_ \in Nat /\ tail_ \in Nat
  /\ data_ \in [Slot -> Span \cup {Null}]
  /\ pc \in [Producer -> PC]
  /\ nadd \in [Producer -> 0..MaxAdds]
  /\ ptr \in [Producer -> Span \cup {Null}]
  /\ tail \in [Producer -> Nat] /\ head \in [Producer -> Nat]
  /\ cpc \in {"idle", "peek", "advance", "take"}
  /\ n \in Nat /\ range \in Seq(Slot) /\ done \in Nat
  /\ taken \in Seq(Span) /\ added \in Seq(Span)
  /\ overtaken \subseteq Producer /\ wasFull \subseteq Producer

Init ==
  /\ head_ = 0 /\ tail_ = 0
  /\ data_ = [i \in Slot |-> Null]
  /\ pc = [p \in Producer |-> "idle"]
  /\ nadd = [p \in Producer |-> 0]
  /\ ptr = [p \in Producer |-> Null]
  /\ tail = [p \in Producer |-> 0] /\ head = [p \in Producer |-> 0]
  /\ cpc = "idle" /\ n = 0 /\ range = <<>> /\ done = 0
  /\ taken = <<>> /\ added = <<>>
  /\ overtaken = {} /\ wasFull = {}
-----------------------------------------------------------------------------
(* Add                                                                     *)

Goto(p, l) == pc' = [pc EXCEPT ![p] = l]
Mine(p)    == <<p, nadd[p]>>
Index(p)   == SlotOf(head[p])
Adding     == {p \in Producer : pc[p] # "idle"}
Full       == head_ - tail_ >= Capacity - 1

(* End() hands the span over to OnEnd, and OnEnd to Add.                   *)
CallAdd(p) ==
  /\ pc[p] = "idle" /\ nadd[p] < MaxAdds
  /\ nadd' = [nadd EXCEPT ![p] = @ + 1]
  /\ ptr' = [ptr EXCEPT ![p] = <<p, nadd[p] + 1>>]
  /\ wasFull' = IF Full THEN wasFull \cup {p} ELSE wasFull
  /\ Goto(p, "tail")
  /\ UNCHANGED <<head_, tail_, data_, tail, head, consumer, added, overtaken>>

ReadTail(p) ==
  /\ pc[p] = "tail"
  /\ tail' = [tail EXCEPT ![p] = tail_]
  /\ Goto(p, "head")
  /\ UNCHANGED <<head_, tail_, data_, nadd, ptr, head, consumer, added,
                 overtaken, wasFull>>

(* Its locals end with the call.                                           *)
Return(p) ==
  /\ tail' = [tail EXCEPT ![p] = 0]
  /\ head' = [head EXCEPT ![p] = 0]
  /\ overtaken' = overtaken \ {p}
  /\ Goto(p, "idle")

ReadHeadAtLimit(p) ==
  /\ pc[p] = "head"
  /\ head_ - tail[p] <= Capacity - 1
  /\ head' = [head EXCEPT ![p] = head_]
  /\ Goto(p, "swap")
  /\ UNCHANGED <<head_, tail_, data_, nadd, ptr, tail, consumer, added,
                 overtaken, wasFull>>

(* With the tail read before it, head - tail is never negative.            *)
ReadHead(p) ==
  /\ pc[p] = "head"
  /\ head_ - tail[p] < Capacity - 1
  /\ head' = [head EXCEPT ![p] = head_]
  /\ Goto(p, "swap")
  /\ UNCHANGED <<head_, tail_, data_, nadd, ptr, tail, consumer, added,
                 overtaken, wasFull>>

RefuseAbove(p) ==
  /\ pc[p] = "head"
  /\ head_ - tail[p] >= Capacity - 2
  /\ ptr' = [ptr EXCEPT ![p] = Null]
  /\ Return(p)
  /\ wasFull' = wasFull \ {p}
  /\ UNCHANGED <<head_, tail_, data_, nadd, consumer, added>>

RefuseWaits(p) ==
  /\ pc[p] = "head"
  /\ head_ - tail[p] >= Capacity - 1
  /\ Goto(p, "tail")
  /\ UNCHANGED <<head_, tail_, data_, nadd, ptr, tail, head, consumer, added,
                 overtaken, wasFull>>

(* Full: Add returns false, and the span dies with the caller's pointer.   *)
Refuse(p) ==
  /\ pc[p] = "head"
  /\ head_ - tail[p] >= Capacity - 1
  /\ ptr' = [ptr EXCEPT ![p] = Null]
  /\ Return(p)
  /\ wasFull' = wasFull \ {p}
  /\ UNCHANGED <<head_, tail_, data_, nadd, consumer, added>>

SwapBlind(p) ==
  /\ pc[p] = "swap"
  /\ data_' = [data_ EXCEPT ![Index(p)] = ptr[p]]
  /\ ptr' = [ptr EXCEPT ![p] = Null]
  /\ Goto(p, "cas")
  /\ UNCHANGED <<head_, tail_, nadd, tail, head, consumer, added, overtaken,
                 wasFull>>

SwapIfNull(p) ==
  /\ pc[p] = "swap"
  /\ data_[Index(p)] = Null
  /\ data_' = [data_ EXCEPT ![Index(p)] = ptr[p]]
  /\ ptr' = [ptr EXCEPT ![p] = Null]
  /\ Goto(p, "cas")
  /\ UNCHANGED <<head_, tail_, nadd, tail, head, consumer, added, overtaken,
                 wasFull>>

(* The slot is taken, or the weak exchange fails: the loop starts again.   *)
SwapFails(p) ==
  /\ pc[p] = "swap"
  /\ Goto(p, "tail")
  /\ UNCHANGED <<head_, tail_, data_, nadd, ptr, tail, head, consumer, added,
                 overtaken, wasFull>>

(* The exchange of head_ succeeds and Add returns true.                    *)
Publish(p) ==
  /\ pc[p] = "cas" /\ head_ = head[p]
  /\ head_' = head[p] + 1
  /\ added' = Append(added, Mine(p))
  /\ Return(p)
  /\ wasFull' = IF head_ + 1 - tail_ >= Capacity - 1 THEN Adding \ {p}
                                                    ELSE wasFull \ {p}
  /\ UNCHANGED <<tail_, data_, nadd, ptr, consumer>>

(* head_ has moved, or the weak exchange fails.                            *)
PublishFails(p) ==
  /\ pc[p] = "cas"
  /\ Goto(p, "undo")
  /\ UNCHANGED <<head_, tail_, data_, nadd, ptr, tail, head, consumer, added,
                 overtaken, wasFull>>

UndoForgotten(p) ==
  /\ pc[p] = "undo"
  /\ Goto(p, "tail")
  /\ UNCHANGED <<head_, tail_, data_, nadd, ptr, tail, head, consumer, added,
                 overtaken, wasFull>>

Undo(p) ==
  /\ pc[p] = "undo"
  /\ data_' = [data_ EXCEPT ![Index(p)] = ptr[p]]
  /\ ptr' = [ptr EXCEPT ![p] = data_[Index(p)]]
  /\ Goto(p, "tail")
  /\ UNCHANGED <<head_, tail_, nadd, tail, head, consumer, added, overtaken,
                 wasFull>>
-----------------------------------------------------------------------------
(* Consume                                                                 *)

(* The worker asks for some of what size() says there is.                  *)
CallConsume(k) ==
  /\ cpc = "idle" /\ k <= head_ - tail_
  /\ n' = k
  /\ cpc' = "peek"
  /\ UNCHANGED <<head_, tail_, data_, producers, range, done, taken, added,
                 overtaken, wasFull>>

(* The i-th slot of the one or two spans PeekImpl makes, and how many      *)
(* slots they have.                                                        *)
PeekSlot(i) ==
  LET tail_index == SlotOf(tail_)
  IN  IF i <= Capacity - tail_index THEN tail_index + i - 1
                                    ELSE i - (Capacity - tail_index) - 1

PeekSize ==
  LET tail_index == SlotOf(tail_)
      head_index == SlotOf(head_)
  IN  IF tail_index <= head_index THEN head_index - tail_index
                                  ELSE Capacity - tail_index + head_index

PeekUnwrapped ==
  /\ cpc = "peek"
  /\ range' = [i \in 1..n |-> ((tail_ % Capacity) + i - 1) % MaxSize]
  /\ cpc' = "advance"
  /\ UNCHANGED <<head_, tail_, data_, producers, n, done, taken, added,
                 overtaken, wasFull>>

(* PeekImpl().Take(n)                                                      *)
Peek ==
  /\ cpc = "peek"
  /\ range' = [i \in 1..n |-> PeekSlot(i)]
  /\ cpc' = "advance"
  /\ UNCHANGED <<head_, tail_, data_, producers, n, done, taken, added,
                 overtaken, wasFull>>

(* tail_ += n, before the callback has emptied the slots.                  *)
Advance ==
  /\ cpc = "advance"
  /\ tail_' = tail_ + n
  /\ overtaken' = Adding
  /\ done' = 0
  /\ cpc' = "take"
  /\ UNCHANGED <<head_, data_, producers, n, range, taken, added, wasFull>>

(* The callback: ForEach slot, the pointer is swapped with a null one.     *)
Take ==
  /\ cpc = "take" /\ done < Len(range)
  /\ taken' = Append(taken, data_[range[done + 1]])
  /\ data_' = [data_ EXCEPT ![range[done + 1]] = Null]
  /\ done' = done + 1
  /\ UNCHANGED <<head_, tail_, producers, cpc, n, range, added, overtaken,
                 wasFull>>

ReturnConsume ==
  /\ cpc = "take" /\ done = Len(range)
  /\ cpc' = "idle" /\ n' = 0 /\ range' = <<>> /\ done' = 0
  /\ UNCHANGED <<head_, tail_, data_, producers, taken, added, overtaken,
                 wasFull>>
-----------------------------------------------------------------------------
Add(p) ==
  \/ ReadTail(p) \/ ReadHead(p) \/ Refuse(p)
  \/ SwapIfNull(p) \/ SwapFails(p) \/ Publish(p) \/ PublishFails(p) \/ Undo(p)

Consume == Peek \/ Advance \/ Take \/ ReturnConsume

Next ==
  \/ \E p \in Producer : CallAdd(p) \/ Add(p)
  \/ \E k \in 1..MaxSize : CallConsume(k)
  \/ Consume

Spec == Init /\ [][Next]_vars
-----------------------------------------------------------------------------
(* The spans that Add accepted reach the exporter each exactly once and in *)
(* the order of acceptance: the spans handed over so far are the first     *)
(* accepted ones, and what is neither handed over nor in the hands of      *)
(* Consume is in the buffer.  No null pointer is ever handed over.         *)
Delivery ==
  /\ Len(taken) = tail_ - (IF cpc = "take" THEN Len(range) - done ELSE 0)
  /\ Len(added) = head_
  /\ \A i \in 1..Len(taken) : taken[i] = added[i]

(* The queue never holds more than max_queue_size spans, head - tail does  *)
(* not wrap around in Add, and what PeekImpl finds is as much as size()    *)
(* said (the assertions of Consume and Take), although a full buffer and   *)
(* an empty one would look alike with one slot less.                       *)
Bounded ==
  /\ head_ - tail_ \in 0..MaxSize
  /\ \A p \in Producer : pc[p] = "head" => head_ >= tail[p]
  /\ cpc = "peek" => n <= PeekSize

(* A span is never in two places, and none is left behind in a slot: when  *)
(* nobody is in Add or Consume, the slots outside the queue are null.      *)
OneOwner ==
  /\ \A i, j \in Slot : i # j /\ data_[i] # Null => data_[i] # data_[j]
  /\ \A p \in Producer : ptr[p] # Null => \A i \in Slot : data_[i] # ptr[p]
  /\ Adding = {} /\ cpc = "idle" =>
       \A i \in Slot : data_[i] # Null =>
         \E k \in tail_..(head_ - 1) : SlotOf(k) = i

(* The buffer is a bounded FIFO queue: added to when head_ is exchanged,   *)
(* removed from when tail_ is advanced.                                    *)
Queue == INSTANCE BoundedQueue WITH
  queue   <- [i \in 1..(head_ - tail_) |-> data_[SlotOf(tail_ + i - 1)]],
  removed <- taken \o IF cpc = "take"
                      THEN [i \in 1..(Len(range) - done) |->
                              data_[range[done + i]]]
                      ELSE <<>>,
  adding  <- Adding

IsBoundedQueue == Queue!Spec

(* "The circular buffer is full, so return false" (circular_buffer.h:93):  *)
(* a span is refused only if the buffer has been full during the call.     *)
RefusedOnlyWhenFull ==
  [][\A p \in Producer : pc[p] = "head" /\ pc'[p] = "idle" => p \in wasFull
    ]_vars
=============================================================================
