-------------------------- MODULE SpanQueueProofs --------------------------
(***************************************************************************)
(* Proofs about SpanQueue, for every set of producers, every queue size    *)
(* and every number of calls: what a span goes through, and that the       *)
(* circular buffer implements BoundedQueue.                                *)
(***************************************************************************)
EXTENDS SpanQueue, SequenceTheorems, TLAPS

Holding == {"cas", "undo"}          \* the span is in a slot, not published
Trying  == {"tail", "head", "swap"} \* the span is in the caller's pointer

(* Positions: what has been counted in and out.                            *)
CountInv ==
  /\ tail_ <= head_ /\ head_ - tail_ <= MaxSize
  /\ Len(added) = head_

(* A producer's readings are old values of the counters, taken in order.   *)
LocalInv ==
  \A p \in Producer :
    /\ pc[p] # "idle" => nadd[p] \in 1..MaxAdds
    /\ pc[p] \in Holding \cup {"head", "swap"} => tail[p] <= tail_
    /\ pc[p] \in Holding \cup {"swap"} =>
         head[p] <= head_ /\ head[p] - tail[p] < MaxSize
    /\ pc[p] = "head" /\ p \notin overtaken => tail[p] = tail_

(* A span that is being added is where its producer's pc says.             *)
OwnInv ==
  \A p \in Producer :
    /\ pc[p] = "idle" => ptr[p] = Null
    /\ pc[p] \in Trying => ptr[p] = Mine(p)
    /\ pc[p] \in Holding => ptr[p] = Null /\ data_[Index(p)] = Mine(p)

(* Spans are accepted once, and not before their call.                     *)
AddedInv ==
  /\ \A i \in 1..Len(added) :
       /\ added[i][2] <= nadd[added[i][1]]
       /\ pc[added[i][1]] # "idle" => added[i][2] < nadd[added[i][1]]
  /\ \A i, j \in 1..Len(added) : added[i] = added[j] => i = j

(* The slots between tail_ and head_ hold the spans in order.              *)
QueuedInv ==
  \A k \in tail_..(head_ - 1) : data_[SlotOf(k)] = added[k + 1]

(* The consumer works on the n positions from tail_, before it advances,   *)
(* or up to tail_, after it; those it has not emptied hold their spans.    *)
ConsumeInv ==
  /\ cpc # "idle" => n >= 1
  /\ cpc \in {"peek", "advance"} => n <= head_ - tail_
  /\ cpc = "advance" =>
       /\ Len(range) = n
       /\ \A i \in 1..n : range[i] = SlotOf(tail_ + i - 1)
  /\ cpc = "take" =>
       /\ Len(range) = n /\ n <= tail_ /\ done <= n
       /\ \A i \in 1..n : range[i] = SlotOf(tail_ - n + i - 1)
       /\ \A i \in (done + 1)..n : data_[range[i]] = added[tail_ - n + i]

Pending == IF cpc = "take" THEN n - done ELSE 0

(* What has been handed over is a prefix of what was accepted.             *)
TakenInv ==
  /\ Len(taken) = tail_ - Pending
  /\ \A i \in 1..Len(taken) : taken[i] = added[i]

(* Every span in a slot is queued, being taken or being added.             *)
CleanInv ==
  \A s \in Slot : data_[s] # Null =>
    \/ \E k \in tail_..(head_ - 1) : s = SlotOf(k)
    \/ cpc = "take" /\ \E i \in (done + 1)..n : s = range[i]
    \/ \E p \in Producer : pc[p] \in Holding /\ s = Index(p)

IInv ==
  /\ TypeOK /\ CountInv /\ LocalInv /\ OwnInv /\ AddedInv /\ QueuedInv
  /\ ConsumeInv /\ TakenInv /\ CleanInv
-----------------------------------------------------------------------------
(* Arithmetic of the slots.                                                *)

(* A remainder is what its name says.                                      *)
LEMMA ModRange ==
  ASSUME NEW a \in Nat, NEW c \in Nat \ {0}
  PROVE  a % c \in 0..(c - 1)
  BY SMT

(* It is determined by its range.                                          *)
LEMMA ModUnique ==
  ASSUME NEW a \in Nat, NEW c \in Nat \ {0}, NEW q \in Int,
         NEW r \in 0..(c - 1), a = q * c + r
  PROVE  a % c = r
  BY SMT

(* A position and its slot differ by a number of rounds.                   *)
LEMMA ModSplit ==
  ASSUME NEW a \in Nat, NEW c \in Nat \ {0}
  PROVE  \E q \in Int : a = q * c + (a % c)
  <1>1. a \div c \in Int /\ a = (a \div c) * c + (a % c)
    BY SMT
  <1> QED BY <1>1

(* Going on by less than a round wraps around at most once.                *)
LEMMA ModShift ==
  ASSUME NEW a \in Nat, NEW c \in Nat \ {0}, NEW j \in 0..(c - 1)
  PROVE  /\ (a % c) + j < c => (a + j) % c = (a % c) + j
         /\ (a % c) + j >= c => (a + j) % c = (a % c) + j - c
  <1> DEFINE r == a % c
  <1>1. PICK q \in Int : a = q * c + r
    BY ModSplit
  <1>2. r \in 0..(c - 1)
    BY ModRange
  <1>3. ASSUME r + j < c PROVE (a + j) % c = r + j
    <2>1. a + j = q * c + (r + j)
      BY <1>1, <1>2, SMT
    <2>2. r + j \in 0..(c - 1) /\ a + j \in Nat
      BY <1>2, <1>3, SMT
    <2> HIDE DEF r
    <2> QED BY <2>1, <2>2, ModUnique, Zenon
  <1>4. ASSUME r + j >= c PROVE (a + j) % c = r + j - c
    <2>1. (q + 1) * c = q * c + c /\ q * c \in Int
      BY SMT
    <2>2. a + j = (q + 1) * c + (r + j - c)
      BY <1>1, <1>2, <2>1, SMT
    <2>3. r + j - c \in 0..(c - 1) /\ a + j \in Nat /\ q + 1 \in Int
      BY <1>2, <1>4, SMT
    <2> HIDE DEF r
    <2> QED BY <2>2, <2>3, ModUnique, Zenon
  <1> QED BY <1>3, <1>4

(* SlotOf gives slots.                                                     *)
LEMMA SlotOfType ==
  ASSUME NEW k \in Nat
  PROVE  SlotOf(k) \in Slot
  <1>1. Capacity \in Nat \ {0} /\ Slot = 0..(Capacity - 1)
    BY QueueAssumption DEF Capacity, Slot
  <1> QED BY <1>1, ModRange DEF SlotOf

(* PeekImpl finds the slots of the positions from tail_ on, and as many as *)
(* there are between tail_ and head_.                                      *)
LEMMA PeekIsRight ==
  ASSUME IInv
  PROVE  /\ PeekSize = head_ - tail_
         /\ \A i \in 1..MaxSize : PeekSlot(i) = SlotOf(tail_ + i - 1)
  <1> DEFINE c == Capacity
             ti == SlotOf(tail_)
             s == head_ - tail_
  <1>1. /\ c \in Nat \ {0} /\ c = MaxSize + 1 /\ MaxSize \in Nat
        /\ tail_ \in Nat /\ head_ \in Nat /\ s \in 0..(c - 1)
        /\ head_ = tail_ + s
    BY QueueAssumption DEF IInv, TypeOK, CountInv, Capacity
  <1>2. ti \in 0..(c - 1)
    BY <1>1, ModRange DEF SlotOf
  <1>3. \A j \in 0..(c - 1) : SlotOf(tail_ + j) = IF ti + j < c
                                                  THEN ti + j ELSE ti + j - c
    <2> TAKE j \in 0..(c - 1)
    <2>1. /\ (tail_ % c) + j < c => (tail_ + j) % c = (tail_ % c) + j
          /\ (tail_ % c) + j >= c => (tail_ + j) % c = (tail_ % c) + j - c
      BY <1>1, ModShift
    <2>2. ti = tail_ % c /\ SlotOf(tail_ + j) = (tail_ + j) % c
      BY DEF SlotOf
    <2> HIDE DEF ti, c
    <2> QED BY <1>1, <1>2, <2>1, <2>2
  <1>4. PeekSize = s
    <2>1. SlotOf(head_) = IF ti + s < c THEN ti + s ELSE ti + s - c
      BY <1>1, <1>3
    <2>2. PeekSize = IF ti <= SlotOf(head_) THEN SlotOf(head_) - ti
                                            ELSE c - ti + SlotOf(head_)
      BY DEF PeekSize
    <2> HIDE DEF ti, s, c
    <2> QED BY <1>1, <1>2, <2>1, <2>2
  <1>5. ASSUME NEW i \in 1..MaxSize PROVE PeekSlot(i) = SlotOf(tail_ + i - 1)
    <2>1. i - 1 \in 0..(c - 1) /\ tail_ + i - 1 = tail_ + (i - 1)
      BY <1>1
    <2>2. SlotOf(tail_ + (i - 1)) = IF ti + (i - 1) < c THEN ti + (i - 1)
                                                        ELSE ti + (i - 1) - c
      BY <1>3, <2>1
    <2>3. PeekSlot(i) = IF i <= c - ti THEN ti + i - 1 ELSE i - (c - ti) - 1
      BY DEF PeekSlot
    <2> HIDE DEF ti, c
    <2> QED BY <1>1, <1>2, <2>1, <2>2, <2>3
  <1> QED BY <1>4, <1>5
-----------------------------------------------------------------------------
(* The invariant, action by action.                                        *)

(* It holds when the buffer is constructed.                                *)
LEMMA InitInv == Init => IInv
  <1> SUFFICES ASSUME Init PROVE IInv
    OBVIOUS
  <1> USE QueueAssumption DEF Init
  <1>1. TypeOK
    BY DEF TypeOK, PC, Slot, Span
  <1>2. CountInv /\ LocalInv /\ OwnInv /\ AddedInv /\ QueuedInv
    BY DEF CountInv, LocalInv, OwnInv, AddedInv, QueuedInv, Holding, Trying, Slot
  <1>3. ConsumeInv /\ TakenInv /\ CleanInv
    BY DEF ConsumeInv, TakenInv, CleanInv, Pending
  <1> QED BY <1>1, <1>2, <1>3 DEF IInv

(* Spans are pairs, none of them is Null, and those being added are told   *)
(* apart from each other and from the ones already accepted.               *)
LEMMA Facts ==
  ASSUME IInv
  PROVE  /\ MaxSize \in Nat /\ Capacity = MaxSize + 1 /\ Null \notin Span
         /\ \A k \in Nat : SlotOf(k) \in Slot
         /\ \A p \in Producer : Index(p) \in Slot
         /\ \A p \in Producer : pc[p] # "idle" => Mine(p) \in Span
         /\ \A p, q \in Producer : Mine(p) = Mine(q) => p = q
         /\ \A i \in 1..head_ : added[i] \in Span
         /\ \A p \in Producer, i \in 1..head_ :
              pc[p] # "idle" => added[i] # Mine(p)
  <1>1. MaxSize \in Nat /\ Capacity = MaxSize + 1 /\ Null \notin Span
    BY QueueAssumption DEF Capacity
  <1>2. \A k \in Nat : SlotOf(k) \in Slot
    BY SlotOfType
  <1>3. \A p \in Producer : Index(p) \in Slot
    BY <1>2 DEF IInv, TypeOK, Index
  <1>4. \A p \in Producer : pc[p] # "idle" => Mine(p) \in Span
    BY DEF IInv, LocalInv, Mine, Span
  <1>5. \A p, q \in Producer : Mine(p) = Mine(q) => p = q
    BY DEF Mine
  <1>6. \A i \in 1..head_ : added[i] \in Span
    BY DEF IInv, TypeOK, CountInv
  <1>7. ASSUME NEW p \in Producer, NEW i \in 1..head_, pc[p] # "idle",
               added[i] = Mine(p)
        PROVE  FALSE
    <2>1. added[i][1] = p /\ added[i][2] = nadd[p] /\ nadd[p] \in Nat
      BY <1>7 DEF Mine, IInv, TypeOK
    <2> QED BY <1>7, <2>1 DEF IInv, AddedInv, CountInv
  <1> QED BY <1>1, <1>2, <1>3, <1>4, <1>5, <1>6, <1>7

(* Accepted spans are a producer and a number.                             *)
LEMMA AddedType ==
  ASSUME IInv
  PROVE  \A i \in 1..Len(added) : added[i][1] \in Producer /\ added[i][2] \in Nat
  <1>1. \A s \in Span : s[1] \in Producer /\ s[2] \in Nat
    BY DEF Span
  <1>2. \A i \in 1..Len(added) : added[i] \in Span
    BY DEF IInv, TypeOK
  <1> QED BY <1>1, <1>2

(* Positions between tail_ and head_, and those the consumer is emptying,  *)
(* have a slot and a span.                                                 *)
LEMMA Positions ==
  ASSUME IInv
  PROVE  /\ \A k \in tail_..(head_ - 1) :
              k \in Nat /\ SlotOf(k) \in Slot /\ k + 1 \in 1..head_
         /\ cpc = "take" => \A i \in 1..n :
              range[i] \in Slot /\ tail_ - n + i \in 1..head_
         /\ done \in Nat /\ n \in Nat
  <1>1. /\ head_ \in Nat /\ tail_ \in Nat /\ tail_ <= head_
        /\ n \in Nat /\ done \in Nat
    BY DEF IInv, TypeOK, CountInv
  <1>2. ASSUME NEW k \in tail_..(head_ - 1)
        PROVE  k \in Nat /\ SlotOf(k) \in Slot /\ k + 1 \in 1..head_
    <2>1. k \in Nat /\ k + 1 \in 1..head_
      BY <1>1
    <2> QED BY <2>1, SlotOfType
  <1>3. ASSUME cpc = "take", NEW i \in 1..n
        PROVE  range[i] \in Slot /\ tail_ - n + i \in 1..head_
    BY <1>1, <1>3 DEF IInv, TypeOK, ConsumeInv
  <1> QED BY <1>1, <1>2, <1>3

(* A call of Add: a new span, not accepted before.                         *)
LEMMA CallAddInv ==
  ASSUME IInv, NEW p \in Producer, CallAdd(p)
  PROVE  IInv'
  <1> USE DEF CallAdd, Goto, consumer
  <1>1. TypeOK'
    <2>1. nadd[p] + 1 \in 1..MaxAdds
      BY QueueAssumption DEF IInv, TypeOK
    <2>2. <<p, nadd[p] + 1>> \in Span /\ 1..MaxAdds \subseteq 0..MaxAdds
      BY <2>1 DEF Span
    <2> QED BY <2>1, <2>2 DEF IInv, TypeOK, PC
  <1>2. CountInv' /\ LocalInv'
    BY QueueAssumption DEF IInv, TypeOK, CountInv, LocalInv, Holding
  <1>3. OwnInv'
    BY DEF IInv, TypeOK, OwnInv, Holding, Trying, Mine, Index
  <1>4. AddedInv'
    BY AddedType DEF IInv, TypeOK, AddedInv
  <1>5. QueuedInv' /\ ConsumeInv' /\ TakenInv'
    BY DEF IInv, QueuedInv, ConsumeInv, TakenInv, Pending
  <1>6. CleanInv'
    BY DEF IInv, TypeOK, CleanInv, Holding, Index
  <1> QED BY <1>1, <1>2, <1>3, <1>4, <1>5, <1>6 DEF IInv

(* Steps of Add that only move a producer and change its locals.           *)
LEMMA LocalStepInv ==
  ASSUME IInv, NEW p \in Producer,
         \/ ReadTail(p) \/ ReadHead(p) \/ SwapFails(p) \/ PublishFails(p)
  PROVE  IInv'
  <1> USE DEF Goto, consumer
  <1>1. CASE ReadTail(p)
    <2> USE <1>1 DEF ReadTail
    <2>1. TypeOK'
      BY DEF IInv, TypeOK, PC
    <2>2. CountInv' /\ LocalInv' /\ AddedInv'
      BY DEF IInv, TypeOK, CountInv, LocalInv, AddedInv, Holding
    <2>3. OwnInv' /\ CleanInv'
      BY DEF IInv, TypeOK, OwnInv, CleanInv, Holding, Trying, Mine, Index
    <2>4. QueuedInv' /\ ConsumeInv' /\ TakenInv'
      BY DEF IInv, QueuedInv, ConsumeInv, TakenInv, Pending
    <2> QED BY <2>1, <2>2, <2>3, <2>4 DEF IInv
  <1>2. CASE ReadHead(p)
    <2> USE <1>2 DEF ReadHead
    <2>1. TypeOK'
      BY DEF IInv, TypeOK, PC
    <2>2. CountInv' /\ LocalInv' /\ AddedInv'
      BY Facts DEF IInv, TypeOK, CountInv, LocalInv, AddedInv, Holding
    <2>3. OwnInv' /\ CleanInv'
      BY DEF IInv, TypeOK, OwnInv, CleanInv, Holding, Trying, Mine, Index
    <2>4. QueuedInv' /\ ConsumeInv' /\ TakenInv'
      BY DEF IInv, QueuedInv, ConsumeInv, TakenInv, Pending
    <2> QED BY <2>1, <2>2, <2>3, <2>4 DEF IInv
  <1>3. CASE SwapFails(p)
    <2> USE <1>3 DEF SwapFails
    <2>1. TypeOK'
      BY DEF IInv, TypeOK, PC
    <2>2. CountInv' /\ LocalInv'
      BY DEF IInv, TypeOK, CountInv, LocalInv, Holding
    <2>3. AddedInv'
      BY AddedType DEF IInv, TypeOK, AddedInv
    <2>4. OwnInv'
      BY DEF IInv, TypeOK, OwnInv, Holding, Trying, Mine, Index
    <2>5. CleanInv'
      BY DEF IInv, TypeOK, CleanInv, Holding, Index
    <2>6. QueuedInv' /\ ConsumeInv' /\ TakenInv'
      BY DEF IInv, QueuedInv, ConsumeInv, TakenInv, Pending
    <2> QED BY <2>1, <2>2, <2>3, <2>4, <2>5, <2>6 DEF IInv
  <1>4. CASE PublishFails(p)
    <2> USE <1>4 DEF PublishFails
    <2>1. TypeOK'
      BY DEF IInv, TypeOK, PC
    <2>2. CountInv' /\ LocalInv'
      BY DEF IInv, TypeOK, CountInv, LocalInv, Holding
    <2>3. AddedInv'
      BY AddedType DEF IInv, TypeOK, AddedInv
    <2>4. OwnInv'
      BY DEF IInv, TypeOK, OwnInv, Holding, Trying, Mine, Index
    <2>5. CleanInv'
      BY DEF IInv, TypeOK, CleanInv, Holding, Index
    <2>6. QueuedInv' /\ ConsumeInv' /\ TakenInv'
      BY DEF IInv, QueuedInv, ConsumeInv, TakenInv, Pending
    <2> QED BY <2>1, <2>2, <2>3, <2>4, <2>5, <2>6 DEF IInv
  <1> QED BY <1>1, <1>2, <1>3, <1>4

(* Add returns false: the span is gone, the buffer is as it was.           *)
LEMMA RefuseInv ==
  ASSUME IInv, NEW p \in Producer, Refuse(p)
  PROVE  IInv'
  <1> USE DEF Refuse, Return, Goto, consumer
  <1>1. TypeOK'
    BY DEF IInv, TypeOK, PC
  <1>2. CountInv' /\ LocalInv' /\ AddedInv'
    BY DEF IInv, TypeOK, CountInv, LocalInv, AddedInv, Holding
  <1>3. OwnInv' /\ CleanInv'
    BY DEF IInv, TypeOK, OwnInv, CleanInv, Holding, Trying, Mine, Index
  <1>4. QueuedInv' /\ ConsumeInv' /\ TakenInv'
    BY DEF IInv, QueuedInv, ConsumeInv, TakenInv, Pending
  <1> QED BY <1>1, <1>2, <1>3, <1>4 DEF IInv

(* The span goes into a slot that was null, so no other span is lost.      *)
LEMMA SwapIfNullInv ==
  ASSUME IInv, NEW p \in Producer, SwapIfNull(p)
  PROVE  IInv'
  <1> USE DEF SwapIfNull, Goto, consumer
  <1>0. ptr[p] = Mine(p) /\ Mine(p) \in Span /\ Index(p) \in Slot
    BY Facts DEF IInv, OwnInv, Trying
  <1>1. TypeOK'
    BY <1>0 DEF IInv, TypeOK, PC
  <1>2. \A s \in Slot : data_[s] # Null => data_'[s] = data_[s]
    BY DEF IInv, TypeOK
  <1>3. CountInv' /\ LocalInv' /\ AddedInv'
    BY DEF IInv, TypeOK, CountInv, LocalInv, AddedInv, Holding
  <1>4. OwnInv'
    <2> SUFFICES ASSUME NEW q \in Producer
                 PROVE  /\ pc'[q] = "idle" => ptr'[q] = Null
                        /\ pc'[q] \in Trying => ptr'[q] = Mine(q)
                        /\ pc'[q] \in Holding =>
                             ptr'[q] = Null /\ data_'[Index(q)] = Mine(q)
      BY DEF OwnInv, Mine, Index
    <2>1. CASE q = p
      BY <1>0, <2>1 DEF IInv, TypeOK, Holding, Trying
    <2>2. CASE q # p
      <3>1. pc'[q] = pc[q] /\ ptr'[q] = ptr[q]
        BY <2>2 DEF IInv, TypeOK
      <3>2. pc[q] \in Holding => Mine(q) # Null /\ Index(q) \in Slot
        BY Facts DEF Holding
      <3> QED BY <1>2, <3>1, <3>2 DEF IInv, OwnInv
    <2> QED BY <2>1, <2>2
  <1>5. QueuedInv'
    <2>1. \A k \in tail_..(head_ - 1) :
            SlotOf(k) \in Slot /\ added[k + 1] # Null
      BY Positions, Facts
    <2> QED BY <1>2, <2>1 DEF IInv, QueuedInv
  <1>6. ConsumeInv'
    <2>1. cpc = "take" => \A i \in (done + 1)..n :
            /\ range[i] \in Slot
            /\ added[tail_ - n + i] # Null
      BY Positions, Facts
    <2> QED BY <1>2, <2>1 DEF IInv, ConsumeInv
  <1>7. TakenInv'
    BY DEF IInv, TakenInv, Pending
  <1>8. CleanInv'
    BY <1>0 DEF IInv, TypeOK, CleanInv, Holding, Index
  <1> QED BY <1>1, <1>3, <1>4, <1>5, <1>6, <1>7, <1>8 DEF IInv

(* head_ moves over the slot that holds the span: the span is queued.      *)
LEMMA PublishInv ==
  ASSUME IInv, NEW p \in Producer, Publish(p)
  PROVE  IInv'
  <1> USE DEF Publish, Return, Goto, consumer
  <1>0. /\ head_ \in Nat /\ tail_ \in Nat /\ head[p] = head_
        /\ head_' = head_ + 1 /\ head_ + 1 - tail_ <= MaxSize
        /\ Mine(p) \in Span /\ data_[SlotOf(head_)] = Mine(p)
        /\ SlotOf(head_) = Index(p)
    <2>1. /\ head_ \in Nat /\ tail_ \in Nat /\ tail[p] \in Nat
          /\ tail[p] <= tail_ /\ head[p] - tail[p] < MaxSize
          /\ MaxSize \in Nat
      BY QueueAssumption DEF IInv, TypeOK, LocalInv, Holding
    <2>2. Mine(p) \in Span /\ data_[Index(p)] = Mine(p)
      BY Facts DEF IInv, OwnInv, Holding
    <2>3. Index(p) = SlotOf(head_)
      BY DEF Index
    <2> QED BY <2>1, <2>2, <2>3
  <1>1. /\ Len(added') = head_ + 1
        /\ \A i \in 1..head_ : added'[i] = added[i]
        /\ added'[head_ + 1] = Mine(p)
        /\ added' \in Seq(Span)
    BY <1>0 DEF IInv, TypeOK, CountInv
  <1>2. TypeOK'
    BY <1>0, <1>1 DEF IInv, TypeOK, PC, Adding
  <1>3. CountInv'
    BY <1>0, <1>1 DEF IInv, CountInv
  <1>4. LocalInv'
    BY <1>0 DEF IInv, TypeOK, LocalInv, Holding
  <1>5. OwnInv'
    BY DEF IInv, TypeOK, OwnInv, Holding, Trying, Mine, Index
  <1>6. AddedInv'
    <2>1. /\ Mine(p)[1] = p /\ Mine(p)[2] = nadd[p] /\ nadd[p] \in Nat
          /\ \A i \in 1..head_ : added[i] # Mine(p)
      <3>1. \A i \in 1..head_ : added[i] # Mine(p)
        BY Facts
      <3> QED BY <3>1 DEF Mine, IInv, TypeOK
    <2>2. \A i \in 1..(head_ + 1) : i \in 1..head_ \/ i = head_ + 1
      BY <1>0
    <2>3. ASSUME NEW i \in 1..(head_ + 1)
          PROVE  /\ added'[i][2] <= nadd'[added'[i][1]]
                 /\ pc'[added'[i][1]] # "idle" =>
                      added'[i][2] < nadd'[added'[i][1]]
      <3>1. CASE i = head_ + 1
        BY <1>1, <2>1, <3>1 DEF IInv, TypeOK
      <3>2. CASE i \in 1..head_
        <4>1. added[i][1] \in Producer
          BY <3>2, Facts DEF Span
        <4> QED BY <1>1, <3>2, <4>1 DEF IInv, TypeOK, AddedInv, CountInv
      <3> QED BY <2>2, <3>1, <3>2
    <2>4. ASSUME NEW i \in 1..(head_ + 1), NEW j \in 1..(head_ + 1),
                 added'[i] = added'[j]
          PROVE  i = j
      <3>1. CASE i \in 1..head_ /\ j \in 1..head_
        BY <1>1, <2>4, <3>1 DEF IInv, AddedInv, CountInv
      <3> QED BY <1>1, <2>1, <2>2, <2>4, <3>1
    <2> QED BY <1>1, <2>3, <2>4 DEF AddedInv
  <1>7. QueuedInv'
    <2>1. ASSUME NEW k \in tail_..(head_' - 1)
          PROVE  data_'[SlotOf(k)] = added'[k + 1]
      <3>1. CASE k = head_
        BY <1>0, <1>1, <3>1
      <3>2. CASE k \in tail_..(head_ - 1)
        <4>1. k + 1 \in 1..head_ /\ data_[SlotOf(k)] = added[k + 1]
          BY <3>2, Positions DEF IInv, QueuedInv
        <4> QED BY <1>1, <4>1
      <3>3. k = head_ \/ k \in tail_..(head_ - 1)
        <4>1. head_' - 1 = head_
          BY <1>0
        <4>2. k \in tail_..head_
          BY <4>1
        <4> QED BY <1>0, <4>2
      <3> QED BY <3>1, <3>2, <3>3
    <2>2. tail_' = tail_ /\ \A k : SlotOf(k)' = SlotOf(k)
      BY DEF SlotOf
    <2> QED BY <2>1, <2>2 DEF QueuedInv
  <1>8. ConsumeInv'
    <2>1. cpc = "take" => \A i \in (done + 1)..n :
            added'[tail_ - n + i] = added[tail_ - n + i]
      <3>1. \A i \in (done + 1)..n : i \in 1..n
        BY Positions
      <3> QED BY <1>1, <3>1, Positions
    <2>2. cpc \in {"peek", "advance"} => n <= head_' - tail_
      BY <1>0, Positions DEF IInv, ConsumeInv
    <2> QED BY <2>1, <2>2 DEF IInv, ConsumeInv
  <1>9. TakenInv'
    <2>1. \A i \in 1..Len(taken) : i \in 1..head_
      BY DEF IInv, TypeOK, CountInv, ConsumeInv, TakenInv, Pending
    <2> QED BY <1>1, <2>1 DEF IInv, TakenInv, Pending
  <1>10. CleanInv'
    <2> SUFFICES ASSUME NEW s \in Slot, data_[s] # Null
                 PROVE  \/ \E k \in tail_..head_ : s = SlotOf(k)
                        \/ cpc = "take" /\ \E i \in (done + 1)..n : s = range[i]
                        \/ \E q \in Producer : pc'[q] \in Holding /\ s = Index(q)'
      BY <1>0 DEF CleanInv
    <2>1. CASE \E k \in tail_..(head_ - 1) : s = SlotOf(k)
      BY <1>0, <2>1
    <2>2. CASE cpc = "take" /\ \E i \in (done + 1)..n : s = range[i]
      BY <2>2
    <2>3. CASE \E q \in Producer : pc[q] \in Holding /\ s = Index(q)
      <3>1. PICK q \in Producer : pc[q] \in Holding /\ s = Index(q)
        BY <2>3
      <3>2. CASE q = p
        <4>1. head_ \in tail_..head_ /\ s = SlotOf(head_)
          BY <1>0, <3>1, <3>2 DEF IInv, CountInv
        <4> QED BY <4>1
      <3>3. CASE q # p
        BY <3>1, <3>3 DEF IInv, TypeOK, Index
      <3> QED BY <3>2, <3>3
    <2> QED BY <2>1, <2>2, <2>3 DEF IInv, CleanInv
  <1> QED BY <1>2, <1>3, <1>4, <1>5, <1>6, <1>7, <1>8, <1>9, <1>10 DEF IInv

(* The span is taken back out of its slot, and nothing else is.            *)
LEMMA UndoInv ==
  ASSUME IInv, NEW p \in Producer, Undo(p)
  PROVE  IInv'
  <1> USE DEF Undo, Goto, consumer
  <1>0. /\ ptr[p] = Null /\ data_[Index(p)] = Mine(p) /\ Mine(p) \in Span
        /\ Index(p) \in Slot
    BY Facts DEF IInv, OwnInv, Holding
  <1>1. TypeOK'
    BY <1>0 DEF IInv, TypeOK, PC
  <1>2. \A s \in Slot : data_[s] # Mine(p) => data_'[s] = data_[s]
    BY <1>0 DEF IInv, TypeOK
  <1>3. data_'[Index(p)] = Null
    BY <1>0 DEF IInv, TypeOK
  <1>4. CountInv' /\ LocalInv' /\ AddedInv'
    BY DEF IInv, TypeOK, CountInv, LocalInv, AddedInv, Holding
  <1>5. OwnInv'
    <2> SUFFICES ASSUME NEW q \in Producer
                 PROVE  /\ pc'[q] = "idle" => ptr'[q] = Null
                        /\ pc'[q] \in Trying => ptr'[q] = Mine(q)
                        /\ pc'[q] \in Holding =>
                             ptr'[q] = Null /\ data_'[Index(q)] = Mine(q)
      BY DEF OwnInv, Mine, Index
    <2>1. CASE q = p
      BY <1>0, <2>1 DEF IInv, TypeOK, Holding, Trying
    <2>2. CASE q # p
      <3>1. pc'[q] = pc[q] /\ ptr'[q] = ptr[q]
        BY <2>2 DEF IInv, TypeOK
      <3>2. Mine(q) # Mine(p) /\ Index(q) \in Slot
        BY <2>2, Facts
      <3> QED BY <1>2, <3>1, <3>2 DEF IInv, OwnInv
    <2> QED BY <2>1, <2>2
  <1>6. QueuedInv'
    <2>1. \A k \in tail_..(head_ - 1) :
            SlotOf(k) \in Slot /\ added[k + 1] # Mine(p)
      BY Positions, Facts
    <2> QED BY <1>2, <2>1 DEF IInv, QueuedInv
  <1>7. ConsumeInv'
    <2>1. cpc = "take" => \A i \in (done + 1)..n :
            /\ range[i] \in Slot
            /\ added[tail_ - n + i] # Mine(p)
      BY Positions, Facts
    <2> QED BY <1>2, <2>1 DEF IInv, ConsumeInv
  <1>8. TakenInv'
    BY DEF IInv, TakenInv, Pending
  <1>9. CleanInv'
    <2> SUFFICES ASSUME NEW s \in Slot, data_'[s] # Null
                 PROVE  \/ \E k \in tail_..(head_ - 1) : s = SlotOf(k)
                        \/ cpc = "take" /\ \E i \in (done + 1)..n : s = range[i]
                        \/ \E q \in Producer : pc'[q] \in Holding /\ s = Index(q)
      BY DEF CleanInv, Index
    <2>1. s # Index(p) /\ data_[s] # Null
      BY <1>0, <1>3 DEF IInv, TypeOK
    <2>2. \A q \in Producer : q # p => pc'[q] = pc[q]
      BY DEF IInv, TypeOK
    <2> QED BY <2>1, <2>2 DEF IInv, CleanInv
  <1> QED BY <1>1, <1>4, <1>5, <1>6, <1>7, <1>8, <1>9 DEF IInv

(* A call of Consume for no more than is there.                            *)
LEMMA CallConsumeInv ==
  ASSUME IInv, NEW k \in 1..MaxSize, CallConsume(k)
  PROVE  IInv'
  <1> USE DEF CallConsume, producers
  <1>1. TypeOK'
    BY DEF IInv, TypeOK, PC
  <1>2. CountInv' /\ LocalInv' /\ AddedInv' /\ QueuedInv'
    BY DEF IInv, CountInv, LocalInv, AddedInv, QueuedInv
  <1>3. OwnInv'
    BY DEF IInv, OwnInv, Mine, Index
  <1>4. ConsumeInv'
    BY DEF IInv, TypeOK, ConsumeInv
  <1>5. TakenInv'
    BY DEF IInv, TakenInv, Pending
  <1>6. CleanInv'
    BY DEF IInv, CleanInv, Index
  <1> QED BY <1>1, <1>2, <1>3, <1>4, <1>5, <1>6 DEF IInv

(* The slots peeked are those of the next n positions.                     *)
LEMMA PeekInv ==
  ASSUME IInv, Peek
  PROVE  IInv'
  <1> USE DEF Peek, producers
  <1>0. /\ n \in Nat /\ tail_ \in Nat
        /\ n <= head_ - tail_ /\ n >= 1 /\ n <= MaxSize /\ MaxSize \in Nat
    BY QueueAssumption DEF IInv, TypeOK, CountInv, ConsumeInv
  <1>1. \A i \in 1..n : PeekSlot(i) = SlotOf(tail_ + i - 1) /\ PeekSlot(i) \in Slot
    <2> TAKE i \in 1..n
    <2>1. i \in 1..MaxSize /\ tail_ + i - 1 \in Nat
      BY <1>0
    <2> QED BY <2>1, PeekIsRight, SlotOfType
  <1>2. /\ range' = [i \in 1..n |-> PeekSlot(i)]
        /\ range' \in Seq(Slot) /\ Len(range') = n
    BY <1>0, <1>1
  <1>3. TypeOK'
    BY <1>2 DEF IInv, TypeOK
  <1>4. CountInv' /\ LocalInv' /\ AddedInv' /\ QueuedInv'
    BY DEF IInv, CountInv, LocalInv, AddedInv, QueuedInv
  <1>5. OwnInv'
    BY DEF IInv, OwnInv, Mine, Index
  <1>6. ConsumeInv'
    BY <1>0, <1>1, <1>2 DEF ConsumeInv
  <1>7. TakenInv'
    BY DEF IInv, TakenInv, Pending
  <1>8. CleanInv'
    BY DEF IInv, CleanInv, Index
  <1> QED BY <1>3, <1>4, <1>5, <1>6, <1>7, <1>8 DEF IInv

(* tail_ advances: the n spans pass from the queue to the consumer.        *)
LEMMA AdvanceInv ==
  ASSUME IInv, Advance
  PROVE  IInv'
  <1> USE DEF Advance, producers
  <1>0. /\ n \in Nat /\ tail_ \in Nat /\ head_ \in Nat
        /\ tail_' = tail_ + n /\ n <= head_ - tail_ /\ n >= 1
        /\ Len(range) = n /\ tail_' - n = tail_
    BY DEF IInv, TypeOK, ConsumeInv
  <1>1. TypeOK'
    BY <1>0 DEF IInv, TypeOK, Adding
  <1>2. CountInv'
    BY <1>0, Facts DEF IInv, CountInv
  <1>3. LocalInv'
    <2> SUFFICES ASSUME NEW p \in Producer
                 PROVE  /\ pc[p] # "idle" => nadd[p] \in 1..MaxAdds
                        /\ pc[p] \in Holding \cup {"head", "swap"} =>
                             tail[p] <= tail_'
                        /\ pc[p] \in Holding \cup {"swap"} =>
                             head[p] <= head_ /\ head[p] - tail[p] < MaxSize
                        /\ pc[p] = "head" /\ p \notin overtaken' =>
                             tail[p] = tail_'
      BY DEF LocalInv
    <2>1. tail[p] \in Nat /\ (pc[p] = "head" => p \in overtaken')
      BY DEF IInv, TypeOK, Adding
    <2> QED BY <1>0, <2>1 DEF IInv, LocalInv
  <1>4. OwnInv' /\ AddedInv'
    BY DEF IInv, OwnInv, AddedInv, Mine, Index
  <1>5. QueuedInv'
    BY <1>0 DEF IInv, QueuedInv
  <1>6. ConsumeInv'
    <2>1. \A i \in 1..n : range[i] = SlotOf(tail_ + i - 1)
      BY DEF IInv, ConsumeInv
    <2>2. ASSUME NEW i \in 1..n PROVE data_[range[i]] = added[tail_ + i]
      <3>1. /\ tail_ + i - 1 \in tail_..(head_ - 1)
            /\ (tail_ + i - 1) + 1 = tail_ + i
        BY <1>0
      <3> QED BY <2>1, <3>1 DEF IInv, QueuedInv
    <2> QED BY <1>0, <2>1, <2>2 DEF ConsumeInv
  <1>7. TakenInv'
    BY <1>0 DEF IInv, TakenInv, Pending
  <1>8. CleanInv'
    <2> SUFFICES ASSUME NEW s \in Slot, data_[s] # Null
                 PROVE  \/ \E k \in tail_'..(head_ - 1) : s = SlotOf(k)
                        \/ \E i \in 1..n : s = range[i]
                        \/ \E q \in Producer : pc[q] \in Holding /\ s = Index(q)
      BY <1>0 DEF CleanInv, Index
    <2>1. ASSUME NEW k \in tail_..(head_ - 1), s = SlotOf(k)
          PROVE  \/ k \in tail_'..(head_ - 1)
                 \/ k - tail_ + 1 \in 1..n /\ s = range[k - tail_ + 1]
      <3>1. CASE k < tail_ + n
        <4>1. k - tail_ + 1 \in 1..n /\ tail_ + (k - tail_ + 1) - 1 = k
          BY <1>0, <3>1
        <4> QED BY <2>1, <4>1 DEF IInv, ConsumeInv
      <3> QED BY <1>0, <3>1
    <2> QED BY <2>1 DEF IInv, CleanInv
  <1> QED BY <1>1, <1>2, <1>3, <1>4, <1>5, <1>6, <1>7, <1>8 DEF IInv

(* A slot is emptied: it held the oldest span not yet handed over.         *)
LEMMA TakeInv ==
  ASSUME IInv, Take
  PROVE  IInv'
  <1> USE DEF Take, producers
  <1> DEFINE j == done + 1
             x == tail_ - n + j
             r == range[j]
  <1>0. /\ cpc = "take" /\ n \in Nat /\ done \in Nat /\ tail_ \in Nat
        /\ Len(range) = n /\ n <= tail_ /\ j \in 1..n /\ j \in (done + 1)..n
        /\ x \in 1..head_ /\ x <= tail_ /\ r \in Slot /\ data_[r] = added[x]
        /\ added[x] \in Span
    <2>1. /\ cpc = "take" /\ n \in Nat /\ done \in Nat /\ tail_ \in Nat
          /\ Len(range) = n /\ n <= tail_ /\ j \in 1..n /\ j \in (done + 1)..n
          /\ x <= tail_
      BY DEF IInv, TypeOK, ConsumeInv
    <2>2. x \in 1..head_ /\ r \in Slot
      BY <2>1, Positions
    <2>3. data_[r] = added[x]
      BY <2>1 DEF IInv, ConsumeInv
    <2> QED BY <2>1, <2>2, <2>3, Facts
  <1>1. /\ data_' = [data_ EXCEPT ![r] = Null] /\ done' = j
        /\ taken' = Append(taken, added[x])
    BY <1>0
  <1> HIDE DEF r
  <1>2. \A s \in Slot : data_[s] # added[x] => data_'[s] = data_[s]
    BY <1>0, <1>1 DEF IInv, TypeOK
  <1>3. \A i \in 1..head_ : i # x => added[i] # added[x]
    BY <1>0 DEF IInv, CountInv, AddedInv
  <1>4. TypeOK'
    BY <1>0, <1>1 DEF IInv, TypeOK
  <1>5. CountInv' /\ LocalInv' /\ AddedInv'
    BY DEF IInv, CountInv, LocalInv, AddedInv
  <1>6. OwnInv'
    <2> SUFFICES ASSUME NEW q \in Producer, pc[q] \in Holding
                 PROVE  data_'[Index(q)] = Mine(q)
      BY DEF IInv, OwnInv, Mine, Index
    <2>1. data_[Index(q)] = Mine(q) /\ Index(q) \in Slot /\ Mine(q) # added[x]
      BY <1>0, Facts DEF IInv, OwnInv, Holding
    <2> QED BY <1>2, <2>1
  <1>7. QueuedInv'
    <2>1. ASSUME NEW k \in tail_..(head_ - 1)
          PROVE  data_'[SlotOf(k)] = added[k + 1]
      <3>1. /\ data_[SlotOf(k)] = added[k + 1] /\ SlotOf(k) \in Slot
            /\ k + 1 \in 1..head_ /\ k + 1 # x
        BY <1>0, Positions DEF IInv, QueuedInv
      <3> QED BY <1>2, <1>3, <3>1
    <2> QED BY <2>1 DEF QueuedInv
  <1>8. ConsumeInv'
    <2>1. ASSUME NEW i \in (done' + 1)..n
          PROVE  data_'[range[i]] = added[tail_ - n + i]
      <3>1. i \in (done + 1)..n /\ i \in 1..n /\ tail_ - n + i # x
        BY <1>0, <1>1
      <3>2. data_[range[i]] = added[tail_ - n + i]
        BY <1>0, <3>1 DEF IInv, ConsumeInv
      <3>3. range[i] \in Slot /\ tail_ - n + i \in 1..head_
        BY <1>0, <3>1, Positions
      <3> QED BY <1>2, <1>3, <3>1, <3>2, <3>3
    <2> QED BY <1>0, <1>1, <2>1 DEF IInv, ConsumeInv
  <1>9. TakenInv'
    <2>1. Len(taken) = x - 1 /\ taken \in Seq(Span)
      BY <1>0 DEF IInv, TypeOK, TakenInv, Pending
    <2>2. /\ Len(taken') = x /\ taken'[x] = added[x]
          /\ \A i \in 1..(x - 1) : taken'[i] = taken[i]
      <3>1. added[x] \in Span /\ taken' = Append(taken, added[x])
        BY <1>0, <1>1
      <3>2. x \in Nat /\ Len(taken) + 1 = x
        BY <1>0, <2>1
      <3> HIDE DEF x
      <3> QED BY <2>1, <3>1, <3>2
    <2>3. x = tail_ - Pending'
      BY <1>0, <1>1 DEF Pending
    <2> HIDE DEF x
    <2> QED BY <1>0, <2>1, <2>2, <2>3 DEF IInv, TakenInv
  <1>10. CleanInv'
    <2> SUFFICES ASSUME NEW s \in Slot, data_'[s] # Null
                 PROVE  \/ \E k \in tail_..(head_ - 1) : s = SlotOf(k)
                        \/ \E i \in (done' + 1)..n : s = range[i]
                        \/ \E q \in Producer : pc[q] \in Holding /\ s = Index(q)
      BY <1>0 DEF CleanInv, Index
    <2>1. s # r /\ data_[s] # Null
      BY <1>0, <1>1 DEF IInv, TypeOK
    <2>2. \A i \in (done + 1)..n : s = range[i] => i \in (done' + 1)..n
      BY <1>0, <1>1, <2>1 DEF r
    <2> QED BY <2>1, <2>2 DEF IInv, CleanInv
  <1> QED BY <1>4, <1>5, <1>6, <1>7, <1>8, <1>9, <1>10 DEF IInv

(* Consume returns with its slots empty.                                   *)
LEMMA ReturnConsumeInv ==
  ASSUME IInv, ReturnConsume
  PROVE  IInv'
  <1> USE DEF ReturnConsume, producers
  <1>0. cpc = "take" /\ done = n /\ n \in Nat
    BY DEF IInv, TypeOK, ConsumeInv
  <1>1. TypeOK'
    BY DEF IInv, TypeOK
  <1>2. CountInv' /\ LocalInv' /\ AddedInv' /\ QueuedInv' /\ ConsumeInv'
    BY DEF IInv, CountInv, LocalInv, AddedInv, QueuedInv, ConsumeInv
  <1>3. OwnInv'
    BY DEF IInv, OwnInv, Mine, Index
  <1>4. TakenInv'
    BY <1>0 DEF IInv, TypeOK, TakenInv, Pending
  <1>5. CleanInv'
    <2>1. (done + 1)..n = {}
      BY <1>0
    <2> QED BY <2>1 DEF IInv, CleanInv, Index
  <1> QED BY <1>1, <1>2, <1>3, <1>4, <1>5 DEF IInv

(* A step that changes nothing keeps the invariant.                        *)
LEMMA StutterInv ==
  ASSUME IInv, UNCHANGED vars
  PROVE  IInv'
  <1> USE DEF vars, producers, consumer
  <1>1. TypeOK' /\ CountInv' /\ LocalInv' /\ AddedInv' /\ QueuedInv'
    BY DEF IInv, TypeOK, CountInv, LocalInv, AddedInv, QueuedInv
  <1>2. OwnInv' /\ CleanInv'
    BY DEF IInv, OwnInv, CleanInv, Mine, Index
  <1>3. ConsumeInv' /\ TakenInv'
    BY DEF IInv, ConsumeInv, TakenInv, Pending
  <1> QED BY <1>1, <1>2, <1>3 DEF IInv

(* IInv is inductive.                                                      *)
LEMMA QueueNextInv == IInv /\ [Next]_vars => IInv'
  <1> SUFFICES ASSUME IInv, [Next]_vars PROVE IInv'
    OBVIOUS
  <1>1. ASSUME NEW p \in Producer, CallAdd(p) \/ Add(p) PROVE IInv'
    BY <1>1, CallAddInv, LocalStepInv, RefuseInv, SwapIfNullInv, PublishInv,
       UndoInv DEF Add
  <1>2. ASSUME NEW k \in 1..MaxSize, CallConsume(k) PROVE IInv'
    BY <1>2, CallConsumeInv
  <1>3. CASE Consume
    BY <1>3, PeekInv, AdvanceInv, TakeInv, ReturnConsumeInv DEF Consume
  <1>4. CASE UNCHANGED vars
    BY <1>4, StutterInv
  <1> QED BY <1>1, <1>2, <1>3, <1>4 DEF Next

(* Every reachable state satisfies it.                                     *)
THEOREM QueueInvariant == Spec => []IInv
  <1> QED BY InitInv, QueueNextInv, PTL DEF Spec

(* The buffer's members and the locals of its operations keep their types. *)
THEOREM QueueTypeCorrect == Spec => []TypeOK
  <1>1. IInv => TypeOK
    BY DEF IInv
  <1> QED BY <1>1, QueueInvariant, PTL

(* Spans reach the exporter once, in order, and none is lost or null.      *)
THEOREM DeliveryHolds == Spec => []Delivery
  <1>1. IInv => Delivery
    <2> SUFFICES ASSUME IInv PROVE Delivery
      OBVIOUS
    <2>1. cpc = "take" => Len(range) = n
      BY DEF IInv, ConsumeInv
    <2> QED BY <2>1 DEF IInv, Delivery, TakenInv, CountInv, Pending
  <1> QED BY <1>1, QueueInvariant, PTL

(* The queue is bounded, its counters do not cross, and PeekImpl and       *)
(* size() agree.                                                           *)
THEOREM BoundedHolds == Spec => []Bounded
  <1>1. IInv => Bounded
    <2> SUFFICES ASSUME IInv PROVE Bounded
      OBVIOUS
    <2>1. head_ - tail_ \in 0..MaxSize
      BY QueueAssumption DEF IInv, TypeOK, CountInv
    <2>2. \A p \in Producer : pc[p] = "head" => head_ >= tail[p]
      BY DEF IInv, TypeOK, CountInv, LocalInv
    <2>3. cpc = "peek" => n <= PeekSize
      BY PeekIsRight DEF IInv, ConsumeInv
    <2> QED BY <2>1, <2>2, <2>3 DEF Bounded
  <1> QED BY <1>1, QueueInvariant, PTL

(* A span has one owner, and an idle buffer keeps none back.               *)
THEOREM OneOwnerHolds == Spec => []OneOwner
  <1>1. IInv => OneOwner
    <2> SUFFICES ASSUME IInv PROVE OneOwner
      OBVIOUS
    <2> DEFINE Q(s) == \E k \in 1..head_ : data_[s] = added[k] /\ s = SlotOf(k - 1)
               H(s) == \E p \in Producer : /\ pc[p] # "idle" /\ s = Index(p)
                                           /\ data_[s] = Mine(p)
                                           /\ ptr[p] = Null
    <2>1. ASSUME NEW s \in Slot, data_[s] # Null PROVE Q(s) \/ H(s)
      <3>1. CASE \E k \in tail_..(head_ - 1) : s = SlotOf(k)
        <4>1. PICK k \in tail_..(head_ - 1) : s = SlotOf(k)
          BY <3>1
        <4>2. k + 1 \in 1..head_ /\ (k + 1) - 1 = k /\ data_[s] = added[k + 1]
          BY <4>1, Positions DEF IInv, QueuedInv
        <4> QED BY <4>1, <4>2
      <3>2. CASE cpc = "take" /\ \E i \in (done + 1)..n : s = range[i]
        <4>1. PICK i \in (done + 1)..n : s = range[i]
          BY <3>2
        <4>2. i \in 1..n
          BY Positions
        <4>3. /\ data_[s] = added[tail_ - n + i] /\ s = SlotOf(tail_ - n + i - 1)
              /\ tail_ - n + i \in 1..head_
          BY <3>2, <4>1, <4>2, Positions DEF IInv, ConsumeInv
        <4> DEFINE k == tail_ - n + i
        <4>4. k \in 1..head_ /\ data_[s] = added[k] /\ s = SlotOf(k - 1)
          <5>1. tail_ - n + i - 1 = k - 1
            BY <4>2 DEF IInv, TypeOK
          <5> QED BY <4>3, <5>1
        <4> HIDE DEF k
        <4> QED BY <4>4
      <3>3. CASE \E p \in Producer : pc[p] \in Holding /\ s = Index(p)
        BY <3>3 DEF IInv, OwnInv, Holding
      <3> QED BY <2>1, <3>1, <3>2, <3>3 DEF IInv, CleanInv
    <2>2. ASSUME NEW s \in Slot, NEW t \in Slot, data_[s] # Null,
                 data_[s] = data_[t]
          PROVE  s = t
      <3>1. CASE Q(s) /\ Q(t)
        BY <2>2, <3>1 DEF IInv, AddedInv, CountInv
      <3>2. CASE H(s) /\ H(t)
        BY <2>2, <3>2, Facts
      <3>3. CASE (Q(s) /\ H(t)) \/ (H(s) /\ Q(t))
        BY <2>2, <3>3, Facts
      <3> QED BY <2>1, <2>2, <3>1, <3>2, <3>3
    <2>3. ASSUME NEW p \in Producer, ptr[p] # Null, NEW s \in Slot,
                 data_[s] = ptr[p]
          PROVE  FALSE
      <3>1. pc[p] \in Trying /\ ptr[p] = Mine(p) /\ pc[p] # "idle"
        BY <2>3 DEF IInv, TypeOK, OwnInv, PC, Trying, Holding
      <3>2. CASE Q(s)
        BY <2>3, <3>1, <3>2, Facts
      <3>3. CASE H(s)
        BY <2>3, <3>1, <3>3, Facts
      <3> QED BY <2>1, <2>3, <3>2, <3>3
    <2>4. ASSUME Adding = {}, cpc = "idle", NEW s \in Slot, data_[s] # Null
          PROVE  \E k \in tail_..(head_ - 1) : SlotOf(k) = s
      BY <2>4 DEF IInv, CleanInv, Adding, Holding
    <2> QED BY <2>2, <2>3, <2>4 DEF OneOwner
  <1> QED BY <1>1, QueueInvariant, PTL
-----------------------------------------------------------------------------
(* The circular buffer implements the bounded queue.                       *)


(* The abstract variables, as the refinement mapping of SpanQueue has them *)
(* and as the invariant lets one read them off the history of Add.         *)
MappedQueue == [i \in 1..(head_ - tail_) |-> data_[SlotOf(tail_ + i - 1)]]
MappedRemoved ==
  taken \o IF cpc = "take"
           THEN [i \in 1..(Len(range) - done) |-> data_[range[done + i]]]
           ELSE <<>>

AddedQueue   == [i \in 1..(head_ - tail_) |-> added[tail_ + i]]
AddedRemoved == [i \in 1..tail_ |-> added[i]]

(* A sequence is a function on the numbers up to its length.               *)
LEMMA SeqIsFunction ==
  ASSUME NEW S, NEW q \in Seq(S), NEW m, m = Len(q), NEW f,
         f = [i \in 1..m |-> f[i]], \A i \in 1..m : q[i] = f[i]
  PROVE  q = f
  <1>1. q = [i \in 1..Len(q) |-> q[i]]
    OBVIOUS
  <1> QED BY <1>1

(* What is between tail_ and head_ are the last spans accepted.            *)
LEMMA QueueIsAdded ==
  ASSUME IInv
  PROVE  MappedQueue = AddedQueue
  <1>1. ASSUME NEW i \in 1..(head_ - tail_)
        PROVE  data_[SlotOf(tail_ + i - 1)] = added[tail_ + i]
    <2>1. /\ tail_ + i - 1 \in tail_..(head_ - 1)
          /\ (tail_ + i - 1) + 1 = tail_ + i
      BY DEF IInv, TypeOK
    <2> QED BY <2>1 DEF IInv, QueuedInv
  <1> QED BY <1>1 DEF MappedQueue, AddedQueue

(* What has been handed over, with what Consume still has to hand over,    *)
(* are the first spans accepted.                                           *)
LEMMA RemovedIsAdded ==
  ASSUME IInv
  PROVE  MappedRemoved = AddedRemoved
  <1>0. /\ tail_ \in Nat /\ taken \in Seq(Span) /\ n \in Nat /\ done \in Nat
        /\ \A i \in 1..Len(taken) : taken[i] = added[i]
        /\ Len(taken) = tail_ - Pending
    BY DEF IInv, TypeOK, TakenInv
  <1>1. CASE cpc # "take"
    <2>1. Len(taken) = tail_ /\ MappedRemoved = taken \o <<>>
      BY <1>0, <1>1 DEF Pending, MappedRemoved
    <2>2. MappedRemoved = taken
      BY <1>0, <2>1
    <2>3. taken = [i \in 1..Len(taken) |-> taken[i]]
      BY <1>0
    <2> QED BY <1>0, <2>1, <2>2, <2>3 DEF AddedRemoved
  <1>2. CASE cpc = "take"
    <2> DEFINE rest == [i \in 1..(n - done) |-> data_[range[done + i]]]
    <2>1. /\ Len(range) = n /\ n <= tail_ /\ done <= n
          /\ Len(taken) = tail_ - (n - done)
      BY <1>0, <1>2 DEF IInv, ConsumeInv, Pending
    <2>2. ASSUME NEW i \in 1..(n - done)
          PROVE  /\ rest[i] = added[tail_ - (n - done) + i]
                 /\ rest[i] \in Span
      <3>1. /\ done + i \in (done + 1)..n /\ done + i \in 1..n
            /\ tail_ - n + (done + i) = tail_ - (n - done) + i
        BY <1>0, <2>1
      <3>2. rest[i] = added[tail_ - n + (done + i)]
        BY <1>2, <3>1 DEF IInv, ConsumeInv
      <3>3. tail_ - n + (done + i) \in 1..head_
        BY <1>2, <3>1, Positions
      <3> HIDE DEF rest
      <3> QED BY <3>1, <3>2, <3>3, Facts
    <2>3. rest \in Seq(Span) /\ Len(rest) = n - done
      <3>1. n - done \in Nat
        BY <1>0, <2>1
      <3> QED BY <2>2, <3>1
    <2>4. MappedRemoved = taken \o rest
      BY <1>2, <2>1 DEF MappedRemoved
    <2> HIDE DEF rest
    <2>5. /\ taken \o rest \in Seq(Span) /\ Len(taken \o rest) = tail_
      BY <1>0, <2>1, <2>3
    <2>6. ASSUME NEW i \in 1..tail_ PROVE (taken \o rest)[i] = added[i]
      <3>1. CASE i <= Len(taken)
        BY <1>0, <2>3, <3>1
      <3>2. CASE i > Len(taken)
        <4>1. (taken \o rest)[i] = rest[i - Len(taken)]
          BY <1>0, <2>1, <2>3, <3>2
        <4>2. /\ i - Len(taken) \in 1..(n - done)
              /\ tail_ - (n - done) + (i - Len(taken)) = i
          BY <1>0, <2>1, <3>2
        <4> QED BY <2>2, <4>1, <4>2
      <3>3. i <= Len(taken) \/ i > Len(taken)
        BY <1>0
      <3> QED BY <3>1, <3>2, <3>3
    <2> DEFINE all == taken \o rest
    <2>7. all \in Seq(Span) /\ Len(all) = tail_ /\ \A i \in 1..tail_ : all[i] = added[i]
      BY <2>5, <2>6
    <2> HIDE DEF all
    <2>8. all = [i \in 1..Len(all) |-> all[i]]
      BY <2>7
    <2>9. all = AddedRemoved
      BY <2>7, <2>8 DEF AddedRemoved
    <2> QED BY <2>4, <2>9 DEF all
  <1> QED BY <1>1, <1>2

(* Both hold of the next state as well.                                    *)
LEMMA MappedNext ==
  (IInv => MappedQueue = AddedQueue /\ MappedRemoved = AddedRemoved)'
  <1>1. IInv => MappedQueue = AddedQueue /\ MappedRemoved = AddedRemoved
    BY QueueIsAdded, RemovedIsAdded
  <1> QED BY <1>1, PTL

(* A step that leaves the counters and the history alone leaves the        *)
(* abstract queue alone.                                                   *)
LEMMA QuietStep ==
  ASSUME IInv, IInv', head_' = head_, tail_' = tail_, added' = added
  PROVE  MappedQueue' = MappedQueue /\ MappedRemoved' = MappedRemoved
  <1>1. AddedQueue' = AddedQueue /\ AddedRemoved' = AddedRemoved
    BY DEF AddedQueue, AddedRemoved
  <1>2. MappedQueue' = AddedQueue' /\ MappedRemoved' = AddedRemoved'
    BY MappedNext
  <1> QED BY <1>1, <1>2, QueueIsAdded, RemovedIsAdded
-----------------------------------------------------------------------------
(* The abstract queue as a sequence.                                       *)
LEMMA AddedQueueSeq ==
  ASSUME IInv
  PROVE  /\ head_ \in Nat /\ tail_ \in Nat /\ head_ - tail_ \in Nat
         /\ AddedQueue \in Seq(Span) /\ Len(AddedQueue) = head_ - tail_
         /\ \A i \in 1..(head_ - tail_) : AddedQueue[i] = added[tail_ + i]
  <1>1. head_ \in Nat /\ tail_ \in Nat /\ head_ - tail_ \in Nat
    BY DEF IInv, TypeOK, CountInv
  <1>2. \A i \in 1..(head_ - tail_) : added[tail_ + i] \in Span
    <2> TAKE i \in 1..(head_ - tail_)
    <2>1. tail_ + i \in 1..head_
      BY <1>1
    <2> QED BY <2>1, Facts
  <1> QED BY <1>1, <1>2 DEF AddedQueue

(* A fresh buffer is an empty queue.                                       *)
LEMMA InitRefines == Init => Queue!Init
  <1> SUFFICES ASSUME Init PROVE Queue!Init
    OBVIOUS
  <1>1. Adding = {} /\ overtaken = {} /\ nadd = [p \in Producer |-> 0]
    BY DEF Init, Adding
  <1>2. AddedQueue = <<>> /\ AddedRemoved = <<>>
    BY DEF Init, AddedQueue, AddedRemoved
  <1>3. MappedQueue = <<>> /\ MappedRemoved = <<>>
    BY <1>2, InitInv, QueueIsAdded, RemovedIsAdded
  <1> QED BY <1>1, <1>3 DEF Queue!Init, MappedQueue, MappedRemoved

(* Append keeps the elements and adds one.                                 *)
LEMMA AppendFacts ==
  ASSUME NEW S, NEW s \in Seq(S), NEW e \in S, NEW k \in Nat, Len(s) = k
  PROVE  /\ Append(s, e) \in Seq(S) /\ Len(Append(s, e)) = k + 1
         /\ Append(s, e)[k + 1] = e
         /\ \A i \in 1..k : Append(s, e)[i] = s[i]
  OBVIOUS

(* The exchange of head_ is Put.                                           *)
LEMMA PublishRefines ==
  ASSUME IInv, IInv', NEW p \in Producer, Publish(p)
  PROVE  Queue!Put(p)
  <1> USE DEF Publish, Return, Goto, consumer
  <1>1. /\ p \in Adding /\ Adding' = Adding \ {p}
        /\ overtaken' = overtaken \ {p} /\ nadd' = nadd
    BY DEF IInv, TypeOK, Adding
  <1>2. /\ head_ \in Nat /\ tail_ \in Nat /\ head_' = head_ + 1 /\ tail_' = tail_
        /\ MaxSize \in Nat /\ head_' - tail_' <= MaxSize /\ Len(added) = head_
        /\ added' = Append(added, Mine(p)) /\ Mine(p) \in Span
    BY Facts DEF IInv, TypeOK, CountInv
  <1>3. Len(AddedQueue) < MaxSize
    BY <1>2, AddedQueueSeq
  <1>4. /\ \A i \in 1..head_ : added'[i] = added[i]
        /\ added'[head_ + 1] = Mine(p)
    BY <1>2 DEF IInv, TypeOK
  <1>5. AddedQueue' = Append(AddedQueue, Mine(p))
    <2> DEFINE m == head_ - tail_
    <2>1. /\ m \in Nat /\ AddedQueue \in Seq(Span) /\ Len(AddedQueue) = m
          /\ \A i \in 1..m : AddedQueue[i] = added[tail_ + i]
      BY AddedQueueSeq
    <2>2. AddedQueue' = [i \in 1..(m + 1) |-> added'[tail_ + i]]
      <3>1. head_' - tail_' = m + 1
        BY <1>2
      <3> QED BY <1>2, <3>1 DEF AddedQueue
    <2> DEFINE app == Append(AddedQueue, Mine(p))
    <2>3. /\ app \in Seq(Span) /\ Len(app) = m + 1 /\ app[m + 1] = Mine(p)
          /\ \A i \in 1..m : app[i] = AddedQueue[i]
      <3> HIDE DEF m
      <3>1. Mine(p) \in Span
        BY <1>2
      <3> QED BY <2>1, <3>1, AppendFacts
    <2>4. ASSUME NEW i \in 1..(m + 1)
          PROVE  app[i] = added'[tail_ + i]
      <3>1. CASE i = m + 1
        <4>1. tail_ + i = head_ + 1
          BY <1>2, <3>1
        <4> QED BY <1>4, <2>3, <3>1, <4>1
      <3>2. CASE i # m + 1
        <4>1. i \in 1..m
          BY <2>1, <3>2
        <4>2. tail_ + i \in 1..head_
          BY <1>2, <4>1
        <4> QED BY <1>4, <2>1, <2>3, <4>1, <4>2
      <3> QED BY <3>1, <3>2
    <2> HIDE DEF m, app
    <2>5. app = [i \in 1..(m + 1) |-> app[i]]
      BY <2>3
    <2>6. AddedQueue' = app
      BY <2>2, <2>4, <2>5
    <2> QED BY <2>6 DEF app
  <1>6. AddedRemoved' = AddedRemoved
    <2>1. \A i \in 1..tail_ : i \in 1..head_
      BY <1>2 DEF IInv, CountInv
    <2> QED BY <1>2, <1>4, <2>1 DEF AddedRemoved
  <1> QED BY <1>1, <1>3, <1>5, <1>6, QueueIsAdded, RemovedIsAdded, MappedNext
          DEF Queue!Put, Queue!Return, MappedQueue, MappedRemoved, Mine

(* A refusal is Refuse: without an advance of tail_ during the call, the   *)
(* tail that Add read is the present one.                                  *)
LEMMA RefuseRefines ==
  ASSUME IInv, IInv', NEW p \in Producer, Refuse(p)
  PROVE  Queue!Refuse(p)
  <1> USE DEF Refuse, Return, Goto, consumer
  <1>1. /\ p \in Adding /\ Adding' = Adding \ {p}
        /\ overtaken' = overtaken \ {p} /\ nadd' = nadd
    BY DEF IInv, TypeOK, Adding
  <1>2. head_' = head_ /\ tail_' = tail_ /\ added' = added
    OBVIOUS
  <1>3. MappedQueue' = MappedQueue /\ MappedRemoved' = MappedRemoved
    BY <1>2, QuietStep
  <1>4. Len(MappedQueue) = MaxSize \/ p \in overtaken
    <2>1. p \notin overtaken => tail[p] = tail_
      BY DEF IInv, LocalInv
    <2>2. p \notin overtaken => head_ - tail_ = MaxSize
      <3>1. /\ head_ \in Nat /\ tail_ \in Nat /\ head_ - tail_ <= MaxSize
            /\ MaxSize \in Nat /\ head_ - tail[p] >= MaxSize
        BY Facts DEF IInv, TypeOK, CountInv
      <3> QED BY <2>1, <3>1
    <2>3. Len(MappedQueue) = head_ - tail_
      BY QueueIsAdded, AddedQueueSeq
    <2> QED BY <2>2, <2>3
  <1> QED BY <1>1, <1>3, <1>4
          DEF Queue!Refuse, Queue!Return, MappedQueue, MappedRemoved

(* A call is Call.                                                         *)
LEMMA CallRefines ==
  ASSUME IInv, IInv', NEW p \in Producer, CallAdd(p)
  PROVE  Queue!Call(p)
  <1> USE DEF CallAdd, Goto, consumer
  <1>1. /\ p \notin Adding /\ Adding' = Adding \cup {p}
        /\ overtaken' = overtaken /\ nadd[p] < MaxAdds
        /\ nadd' = [nadd EXCEPT ![p] = @ + 1]
    BY DEF IInv, TypeOK, Adding
  <1>2. head_' = head_ /\ tail_' = tail_ /\ added' = added
    OBVIOUS
  <1>3. MappedQueue' = MappedQueue /\ MappedRemoved' = MappedRemoved
    BY <1>2, QuietStep
  <1> QED BY <1>1, <1>3 DEF Queue!Call, MappedQueue, MappedRemoved

(* The advance of tail_ is Remove.                                         *)
LEMMA AdvanceRefines ==
  ASSUME IInv, IInv', Advance
  PROVE  \E k \in 1..Len(MappedQueue) : Queue!Remove(k)
  <1> USE DEF Advance, producers
  <1> DEFINE m == head_ - tail_
  <1>1. /\ Adding' = Adding /\ overtaken' = Adding /\ nadd' = nadd
        /\ added' = added /\ head_' = head_
    BY DEF Adding
  <1>2. /\ n \in 1..m /\ n \in Nat /\ m \in Nat /\ tail_ \in Nat /\ head_ \in Nat
        /\ tail_' = tail_ + n
    BY DEF IInv, TypeOK, CountInv, ConsumeInv
  <1>3. /\ AddedQueue \in Seq(Span) /\ Len(AddedQueue) = m
        /\ \A i \in 1..m : AddedQueue[i] = added[tail_ + i]
    BY AddedQueueSeq
  <1>4. AddedQueue' = SubSeq(AddedQueue, n + 1, Len(AddedQueue))
    <2>1. head_' - tail_' = m - n
      BY <1>1, <1>2
    <2>2. AddedQueue' = [i \in 1..(m - n) |-> added[(tail_ + n) + i]]
      BY <1>1, <1>2, <2>1 DEF AddedQueue
    <2> DEFINE back == SubSeq(AddedQueue, n + 1, m)
    <2>3. /\ back \in Seq(Span) /\ Len(back) = m - n
          /\ \A i \in 1..(m - n) : back[i] = AddedQueue[n + i]
      <3>1. \A i \in (n + 1)..m : AddedQueue[i] \in Span
        BY <1>2, <1>3
      <3>2. /\ back \in Seq(Span)
            /\ Len(back) = IF n + 1 <= m THEN m - (n + 1) + 1 ELSE 0
            /\ \A i \in 1..(m - (n + 1) + 1) : back[i] = AddedQueue[n + 1 + i - 1]
        <4> HIDE DEF m
        <4>1. m \in Int /\ n + 1 \in Int
          BY <1>2
        <4> QED BY <3>1, <4>1, SubSeqProperties
      <3>3. /\ m - (n + 1) + 1 = m - n
            /\ (IF n + 1 <= m THEN m - (n + 1) + 1 ELSE 0) = m - n
            /\ \A i \in 1..(m - n) : n + 1 + i - 1 = n + i
        BY <1>2
      <3> HIDE DEF back, m
      <3> QED BY <3>2, <3>3
    <2>4. ASSUME NEW i \in 1..(m - n)
          PROVE  back[i] = added[(tail_ + n) + i]
      <3>1. n + i \in 1..m /\ tail_ + (n + i) = (tail_ + n) + i
        BY <1>2
      <3> QED BY <1>3, <2>3, <3>1
    <2> HIDE DEF back, m
    <2>5. AddedQueue' = back
      BY <2>2, <2>3, <2>4, SeqIsFunction
    <2> QED BY <1>3, <2>5 DEF back
  <1>5. AddedRemoved' = AddedRemoved \o SubSeq(AddedQueue, 1, n)
    <2>1. AddedRemoved' = [i \in 1..(tail_ + n) |-> added[i]]
      BY <1>1, <1>2 DEF AddedRemoved
    <2>2. AddedRemoved \in Seq(Span) /\ Len(AddedRemoved) = tail_
      <3>1. \A i \in 1..tail_ : added[i] \in Span
        BY <1>2, Facts
      <3> QED BY <1>2, <3>1 DEF AddedRemoved
    <2> DEFINE sub == SubSeq(AddedQueue, 1, n)
    <2>3. /\ sub \in Seq(Span) /\ Len(sub) = n
          /\ \A i \in 1..n : sub[i] = AddedQueue[i]
      BY <1>2, <1>3
    <2> HIDE DEF sub
    <2> DEFINE con == AddedRemoved \o sub
    <2>4. /\ con \in Seq(Span) /\ Len(con) = tail_ + n
          /\ \A i \in 1..tail_ : con[i] = AddedRemoved[i]
          /\ \A i \in (tail_ + 1)..(tail_ + n) : con[i] = sub[i - tail_]
      <3>1. /\ con \in Seq(Span) /\ Len(con) = Len(AddedRemoved) + Len(sub)
            /\ \A i \in 1..(Len(AddedRemoved) + Len(sub)) :
                 con[i] = IF i <= Len(AddedRemoved) THEN AddedRemoved[i]
                          ELSE sub[i - Len(AddedRemoved)]
        BY <2>2, <2>3, ConcatProperties
      <3> HIDE DEF con
      <3> QED BY <1>2, <2>2, <2>3, <3>1
    <2> HIDE DEF con
    <2>5. ASSUME NEW i \in 1..(tail_ + n)
          PROVE  con[i] = added[i]
      <3>1. CASE i \in 1..tail_
        BY <2>4, <3>1 DEF AddedRemoved
      <3>2. CASE i \in (tail_ + 1)..(tail_ + n)
        <4>1. i - tail_ \in 1..n /\ i - tail_ \in 1..m /\ tail_ + (i - tail_) = i
          BY <1>2, <3>2
        <4> QED BY <1>3, <2>3, <2>4, <3>2, <4>1
      <3>3. i \in 1..tail_ \/ i \in (tail_ + 1)..(tail_ + n)
        BY <1>2
      <3> QED BY <3>1, <3>2, <3>3
    <2>6. AddedRemoved' = con
      BY <2>1, <2>4, <2>5, SeqIsFunction
    <2> QED BY <2>6 DEF con, sub
  <1>6. PICK k \in 1..Len(MappedQueue) : k = n
    BY <1>2, <1>3, QueueIsAdded
  <1>7. /\ MappedRemoved' = MappedRemoved \o SubSeq(MappedQueue, 1, k)
        /\ MappedQueue' = SubSeq(MappedQueue, k + 1, Len(MappedQueue))
    BY <1>4, <1>5, <1>6, QueueIsAdded, RemovedIsAdded, MappedNext
  <1>8. Queue!Remove(k)
    BY <1>1, <1>7 DEF Queue!Remove, MappedQueue, MappedRemoved
  <1> QED BY <1>8

(* Every other step leaves the abstract queue as it is.                    *)
LEMMA OtherStepsRefine ==
  ASSUME IInv, IInv',
         \/ \E p \in Producer : \/ ReadTail(p) \/ ReadHead(p) \/ SwapIfNull(p)
                               \/ SwapFails(p) \/ PublishFails(p) \/ Undo(p)
         \/ \E k \in 1..MaxSize : CallConsume(k)
         \/ Peek \/ Take \/ ReturnConsume
         \/ UNCHANGED vars
  PROVE  UNCHANGED Queue!bqVars
  <1>1. head_' = head_ /\ tail_' = tail_ /\ added' = added
    BY DEF ReadTail, ReadHead, SwapIfNull, SwapFails, PublishFails, Undo,
           CallConsume, Peek, Take, ReturnConsume, vars
  <1>2. overtaken' = overtaken /\ nadd' = nadd
    BY DEF ReadTail, ReadHead, SwapIfNull, SwapFails, PublishFails, Undo,
           CallConsume, Peek, Take, ReturnConsume, vars, producers
  <1>3. Adding' = Adding
    <2>1. ASSUME NEW p \in Producer,
                 \/ ReadTail(p) \/ ReadHead(p) \/ SwapIfNull(p)
                 \/ SwapFails(p) \/ PublishFails(p) \/ Undo(p)
          PROVE  Adding' = Adding
      BY <2>1 DEF ReadTail, ReadHead, SwapIfNull, SwapFails, PublishFails, Undo,
                  Goto, Adding, IInv, TypeOK
    <2>2. pc' = pc => Adding' = Adding
      BY DEF Adding
    <2> QED BY <2>1, <2>2 DEF CallConsume, Peek, Take, ReturnConsume, vars, producers
  <1>4. MappedQueue' = MappedQueue /\ MappedRemoved' = MappedRemoved
    BY <1>1, QuietStep
  <1> QED BY <1>2, <1>3, <1>4 DEF Queue!bqVars, MappedQueue, MappedRemoved

(* The circular buffer with its atomic steps implements the abstract queue *)
(* in which Add and Consume are atomic.                                    *)
THEOREM QueueRefinement == Spec => IsBoundedQueue
  <1>1. Init => Queue!Init
    BY InitRefines
  <1>2. IInv /\ IInv' /\ [Next]_vars => [Queue!Next]_(Queue!bqVars)
    <2> SUFFICES ASSUME IInv, IInv', [Next]_vars
                 PROVE  Queue!Next \/ UNCHANGED Queue!bqVars
      OBVIOUS
    <2>1. ASSUME NEW p \in Producer, CallAdd(p) PROVE Queue!Next
      BY <2>1, CallRefines DEF Queue!Next
    <2>2. ASSUME NEW p \in Producer, Publish(p) PROVE Queue!Next
      BY <2>2, PublishRefines DEF Queue!Next
    <2>3. ASSUME NEW p \in Producer, Refuse(p) PROVE Queue!Next
      BY <2>3, RefuseRefines DEF Queue!Next
    <2>4. ASSUME Advance PROVE Queue!Next
      <3>1. \E k \in 1..Len(MappedQueue) : Queue!Remove(k)
        BY <2>4, AdvanceRefines
      <3> QED BY <3>1 DEF Queue!Next, MappedQueue
    <2>5. \/ \E p \in Producer : CallAdd(p) \/ Publish(p) \/ Refuse(p)
          \/ Advance
          \/ UNCHANGED Queue!bqVars
      BY OtherStepsRefine DEF Next, Add, Consume
    <2> QED BY <2>1, <2>2, <2>3, <2>4, <2>5
  <1> QED BY <1>1, <1>2, QueueInvariant, PTL
          DEF Spec, IsBoundedQueue, Queue!Spec
=============================================================================
