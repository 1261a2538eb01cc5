----------------------------- MODULE MPSCQueue -----------------------------
(***************************************************************************)
(* MPSCQueue<T, Size> of core/distribution/lockfree_queue.hpp.  Producers  *)
(* claim a position by a compare-exchange on head_ and publish the slot    *)
(* through its sequence number; one consumer takes slots in order.  A step *)
(* is one access to shared memory.  head_ and tail_ are counters whose     *)
(* modification order is 0, 1, 2, ...; the sequence number of a slot is an *)
(* atomic location of its own.  size_t does not wrap within the bound.     *)
(***************************************************************************)
EXTENDS Integers, Sequences, FiniteSets, Atomics

CONSTANTS
  Size,       \* the template argument: number of slots
  Producers,  \* the threads that call push
  Consumer,   \* the thread that calls pop
  Blank,      \* a slot's content after T{} or after it was moved from
  MaxPush     \* bound: no push starts once this many positions are claimed

ASSUME MPSCAssumption ==
  /\ Size \in Nat \ {0} /\ MaxPush \in Nat
  /\ IsFiniteSet(Producers) /\ Consumer \notin Producers
  /\ \E k \in 0 .. Size : Size = 2 ^ k

VARIABLES
  head_,      \* the last value of head_
  tail_,      \* the last value of tail_, written by the consumer only
  sequence,   \* per slot: modification order of Node::sequence
  data,       \* per slot: Node::data
  prod,       \* per producer: where it is in push, its head register, its item
  cons,       \* the consumer inside pop
  headView,   \* per producer: newest value of head_ it has read
  view,       \* per thread and slot: newest position of sequence it has read
  acq,        \* per thread and slot: newest position it has acquired
  access,     \* per slot: position of the store that follows the last access to data
  claims,     \* history: the items in the order in which positions were claimed
  published,  \* history: number of items whose push has returned true
  popped      \* history: items pop has handed out

vars == <<head_, tail_, sequence, data, prod, cons, headView, view, acq, access,
          claims, published, popped>>

Slots == 0 .. Size - 1

Threads == Producers \cup {Consumer}

(***************************************************************************)
(* Node &node = nodes_[pos & (Size - 1)].                                  *)
(***************************************************************************)
Slot(pos) == pos % Size

PushLoadOrder_Relaxed == "relaxed"

PushLoadOrder == "acquire"

PopLoadOrder == "acquire"

SequenceStoreOrder == "release"

Init ==
  /\ head_ = 0
  /\ tail_ = 0
  /\ sequence = [i \in Slots |-> Initialised(i)]
  /\ data = [i \in Slots |-> Blank]
  /\ prod = [p \in Producers |-> [pc |-> "idle", head |-> 0, item |-> Blank]]
  /\ cons = [pc |-> "idle", item |-> Blank]
  /\ headView = [p \in Producers |-> 0]
  /\ view = [t \in Threads |-> [i \in Slots |-> 1]]
  /\ acq = [t \in Threads |-> [i \in Slots |-> 1]]
  /\ access = [i \in Slots |-> 0]
  /\ claims = << >>
  /\ published = 0
  /\ popped = << >>

(***************************************************************************)
(* The items of a producer are numbered in the order of its pushes.        *)
(***************************************************************************)
Items == Producers \X (1 .. MaxPush)

NextItem(p) == <<p, 1 + Cardinality({j \in DOMAIN claims : claims[j][1] = p})>>

(***************************************************************************)
(* One round of push's loop up to the compare-exchange: load head_         *)
(* (relaxed, so any value not older than the last one read) and the slot's *)
(* sequence number.  It decides: claim, full, or look again.  One step for *)
(* both loads is enough: a stale head is one read some steps ago.          *)
(***************************************************************************)
PushLoad(p, head, k) ==
  LET i == Slot(head)
      diff == sequence[i][k].val - head
  IN  /\ \/ prod[p].pc = "retry"
         \/ prod[p].pc = "idle" /\ Len(claims) < MaxPush
      /\ head \in headView[p] .. head_
      /\ k \in Readable(sequence[i], view[p][i])
      /\ headView' = [headView EXCEPT ![p] = head]
      /\ view' = [view EXCEPT ![p][i] = k]
      /\ acq' = [acq EXCEPT ![p][i] = Acquired(sequence[i], k, PushLoadOrder, @)]
      /\ \/ diff = 0 /\ prod' = [prod EXCEPT ![p] = [pc |-> "claim", head |-> head, item |-> NextItem(p)]]
         \/ diff < 0 /\ prod' = [prod EXCEPT ![p].pc = "idle"]
         \/ diff > 0 /\ prod' = [prod EXCEPT ![p].pc = "retry"]
      /\ UNCHANGED <<head_, tail_, sequence, data, cons, access, claims, published, popped>>

(***************************************************************************)
(* compare_exchange_weak: an atomic read-modify-write of the last value.   *)
(* It may also fail for no reason; either failure starts the loop again,   *)
(* which reloads head.                                                     *)
(***************************************************************************)
PushClaim_Blind(p) ==
  /\ prod[p].pc = "claim"
  /\ head_' = prod[p].head + 1
  /\ headView' = [headView EXCEPT ![p] = head_']
  /\ claims' = Append(claims, prod[p].item)
  /\ prod' = [prod EXCEPT ![p].pc = "write"]
  /\ UNCHANGED <<tail_, sequence, data, cons, view, acq, access, published, popped>>

PushClaim(p) ==
  /\ prod[p].pc = "claim"
  /\ head_ = prod[p].head
  /\ head_' = head_ + 1
  /\ headView' = [headView EXCEPT ![p] = head_']
  /\ claims' = Append(claims, prod[p].item)
  /\ prod' = [prod EXCEPT ![p].pc = "write"]
  /\ UNCHANGED <<tail_, sequence, data, cons, view, acq, access, published, popped>>

PushClaimFails(p) ==
  /\ prod[p].pc = "claim"
  /\ prod' = [prod EXCEPT ![p].pc = "retry"]
  /\ UNCHANGED <<head_, tail_, sequence, data, cons, headView, view, acq, access, claims, published, popped>>

(***************************************************************************)
(* node.data = item, then node.sequence.store(head + 1) and return true.   *)
(***************************************************************************)
PushWrite(p) ==
  LET i == Slot(prod[p].head)
  IN  /\ prod[p].pc = "write"
      /\ data' = [data EXCEPT ![i] = prod[p].item]
      /\ access' = [access EXCEPT ![i] = Len(sequence[i]) + 1]
      /\ prod' = [prod EXCEPT ![p].pc = "publish"]
      /\ UNCHANGED <<head_, tail_, sequence, cons, headView, view, acq, claims, published, popped>>

PushPublish_WrongLap(p) ==
  LET i == Slot(prod[p].head)
  IN  /\ prod[p].pc = "publish"
      /\ sequence' = [sequence EXCEPT ![i] = Store(@, i + 1, SequenceStoreOrder)]
      /\ view' = [view EXCEPT ![p][i] = Len(sequence'[i])]
      /\ acq' = [acq EXCEPT ![p][i] = Len(sequence'[i])]
      /\ published' = published + 1
      /\ prod' = [prod EXCEPT ![p] = [pc |-> "idle", head |-> 0, item |-> Blank]]
      /\ UNCHANGED <<head_, tail_, data, cons, headView, access, claims, popped>>

PushPublish(p) ==
  LET i == Slot(prod[p].head)
  IN  /\ prod[p].pc = "publish"
      /\ sequence' = [sequence EXCEPT ![i] = Store(@, prod[p].head + 1, SequenceStoreOrder)]
      /\ view' = [view EXCEPT ![p][i] = Len(sequence'[i])]
      /\ acq' = [acq EXCEPT ![p][i] = Len(sequence'[i])]
      /\ published' = published + 1
      /\ prod' = [prod EXCEPT ![p] = [pc |-> "idle", head |-> 0, item |-> Blank]]
      /\ UNCHANGED <<head_, tail_, data, cons, headView, access, claims, popped>>

-----------------------------------------------------------------------------
(***************************************************************************)
(* pop: the slot at tail_ is taken if its sequence number is tail + 1;     *)
(* otherwise the call returns false.                                       *)
(***************************************************************************)
CanPop(k) == sequence[Slot(tail_)][k].val = tail_ + 1

(***************************************************************************)
(* empty() as the consumer evaluates it, reading position k.               *)
(***************************************************************************)
empty_Inclusive(k) == sequence[Slot(tail_)][k].val - (tail_ + 1) <= 0

empty(k) == sequence[Slot(tail_)][k].val - (tail_ + 1) < 0

PopLoad(k) ==
  LET i == Slot(tail_)
  IN  /\ cons.pc = "idle"
      /\ k \in Readable(sequence[i], view[Consumer][i])
      /\ view' = [view EXCEPT ![Consumer][i] = k]
      /\ acq' = [acq EXCEPT ![Consumer][i] = Acquired(sequence[i], k, PopLoadOrder, @)]
      /\ cons' = [cons EXCEPT !.pc = IF CanPop(k) THEN "read" ELSE "idle"]
      /\ UNCHANGED <<head_, tail_, sequence, data, prod, headView, access, claims, published, popped>>

PopRead ==
  LET i == Slot(tail_)
  IN  /\ cons.pc = "read"
      /\ cons' = [pc |-> "recycle", item |-> data[i]]
      /\ \E left \in {data[i], Blank} : data' = [data EXCEPT ![i] = left]
      /\ access' = [access EXCEPT ![i] = Len(sequence[i]) + 1]
      /\ UNCHANGED <<head_, tail_, sequence, prod, headView, view, acq, claims, published, popped>>

(***************************************************************************)
(* node.sequence.store(tail + Size): from here a producer of the next lap  *)
(* may claim the slot.                                                     *)
(***************************************************************************)
PopRecycle ==
  LET i == Slot(tail_)
  IN  /\ cons.pc = "recycle"
      /\ sequence' = [sequence EXCEPT ![i] = Store(@, tail_ + Size, SequenceStoreOrder)]
      /\ view' = [view EXCEPT ![Consumer][i] = Len(sequence'[i])]
      /\ acq' = [acq EXCEPT ![Consumer][i] = Len(sequence'[i])]
      /\ popped' = Append(popped, cons.item)
      /\ cons' = [pc |-> "advance", item |-> Blank]
      /\ UNCHANGED <<head_, tail_, data, prod, headView, access, claims, published>>

PopAdvance ==
  /\ cons.pc = "advance"
  /\ tail_' = tail_ + 1
  /\ cons' = [cons EXCEPT !.pc = "idle"]
  /\ UNCHANGED <<head_, sequence, data, prod, headView, view, acq, access, claims, published, popped>>

Push(p) ==
  \/ \E head \in 0 .. head_ : \E k \in 1 .. Len(sequence[Slot(head)]) : PushLoad(p, head, k)
  \/ PushClaim(p)
  \/ PushClaimFails(p)
  \/ PushWrite(p)
  \/ PushPublish(p)

Pop ==
  \/ \E k \in 1 .. Len(sequence[Slot(tail_)]) : PopLoad(k)
  \/ PopRead
  \/ PopRecycle
  \/ PopAdvance

Next == Pop \/ \E p \in Producers : Push(p)

Spec == Init /\ [][Next]_vars

(***************************************************************************)
(* The consumer keeps calling pop, and a load repeated for ever eventually *)
(* returns the newest store.  A producer may stop anywhere, also between   *)
(* its claim and its publication; ProducersGoOn says that it does not.     *)
(***************************************************************************)
ConsumerFair ==
  /\ WF_vars(PopLoad(Len(sequence[Slot(tail_)])))
  /\ WF_vars(PopRead \/ PopRecycle \/ PopAdvance)

FairSpec == Spec /\ ConsumerFair

ProducersGoOn == \A p \in Producers : WF_vars(PushWrite(p) \/ PushPublish(p))

-----------------------------------------------------------------------------
(***************************************************************************)
(* The variables keep their types.                                         *)
(***************************************************************************)
TypeOK ==
  /\ head_ \in Nat /\ tail_ \in Nat
  /\ sequence \in [Slots -> Location]
  /\ data \in [Slots -> Items \cup {Blank}]
  /\ prod \in [Producers -> [pc : {"idle", "retry", "claim", "write", "publish"},
                            head : 0 .. head_, item : Items \cup {Blank}]]
  /\ cons \in [pc : {"idle", "read", "recycle", "advance"}, item : Items \cup {Blank}]
  /\ headView \in [Producers -> 0 .. head_]
  /\ view \in [Threads -> [Slots -> Nat]] /\ acq \in [Threads -> [Slots -> Nat]]
  /\ \A t \in Threads, i \in Slots : /\ view[t][i] \in 1 .. Len(sequence[i])
                                     /\ acq[t][i] \in 1 .. Len(sequence[i])
  /\ access \in [Slots -> Nat] /\ \A i \in Slots : access[i] <= Len(sequence[i]) + 1
  /\ claims \in Seq(Items) /\ popped \in Seq(Items \cup {Blank})
  /\ published \in 0 .. Len(claims)

(***************************************************************************)
(* Data in a slot is never accessed by two threads without one access      *)
(* happening before the other: a producer that claimed the slot has        *)
(* acquired the consumer's last release of it, and the consumer the        *)
(* producer's, whichever producers wrote before.                           *)
(***************************************************************************)
NoDataRace ==
  /\ \A p \in Producers : prod[p].pc = "write" =>
       access[Slot(prod[p].head)] <= acq[p][Slot(prod[p].head)]
  /\ cons.pc = "read" => access[Slot(tail_)] <= acq[Consumer][Slot(tail_)]

(***************************************************************************)
(* At most one thread owns a slot: no two producers hold the same claim,   *)
(* and none holds the one the consumer is taking.                          *)
(***************************************************************************)
ExclusiveSlots ==
  LET Owners(i) == {p \in Producers : prod[p].pc \in {"write", "publish"} /\ Slot(prod[p].head) = i}
                   \cup (IF cons.pc \in {"read", "recycle"} /\ Slot(tail_) = i THEN {Consumer} ELSE {})
  IN  \A i \in Slots : Cardinality(Owners(i)) <= 1

(***************************************************************************)
(* Between two calls the consumer's empty() and pop() agree: empty() is    *)
(* false exactly when a pop that reads the same sequence number succeeds,  *)
(* although one tests a sign and the other equality, and however far       *)
(* behind the number read is.                                              *)
(***************************************************************************)
EmptyMatchesPop ==
  cons.pc = "idle" =>
    \A k \in Readable(sequence[Slot(tail_)], view[Consumer][Slot(tail_)]) : empty(k) <=> ~CanPop(k)

(***************************************************************************)
(* push returns false on a full queue ("Queue is full"): no more than Size *)
(* items are ever claimed and not yet popped.                              *)
(***************************************************************************)
NeverOverfull == Len(claims) - Len(popped) <= Size

(***************************************************************************)
(* The queue implements the bounded FIFO with Size places: a push takes    *)
(* effect when its compare-exchange succeeds, a pop when it recycles the   *)
(* slot.  So items leave once each, in claim order, and the items of one   *)
(* producer in the order in which it pushed them.                          *)
(***************************************************************************)
Abstract == INSTANCE BoundedFIFO WITH
  Capacity <- Size,
  queue <- SubSeq(claims, Len(popped) + 1, Len(claims)),
  taken <- popped

ImplementsFIFO == Abstract!Spec

(***************************************************************************)
(* A producer that stalls inside push holds up only what was claimed after *)
(* it: once the first n claims are published, the consumer gets all n,     *)
(* whatever the producers do or fail to do from then on.                   *)
(***************************************************************************)
FirstPublished(n) ==
  /\ Len(claims) >= n
  /\ \A p \in Producers : prod[p].pc \in {"write", "publish"} => prod[p].head >= n

PrefixPopped == \A n \in 1 .. MaxPush : FirstPublished(n) ~> Len(popped) >= n

(***************************************************************************)
(* If no producer stalls inside push, every push that returned true is     *)
(* eventually popped.                                                      *)
(***************************************************************************)
EveryPushPopped ==
  ProducersGoOn => \A n \in 1 .. MaxPush : published >= n ~> Len(popped) >= n
=============================================================================
