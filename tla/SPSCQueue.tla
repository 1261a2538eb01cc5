----------------------------- MODULE SPSCQueue -----------------------------
(***************************************************************************)
(* SPSCQueue<T, Size> of core/distribution/lockfree_queue.hpp: the ring    *)
(* between the network thread and the parser thread and between the parser *)
(* thread and the dispatcher thread.  One producer thread calls push, one  *)
(* consumer thread calls pop; a step is one access to memory the two       *)
(* share.  head_ and tail_ are atomics with the memory orders of the       *)
(* source, so a load of the other side's index may return an old value.    *)
(***************************************************************************)
EXTENDS Integers, Sequences, Atomics

CONSTANTS
  Size,      \* the template argument: number of slots
  Items,     \* the values of T that are pushed
  Blank,     \* a slot's content after T{} or after it was moved from
  MaxPush    \* bound: successful pushes in a behaviour

ASSUME SizeAssumption == Size \in Nat \ {0}
ASSUME SizeIsPowerOfTwo == \E k \in 0 .. Size : Size = 2 ^ k
ASSUME BlankAssumption == Blank \notin Items
ASSUME MaxPushAssumption == MaxPush \in Nat

VARIABLES
  head_,     \* modification order of head_, written by the producer
  tail_,     \* modification order of tail_, written by the consumer
  buffer_,   \* the slots
  prod,      \* the producer thread inside push
  cons,      \* the consumer thread inside pop
  slotWrite, \* per slot: position in head_ of the store that follows the last write
  slotRead,  \* per slot: position in tail_ of the store that follows the last read
  pushed,    \* history: items whose push has published, in order
  popped     \* history: items pop has handed out, in order

vars == <<head_, tail_, buffer_, prod, cons, slotWrite, slotRead, pushed, popped>>

Slots == 0 .. Size - 1

(***************************************************************************)
(* x & (Size - 1), for a Size that is a power of two.  size_t subtraction  *)
(* wraps at a multiple of Size, so this also holds for a negative x.       *)
(***************************************************************************)
Masked(x) == x % Size

NextIndex_Unmasked(i) == i + 1

NextIndex(i) == Masked(i + 1)

capacity == Size - 1

(***************************************************************************)
(* The memory orders of the four accesses the two threads synchronise by.  *)
(* (Each side's load of its own index is relaxed: it reads its own store.) *)
(***************************************************************************)
PushTailLoadOrder_Relaxed == "relaxed"

PushTailLoadOrder == "acquire"

PushHeadStoreOrder == "release"

PopHeadLoadOrder == "acquire"

PopTailStoreOrder == "release"

(***************************************************************************)
(* The outcome of the two tests that end a call early.                     *)
(***************************************************************************)
SeesFull_NoReservedSlot(head, tail) == FALSE

SeesFull_OneTooFew(head, tail) == NextIndex(NextIndex(head)) = tail

SeesFull_NotAdvanced(head, tail) == head = tail

SeesFull(head, tail) == NextIndex(head) = tail

SeesEmpty(head, tail) == tail = head

-----------------------------------------------------------------------------
Init ==
  /\ head_ = Initialised(0)
  /\ tail_ = Initialised(0)
  /\ buffer_ = [i \in Slots |-> Blank]
  /\ prod = [pc |-> "idle", head |-> 0, item |-> Blank, view |-> 1, acq |-> 1]
  /\ cons = [pc |-> "idle", tail |-> 0, item |-> Blank, view |-> 1, acq |-> 1]
  /\ slotWrite = [i \in Slots |-> 0]
  /\ slotRead = [i \in Slots |-> 0]
  /\ pushed = << >>
  /\ popped = << >>

(***************************************************************************)
(* push(x): load head_ and, at position k of its modification order,       *)
(* tail_.  A full queue ends the call with false.                          *)
(***************************************************************************)
PushLoad(x, k) ==
  /\ prod.pc = "idle"
  /\ Len(pushed) < MaxPush
  /\ k \in Readable(tail_, prod.view)
  /\ LET head == Newest(head_)
         acq == Acquired(tail_, k, PushTailLoadOrder, prod.acq)
     IN  IF SeesFull(head, tail_[k].val)
         THEN prod' = [prod EXCEPT !.view = k, !.acq = acq]
         ELSE prod' = [pc |-> "write", head |-> head, item |-> x,
                       view |-> k, acq |-> acq]
  /\ UNCHANGED <<head_, tail_, buffer_, cons, slotWrite, slotRead, pushed, popped>>

(***************************************************************************)
(* buffer_[head] = item (or std::move(item) in the other overload).        *)
(***************************************************************************)
PushWrite ==
  /\ prod.pc = "write"
  /\ buffer_' = [buffer_ EXCEPT ![prod.head] = prod.item]
  /\ slotWrite' = [slotWrite EXCEPT ![prod.head] = Len(head_) + 1]
  /\ prod' = [prod EXCEPT !.pc = "publish"]
  /\ UNCHANGED <<head_, tail_, cons, slotRead, pushed, popped>>

PushPublish_KeepsIndex ==
  /\ prod.pc = "publish"
  /\ head_' = Store(head_, prod.head, PushHeadStoreOrder)
  /\ pushed' = Append(pushed, prod.item)
  /\ prod' = [prod EXCEPT !.pc = "idle", !.item = Blank]
  /\ UNCHANGED <<tail_, buffer_, cons, slotWrite, slotRead, popped>>

(***************************************************************************)
(* head_.store(next_head) and return true.                                 *)
(***************************************************************************)
PushPublish ==
  /\ prod.pc = "publish"
  /\ head_' = Store(head_, NextIndex(prod.head), PushHeadStoreOrder)
  /\ pushed' = Append(pushed, prod.item)
  /\ prod' = [prod EXCEPT !.pc = "idle", !.item = Blank]
  /\ UNCHANGED <<tail_, buffer_, cons, slotWrite, slotRead, popped>>

(***************************************************************************)
(* pop(item): load tail_ and, at position k, head_.  An empty queue ends   *)
(* the call with false.                                                    *)
(***************************************************************************)
PopLoad(k) ==
  /\ cons.pc = "idle"
  /\ k \in Readable(head_, cons.view)
  /\ LET tail == Newest(tail_)
         acq == Acquired(head_, k, PopHeadLoadOrder, cons.acq)
     IN  IF SeesEmpty(head_[k].val, tail)
         THEN cons' = [cons EXCEPT !.view = k, !.acq = acq]
         ELSE cons' = [cons EXCEPT !.pc = "read", !.tail = tail,
                                   !.view = k, !.acq = acq]
  /\ UNCHANGED <<head_, tail_, buffer_, prod, slotWrite, slotRead, pushed, popped>>

(***************************************************************************)
(* item = std::move(buffer_[tail]).  What the move leaves in the slot is   *)
(* the type's affair: Packet and NormalizedMessage stay as they were.      *)
(***************************************************************************)
PopRead ==
  /\ cons.pc = "read"
  /\ cons' = [cons EXCEPT !.pc = "release", !.item = buffer_[cons.tail]]
  /\ \E left \in {buffer_[cons.tail], Blank} :
       buffer_' = [buffer_ EXCEPT ![cons.tail] = left]
  /\ slotRead' = [slotRead EXCEPT ![cons.tail] = Len(tail_) + 1]
  /\ UNCHANGED <<head_, tail_, prod, slotWrite, pushed, popped>>

(***************************************************************************)
(* tail_.store((tail + 1) & (Size - 1)) and return true.                   *)
(***************************************************************************)
PopRelease ==
  /\ cons.pc = "release"
  /\ tail_' = Store(tail_, NextIndex(cons.tail), PopTailStoreOrder)
  /\ popped' = Append(popped, cons.item)
  /\ cons' = [cons EXCEPT !.pc = "idle", !.item = Blank]
  /\ UNCHANGED <<head_, buffer_, prod, slotWrite, slotRead, pushed>>

Producer ==
  \/ \E x \in Items, k \in 1 .. Len(tail_) : PushLoad(x, k)
  \/ PushWrite
  \/ PushPublish

Consumer ==
  \/ \E k \in 1 .. Len(head_) : PopLoad(k)
  \/ PopRead
  \/ PopRelease

Next == Producer \/ Consumer

Spec == Init /\ [][Next]_vars

(***************************************************************************)
(* A thread inside a call goes on; both threads call again and again (the  *)
(* retry loops around push and pop); and a load eventually returns the     *)
(* newest store, which the standard asks of implementations.               *)
(***************************************************************************)
Fairness ==
  /\ WF_vars(\E x \in Items : PushLoad(x, Len(tail_)))
  /\ WF_vars(PushWrite)
  /\ WF_vars(PushPublish)
  /\ WF_vars(PopLoad(Len(head_)))
  /\ WF_vars(PopRead)
  /\ WF_vars(PopRelease)

FairSpec == Spec /\ Fairness
-----------------------------------------------------------------------------
(***************************************************************************)
(* The variables keep their types.                                         *)
(***************************************************************************)
TypeOK ==
  /\ head_ \in Location /\ Len(head_) > 0
  /\ tail_ \in Location /\ Len(tail_) > 0
  /\ buffer_ \in [Slots -> Items \cup {Blank}]
  /\ prod \in [pc : {"idle", "write", "publish"}, head : Slots,
               item : Items \cup {Blank}, view : 1 .. Len(tail_), acq : 1 .. Len(tail_)]
  /\ cons \in [pc : {"idle", "read", "release"}, tail : Slots,
               item : Items \cup {Blank}, view : 1 .. Len(head_), acq : 1 .. Len(head_)]
  /\ slotWrite \in [Slots -> 0 .. Len(head_) + 1]
  /\ slotRead \in [Slots -> 0 .. Len(tail_) + 1]
  /\ pushed \in Seq(Items)
  /\ popped \in Seq(Items \cup {Blank})

(***************************************************************************)
(* The unsynchronised accesses to a slot never race: when push is about to *)
(* write a slot, the last pop that moved out of it happens before, and     *)
(* when pop is about to move out of a slot, the last push that wrote it    *)
(* happens before.  This is what the acquire and release orders are for.   *)
(***************************************************************************)
NoDataRace ==
  /\ prod.pc = "write" => slotRead[prod.head] <= prod.acq
  /\ cons.pc = "read" => slotWrite[cons.tail] <= cons.acq

(***************************************************************************)
(* pop hands out exactly the items push accepted, in the order in which it *)
(* accepted them: none lost, repeated, torn or overwritten in its slot,    *)
(* however stale the indices were that the two sides decided on.           *)
(***************************************************************************)
Fifo ==
  /\ Len(popped) <= Len(pushed)
  /\ \A i \in 1 .. Len(popped) : popped[i] = pushed[i]

(***************************************************************************)
(* Comparing indices modulo Size is exact: for every value of the other    *)
(* side's index that a call may still read, push finds the queue full just *)
(* when Size - 1 items separate the two counts, and pop finds it empty     *)
(* just when none does.  A lap of the ring never looks like another lap.   *)
(***************************************************************************)
IndexTestsExact ==
  /\ prod.pc = "idle" =>
       \A k \in Readable(tail_, prod.view) :
         SeesFull(Newest(head_), tail_[k].val) <=> Len(pushed) - (k - 1) = capacity
  /\ cons.pc = "idle" =>
       \A k \in Readable(head_, cons.view) :
         SeesEmpty(head_[k].val, Newest(tail_)) <=> k - 1 = Len(popped)

(***************************************************************************)
(* The queue implements the bounded FIFO of capacity(): a push takes       *)
(* effect at its store to head_, a pop at its store to tail_.              *)
(***************************************************************************)
Abstract == INSTANCE BoundedFIFO WITH
  Capacity <- capacity,
  queue <- SubSeq(pushed, Len(popped) + 1, Len(pushed)),
  taken <- popped

ImplementsFIFO == Abstract!Spec

(***************************************************************************)
(* An item push accepted is eventually popped by a consumer that keeps     *)
(* calling pop, however often its loads of head_ were stale.               *)
(***************************************************************************)
EveryPushPopped == \A n \in 1 .. MaxPush : Len(pushed) >= n ~> Len(popped) >= n

(***************************************************************************)
(* A producer that keeps retrying a push gets every item in: it is never   *)
(* left waiting on a tail_ that was read too early.                        *)
(***************************************************************************)
RetriesSucceed == <>(Len(pushed) = MaxPush)
=============================================================================
