---------------------------- MODULE SPSCObserver ----------------------------
(***************************************************************************)
(* empty(), full() and size() of SPSCQueue, called between their own calls *)
(* by the consumer and the producer, and size() called by a third thread   *)
(* that takes no part in the hand-over.  An owner reads its own index      *)
(* exactly and the other one possibly stale; the third thread reads both   *)
(* at different times.                                                     *)
(***************************************************************************)
EXTENDS SPSCQueue

VARIABLES
  atLeast,   \* items the consumer knows of from its last empty() or size()
  atMost,    \* items the producer allows for after its last full() or size()
  carries,   \* per store to an index: the position of the other index it publishes
  obs,       \* the third thread inside size()
  peak       \* history: the most items the queue has held

obsVars == <<atLeast, atMost, carries, obs, peak>>
allVars == <<vars, obsVars>>

Occupancy == Len(pushed) - Len(popped)

(***************************************************************************)
(* The value of size() for the two indices it loads.                       *)
(***************************************************************************)
SizeOf_Swapped(head, tail) == Masked(tail - head)

SizeOf_Unmasked(head, tail) == head - tail

SizeOf(head, tail) == Masked(head - tail)

ObsInit ==
  /\ Init
  /\ atLeast = 0
  /\ atMost = capacity
  /\ carries = [head |-> <<1>>, tail |-> <<1>>]
  /\ obs = [pc |-> "idle", head |-> 0, headView |-> 1, tailView |-> 1,
            result |-> 0]
  /\ peak = 0

(***************************************************************************)
(* A step of push or pop.  A push or pop that completes outdates what its  *)
(* thread knew; a release store carries what its thread has acquired.      *)
(***************************************************************************)
QueueStep ==
  /\ Next
  /\ atLeast' = IF popped' # popped THEN 0 ELSE atLeast
  /\ atMost' = IF pushed' # pushed THEN capacity ELSE atMost
  /\ carries' = [head |-> IF head_' # head_ THEN Append(carries.head, prod.acq) ELSE carries.head,
                 tail |-> IF tail_' # tail_ THEN Append(carries.tail, cons.acq) ELSE carries.tail]
  /\ peak' = IF Occupancy' > peak THEN Occupancy' ELSE peak
  /\ UNCHANGED obs

(***************************************************************************)
(* The consumer calls empty() or size(), loading position k of head_.      *)
(***************************************************************************)
ConsumerLooks(k) ==
  /\ cons.pc = "idle"
  /\ k \in Readable(head_, cons.view)
  /\ cons' = [cons EXCEPT !.view = k, !.acq = Acquired(head_, k, "acquire", cons.acq)]
  /\ \/ atLeast' = SizeOf(head_[k].val, Newest(tail_))
     \/ atLeast' = IF SeesEmpty(head_[k].val, Newest(tail_)) THEN 0 ELSE 1
  /\ UNCHANGED <<head_, tail_, buffer_, prod, slotWrite, slotRead, pushed, popped,
                 atMost, carries, obs, peak>>

(***************************************************************************)
(* The producer calls full() or size(), loading position k of tail_.       *)
(***************************************************************************)
ProducerLooks_StaleIndex(k) ==
  /\ prod.pc = "idle"
  /\ k \in Readable(tail_, prod.view)
  /\ prod' = [prod EXCEPT !.view = k, !.acq = Acquired(tail_, k, "acquire", prod.acq)]
  /\ atMost' = IF Newest(head_) = tail_[k].val THEN capacity ELSE capacity - 1
  /\ UNCHANGED <<head_, tail_, buffer_, cons, slotWrite, slotRead, pushed, popped,
                 atLeast, carries, obs, peak>>

ProducerLooks(k) ==
  /\ prod.pc = "idle"
  /\ k \in Readable(tail_, prod.view)
  /\ prod' = [prod EXCEPT !.view = k, !.acq = Acquired(tail_, k, "acquire", prod.acq)]
  /\ \/ atMost' = SizeOf(Newest(head_), tail_[k].val)
     \/ atMost' = IF SeesFull(Newest(head_), tail_[k].val) THEN capacity ELSE capacity - 1
  /\ UNCHANGED <<head_, tail_, buffer_, cons, slotWrite, slotRead, pushed, popped,
                 atLeast, carries, obs, peak>>

(***************************************************************************)
(* The third thread's size(): load head_, then tail_.  Acquiring head_     *)
(* also brings the position of tail_ the producer had acquired before.     *)
(***************************************************************************)
SizeLoadHead(k) ==
  /\ obs.pc = "idle"
  /\ k \in Readable(head_, obs.headView)
  /\ obs' = [obs EXCEPT !.pc = "tail", !.head = head_[k].val, !.headView = k,
                        !.tailView = IF carries.head[k] > @ THEN carries.head[k] ELSE @]
  /\ UNCHANGED <<vars, atLeast, atMost, carries, peak>>

SizeLoadTail(k) ==
  /\ obs.pc = "tail"
  /\ k \in Readable(tail_, obs.tailView)
  /\ obs' = [obs EXCEPT !.pc = "returned", !.tailView = k,
                        !.headView = IF carries.tail[k] > @ THEN carries.tail[k] ELSE @,
                        !.result = SizeOf(obs.head, tail_[k].val)]
  /\ UNCHANGED <<vars, atLeast, atMost, carries, peak>>

SizeReturn ==
  /\ obs.pc = "returned"
  /\ obs' = [obs EXCEPT !.pc = "idle", !.head = 0, !.result = 0]
  /\ UNCHANGED <<vars, atLeast, atMost, carries, peak>>

Owners ==
  \/ QueueStep
  \/ \E k \in 1 .. Len(head_) : ConsumerLooks(k)
  \/ \E k \in 1 .. Len(tail_) : ProducerLooks(k)

ThirdThread ==
  \/ \E k \in 1 .. Len(head_) : SizeLoadHead(k)
  \/ \E k \in 1 .. Len(tail_) : SizeLoadTail(k)
  \/ SizeReturn

ObsNext == Owners \/ ThirdThread

(***************************************************************************)
(* The two owners alone, and with the third thread.                        *)
(***************************************************************************)
OwnersSpec == ObsInit /\ [][Owners]_allVars

ObsSpec == ObsInit /\ [][ObsNext]_allVars
-----------------------------------------------------------------------------
(***************************************************************************)
(* The type invariant of what the observers add.                           *)
(***************************************************************************)
ObsTypeOK ==
  /\ atLeast \in 0 .. capacity
  /\ atMost \in 0 .. capacity
  /\ Len(carries.head) = Len(head_) /\ Len(carries.tail) = Len(tail_)
  /\ obs.headView \in 1 .. Len(head_) /\ obs.tailView \in 1 .. Len(tail_)
  /\ obs.result \in 0 .. capacity
  /\ peak \in 0 .. capacity

(***************************************************************************)
(* What an owner learns errs on the safe side and stays true until its own *)
(* next push or pop: the consumer's size() is a lower bound of what is in  *)
(* the queue, the producer's size() an upper bound.                        *)
(***************************************************************************)
OwnerBounds == atLeast <= Occupancy /\ Occupancy <= atMost

(***************************************************************************)
(* A check followed by the call it guards: after empty() was false the     *)
(* consumer's next pop succeeds, after full() was false the producer's     *)
(* next push does, whichever stores their loads return.                    *)
(***************************************************************************)
CheckedCallSucceeds ==
  /\ cons.pc = "idle" /\ atLeast > 0 =>
       \A k \in Readable(head_, cons.view) : ~SeesEmpty(head_[k].val, Newest(tail_))
  /\ prod.pc = "idle" /\ atMost < capacity =>
       \A k \in Readable(tail_, prod.view) : ~SeesFull(Newest(head_), tail_[k].val)

(***************************************************************************)
(* The comment on size() calls it approximate and possibly stale: what it  *)
(* returns to any thread is at most what the queue has held at some time.  *)
(***************************************************************************)
SizeIsApproximate == obs.pc = "returned" => obs.result <= peak
=============================================================================
