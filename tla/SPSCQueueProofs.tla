-------------------------- MODULE SPSCQueueProofs ---------------------------
(***************************************************************************)
(* SPSCQueue is a race-free bounded FIFO for every Size, every set of      *)
(* items and every number of pushes.  What empty(), full() and size() tell *)
(* its two owners is safe to act on, and looking does not disturb it.      *)
(***************************************************************************)
EXTENDS SPSCObserver, RingArithmetic, TLAPS

n == Len(pushed)

m == Len(popped)

(***************************************************************************)
(* The k-th store to an index is a release store of k - 1 modulo Size, and *)
(* a thread has acquired what it has seen.                                 *)
(***************************************************************************)
IndexShape ==
  /\ Len(head_) = n + 1
  /\ Len(tail_) = m + 1
  /\ \A k \in 1 .. n + 1 : head_[k] = [val |-> Masked(k - 1), rel |-> TRUE]
  /\ \A k \in 1 .. m + 1 : tail_[k] = [val |-> Masked(k - 1), rel |-> TRUE]
  /\ prod.acq = prod.view
  /\ cons.acq = cons.view

(***************************************************************************)
(* What each side knows of the other bounds what it may do: the counts     *)
(* never leave the window of Size - 1 items, also for a side that is about *)
(* to move its own count.                                                  *)
(***************************************************************************)
Window ==
  /\ m <= cons.view - 1
  /\ cons.pc # "idle" => cons.tail = Masked(m) /\ m + 1 <= cons.view - 1
  /\ n <= (prod.view - 1) + (Size - 1)
  /\ prod.pc # "idle" => /\ prod.head = Masked(n)
                         /\ n + 1 <= (prod.view - 1) + (Size - 1)
                         /\ prod.item \in Items

(***************************************************************************)
(* The slots between the counts hold the items pushed and not yet popped.  *)
(***************************************************************************)
Contents ==
  /\ \A k \in m + 1 .. n :
       (k = m + 1 /\ cons.pc = "release") \/ buffer_[Masked(k - 1)] = pushed[k]
  /\ cons.pc = "release" => cons.item = pushed[m + 1]
  /\ prod.pc = "publish" => buffer_[prod.head] = prod.item

(***************************************************************************)
(* The last access to a slot was for a counter that maps to the slot and   *)
(* that the accessing side has reached.                                    *)
(***************************************************************************)
Accesses ==
  /\ \A i \in Slots : slotRead[i] # 0 =>
       /\ slotRead[i] >= 2
       /\ Masked(slotRead[i] - 2) = i
       /\ slotRead[i] <= m + 1 \/ (cons.pc = "release" /\ slotRead[i] = m + 2)
  /\ \A i \in Slots : slotWrite[i] # 0 =>
       /\ slotWrite[i] >= 2
       /\ Masked(slotWrite[i] - 2) = i
       /\ slotWrite[i] <= n + 1 \/ (prod.pc = "publish" /\ slotWrite[i] = n + 2)

IInv == TypeOK /\ IndexShape /\ Window /\ Contents /\ Accesses /\ Fifo
-----------------------------------------------------------------------------
(***************************************************************************)
(* Masking gives a slot.                                                   *)
(***************************************************************************)
LEMMA MaskedRange == \A a \in Nat : Masked(a) \in Slots
  BY SizeAssumption, ModRange DEF Masked, Slots

(***************************************************************************)
(* Advancing commutes with masking.                                        *)
(***************************************************************************)
LEMMA MaskedNext == \A a \in Nat : NextIndex(Masked(a)) = Masked(a + 1)
  BY Zenon, SizeAssumption, ModSucc DEF Masked, NextIndex

(***************************************************************************)
(* Different counters in one slot are at least a lap apart.                *)
(***************************************************************************)
LEMMA MaskedApart == \A a, b \in Nat : Masked(a) = Masked(b) /\ a < b => a + Size <= b
  BY Zenon, SizeAssumption, SameSlotLapApart DEF Masked

(***************************************************************************)
(* Counters one lap apart are in one slot.                                 *)
(***************************************************************************)
LEMMA MaskedLap == \A a \in Nat : Masked(a + Size) = Masked(a)
  BY Zenon, SizeAssumption, LapSameSlot DEF Masked

(***************************************************************************)
(* The numbers the invariant speaks of, and how they are ordered.          *)
(***************************************************************************)
Numbers ==
  /\ Size \in Nat /\ Size > 0
  /\ n \in Nat /\ m \in Nat /\ m <= n
  /\ Len(head_) = n + 1 /\ Len(tail_) = m + 1
  /\ prod.view \in 1 .. m + 1 /\ cons.view \in 1 .. n + 1
  /\ prod.acq = prod.view /\ cons.acq = cons.view

(***************************************************************************)
(* They are so in every state of the invariant.                            *)
(***************************************************************************)
LEMMA Counts == IInv => Numbers
<1> SUFFICES ASSUME IInv PROVE Numbers
  OBVIOUS
<1>1. n \in Nat /\ m \in Nat
  BY DEF IInv, TypeOK, n, m
<1>2. m <= n
  BY DEF IInv, Fifo, n, m
<1>3. Len(head_) = n + 1 /\ Len(tail_) = m + 1
  BY DEF IInv, IndexShape
<1>4. prod.view \in 1 .. Len(tail_) /\ cons.view \in 1 .. Len(head_)
  BY DEF IInv, TypeOK
<1> QED BY <1>1, <1>2, <1>3, <1>4, SizeAssumption DEF IInv, IndexShape, Numbers

(***************************************************************************)
(* The queue starts in the invariant.                                      *)
(***************************************************************************)
LEMMA InitInv == Init => IInv
<1> SUFFICES ASSUME Init PROVE IInv
  OBVIOUS
<1> USE SizeAssumption
<1>1. head_ = << [val |-> 0, rel |-> TRUE] >> /\ tail_ = << [val |-> 0, rel |-> TRUE] >>
  BY DEF Init, Initialised
<1>2. Len(head_) = 1 /\ Len(tail_) = 1 /\ head_ \in Location /\ tail_ \in Location
  BY <1>1 DEF Location
<1>3. TypeOK
  BY <1>2 DEF Init, TypeOK, Slots
<1>4. n = 0 /\ m = 0
  BY DEF Init, n, m
<1>5. IndexShape
  <2>1. Masked(0) = 0
    BY DEF Masked
  <2>2. \A k \in 1 .. n + 1 : k = 1 /\ k - 1 = 0
    BY <1>4
  <2>3. \A k \in 1 .. m + 1 : k = 1 /\ k - 1 = 0
    BY <1>4
  <2>4. head_[1] = [val |-> 0, rel |-> TRUE] /\ tail_[1] = [val |-> 0, rel |-> TRUE]
    BY <1>1
  <2>5. /\ \A k \in 1 .. n + 1 : head_[k] = [val |-> Masked(k - 1), rel |-> TRUE]
        /\ \A k \in 1 .. m + 1 : tail_[k] = [val |-> Masked(k - 1), rel |-> TRUE]
    BY Zenon, <2>1, <2>2, <2>3, <2>4
  <2> QED BY <1>2, <1>4, <2>5 DEF Init, IndexShape
<1>6. Window /\ Contents /\ Accesses
  BY <1>4 DEF Init, Window, Contents, Accesses
<1>7. Fifo
  BY DEF Init, Fifo
<1> QED BY <1>3, <1>5, <1>6, <1>7 DEF IInv

(***************************************************************************)
(* push's loads keep the invariant: a push that goes on has room.          *)
(***************************************************************************)
LEMMA PushLoadInv ==
  ASSUME IInv, NEW x \in Items, NEW k \in 1 .. Len(tail_), PushLoad(x, k)
  PROVE  IInv'
<1> Numbers
  BY Counts
<1> USE DEF Numbers
<1>1. n' = n /\ m' = m
  BY DEF PushLoad, n, m
<1>2. k \in prod.view .. m + 1 /\ k - 1 \in Nat
  BY DEF PushLoad, Readable
<1>3. /\ Newest(head_) = Masked(n)
      /\ tail_[k].val = Masked(k - 1)
      /\ Acquired(tail_, k, PushTailLoadOrder, prod.acq) = k
  <2>1. n + 1 \in 1 .. n + 1 /\ (n + 1) - 1 = n
    OBVIOUS
  <2>2. head_[n + 1].val = Masked(n)
    BY <2>1 DEF IInv, IndexShape
  <2>3. tail_[k].val = Masked(k - 1) /\ tail_[k].rel = TRUE
    BY <1>2 DEF IInv, IndexShape
  <2> QED BY <2>2, <2>3 DEF Newest, Acquired, PushTailLoadOrder
<1>4. Masked(n) \in Slots
  BY MaskedRange
<1>5. NextIndex(Masked(n)) = Masked(n + 1)
  BY MaskedNext
<1>6. prod' \in [pc : {"idle", "write", "publish"}, head : Slots, item : Items \cup {Blank},
                 view : 1 .. Len(tail_), acq : 1 .. Len(tail_)]
      /\ prod'.view = k /\ prod'.acq = k
      /\ \/ prod'.pc = "idle"
         \/ /\ prod'.pc = "write" /\ prod'.head = Masked(n) /\ prod'.item = x
            /\ ~SeesFull(Masked(n), Masked(k - 1))
  <2>1. IF SeesFull(Masked(n), Masked(k - 1))
        THEN prod' = [prod EXCEPT !.view = k, !.acq = k]
        ELSE prod' = [pc |-> "write", head |-> Masked(n), item |-> x,
                      view |-> k, acq |-> k]
    BY <1>3 DEF PushLoad
  <2>2. prod \in [pc : {"idle", "write", "publish"}, head : Slots, item : Items \cup {Blank},
                  view : 1 .. Len(tail_), acq : 1 .. Len(tail_)]
        /\ prod.pc = "idle"
    BY DEF PushLoad, IInv, TypeOK
  <2>3. CASE SeesFull(Masked(n), Masked(k - 1))
    BY Zenon, <2>1, <2>2, <2>3
  <2>4. CASE ~SeesFull(Masked(n), Masked(k - 1))
    BY <1>4, <2>1, <2>4
  <2> QED BY <2>3, <2>4
<1>7. ~SeesFull(Masked(n), Masked(k - 1)) => n + 1 # (k - 1) + Size
  BY Zenon, <1>2, <1>5, MaskedLap DEF SeesFull
<1>8. n <= (k - 1) + (Size - 1)
  BY <1>2 DEF IInv, Window
<1>9. TypeOK'
  BY Zenon, <1>6 DEF IInv, TypeOK, PushLoad
<1>10. IndexShape'
  BY <1>1, <1>6 DEF IInv, IndexShape, PushLoad
<1>11. Window'
  <2>1. prod'.pc # "idle" => n + 1 <= (k - 1) + (Size - 1)
    BY <1>2, <1>6, <1>7, <1>8
  <2> QED BY <1>1, <1>6, <1>8, <2>1 DEF IInv, Window, PushLoad
<1>12. Contents' /\ Accesses' /\ Fifo'
  BY <1>1, <1>6 DEF IInv, Contents, Accesses, Fifo, PushLoad
<1> QED BY <1>9, <1>10, <1>11, <1>12 DEF IInv

(***************************************************************************)
(* push writes a slot outside the window, so no item inside is disturbed.  *)
(***************************************************************************)
LEMMA PushWriteInv ==
  ASSUME IInv, PushWrite
  PROVE  IInv'
<1> Numbers
  BY Counts
<1> USE DEF Numbers
<1>1. n' = n /\ m' = m
  BY DEF PushWrite, n, m
<1>2. /\ prod.head = Masked(n) /\ prod.head \in Slots
      /\ n + 1 <= (prod.view - 1) + (Size - 1)
      /\ prod.item \in Items
  BY DEF IInv, TypeOK, Window, PushWrite
<1>3. prod' \in [pc : {"idle", "write", "publish"}, head : Slots, item : Items \cup {Blank},
                 view : 1 .. Len(tail_), acq : 1 .. Len(tail_)]
      /\ prod'.pc = "publish" /\ prod'.head = prod.head /\ prod'.item = prod.item
      /\ prod'.view = prod.view /\ prod'.acq = prod.acq
  BY Zenon DEF PushWrite, IInv, TypeOK
<1>4. buffer_ \in [Slots -> Items \cup {Blank}] /\ slotWrite \in [Slots -> 0 .. Len(head_) + 1]
  BY DEF IInv, TypeOK
<1>5. TypeOK'
  <2>1. Len(head_) + 1 \in 0 .. Len(head_) + 1
    OBVIOUS
  <2> QED BY Zenon, <1>2, <1>3, <1>4, <2>1 DEF IInv, TypeOK, PushWrite
<1>6. IndexShape'
  BY <1>1, <1>3 DEF IInv, IndexShape, PushWrite
<1>7. Window'
  BY <1>1, <1>2, <1>3 DEF IInv, Window, PushWrite
<1>8. \A j \in m + 1 .. n : Masked(j - 1) # prod.head
  <2> SUFFICES ASSUME NEW j \in m + 1 .. n, Masked(j - 1) = Masked(n)
               PROVE  FALSE
    BY <1>2
  <2>1. j - 1 \in Nat /\ j - 1 < n
    OBVIOUS
  <2>2. (j - 1) + Size <= n
    BY <2>1, MaskedApart
  <2> QED BY <1>2, <2>2
<1>9. Contents'
  <2>1. buffer_'[prod.head] = prod.item
    BY <1>2, <1>4 DEF PushWrite
  <2>2. \A j \in m + 1 .. n : buffer_'[Masked(j - 1)] = buffer_[Masked(j - 1)]
    BY <1>4, <1>8 DEF PushWrite
  <2> QED BY <1>1, <1>3, <2>1, <2>2 DEF IInv, Contents, PushWrite
<1>10. Accesses'
  <2>1. (n + 2) - 2 = n /\ Len(head_) + 1 = n + 2 /\ n + 2 >= 2
    OBVIOUS
  <2>2. slotWrite'[prod.head] = n + 2 /\ \A i \in Slots \ {prod.head} : slotWrite'[i] = slotWrite[i]
    BY <1>2, <1>4, <2>1 DEF PushWrite
  <2>3. prod.pc = "write" /\ cons' = cons /\ slotRead' = slotRead
    BY DEF PushWrite
  <2>4. ASSUME NEW i \in Slots, slotWrite'[i] # 0
        PROVE  /\ slotWrite'[i] >= 2
               /\ Masked(slotWrite'[i] - 2) = i
               /\ slotWrite'[i] <= n' + 1 \/ (prod'.pc = "publish" /\ slotWrite'[i] = n' + 2)
    <3>1. CASE i = prod.head
      BY <1>1, <1>2, <1>3, <2>1, <2>2, <3>1
    <3>2. CASE i # prod.head
      BY <1>1, <2>2, <2>3, <2>4, <3>2 DEF IInv, Accesses
    <3> QED BY <3>1, <3>2
  <2> QED BY <1>1, <2>3, <2>4 DEF IInv, Accesses
<1>11. Fifo'
  BY DEF IInv, Fifo, PushWrite
<1> QED BY <1>5, <1>6, <1>7, <1>9, <1>10, <1>11 DEF IInv

(***************************************************************************)
(* push's store to head_ moves the item it wrote into the window.          *)
(***************************************************************************)
LEMMA PushPublishInv ==
  ASSUME IInv, PushPublish
  PROVE  IInv'
<1> Numbers
  BY Counts
<1> USE DEF Numbers
<1>1. prod.pc = "publish" /\ tail_' = tail_ /\ buffer_' = buffer_ /\ cons' = cons
      /\ slotWrite' = slotWrite /\ slotRead' = slotRead /\ popped' = popped
  BY DEF PushPublish
<1>2. /\ prod.head = Masked(n)
      /\ n + 1 <= (prod.view - 1) + (Size - 1)
      /\ prod.item \in Items
      /\ buffer_[Masked(n)] = prod.item
  BY <1>1 DEF IInv, Window, Contents
<1>3. pushed \in Seq(Items) /\ head_ \in Location
  BY DEF IInv, TypeOK
<1>4. pushed' = Append(pushed, prod.item)
  BY DEF PushPublish
<1>5. n' = n + 1 /\ m' = m /\ pushed' \in Seq(Items)
      /\ pushed'[n + 1] = prod.item /\ \A j \in 1 .. n : pushed'[j] = pushed[j]
  BY <1>1, <1>2, <1>3, <1>4 DEF n, m
<1>6. head_' = Append(head_, [val |-> Masked(n + 1), rel |-> TRUE])
  BY Zenon, <1>2, MaskedNext DEF PushPublish, Store, PushHeadStoreOrder
<1>7. Masked(n + 1) \in Nat
  BY MaskedRange, SizeAssumption DEF Slots
<1>8. head_' \in Location /\ Len(head_') = n + 2
      /\ head_'[n + 2] = [val |-> Masked(n + 1), rel |-> TRUE]
      /\ \A j \in 1 .. n + 1 : head_'[j] = head_[j]
  BY <1>3, <1>6, <1>7 DEF Location
<1>9. prod' \in [pc : {"idle", "write", "publish"}, head : Slots, item : Items \cup {Blank},
                 view : 1 .. Len(tail_), acq : 1 .. Len(tail_)]
      /\ prod'.pc = "idle" /\ prod'.view = prod.view /\ prod'.acq = prod.acq
  BY Zenon DEF PushPublish, IInv, TypeOK
<1>10. TypeOK'
  <2>1. cons' \in [pc : {"idle", "read", "release"}, tail : Slots, item : Items \cup {Blank},
                  view : 1 .. Len(head_'), acq : 1 .. Len(head_')]
    <3>1. cons \in [pc : {"idle", "read", "release"}, tail : Slots, item : Items \cup {Blank},
                    view : 1 .. Len(head_), acq : 1 .. Len(head_)]
      BY DEF IInv, TypeOK
    <3>2. 1 .. Len(head_) \subseteq 1 .. Len(head_')
      BY <1>8
    <3> QED BY <1>1, <3>1, <3>2
  <2>2. slotWrite' \in [Slots -> 0 .. Len(head_') + 1]
    BY <1>1, <1>8 DEF IInv, TypeOK
  <2>3. /\ buffer_' \in [Slots -> Items \cup {Blank}] /\ slotRead' \in [Slots -> 0 .. Len(tail_') + 1]
        /\ popped' \in Seq(Items \cup {Blank}) /\ tail_' \in Location /\ Len(tail_') > 0
    BY <1>1 DEF IInv, TypeOK
  <2>4. prod' \in [pc : {"idle", "write", "publish"}, head : Slots, item : Items \cup {Blank},
                  view : 1 .. Len(tail_'), acq : 1 .. Len(tail_')]
    BY <1>1, <1>9
  <2>5. Len(head_') > 0
    BY <1>8
  <2> QED BY Zenon, <1>5, <1>8, <2>1, <2>2, <2>3, <2>4, <2>5 DEF TypeOK
<1>11. IndexShape'
  <2>1. ASSUME NEW j \in 1 .. n' + 1
        PROVE  head_'[j] = [val |-> Masked(j - 1), rel |-> TRUE]
    <3>1. CASE j = n + 2
      <4>1. j - 1 = n + 1
        BY <3>1
      <4> QED BY <1>8, <3>1, <4>1
    <3>2. CASE j # n + 2
      <4>1. j \in 1 .. n + 1
        BY <1>5, <3>2
      <4> QED BY Zenon, <1>8, <4>1 DEF IInv, IndexShape
    <3> QED BY <3>1, <3>2
  <2> QED BY <1>1, <1>5, <1>8, <1>9, <2>1 DEF IInv, IndexShape
<1>12. Window'
  BY <1>1, <1>2, <1>5, <1>9 DEF IInv, Window
<1>13. Contents'
  <2>1. ASSUME NEW j \in m' + 1 .. n'
        PROVE  (j = m' + 1 /\ cons'.pc = "release") \/ buffer_'[Masked(j - 1)] = pushed'[j]
    <3>1. CASE j = n + 1
      <4>1. j - 1 = n
        BY <3>1
      <4> QED BY <1>1, <1>2, <1>5, <3>1, <4>1
    <3>2. CASE j # n + 1
      <4>1. j \in m + 1 .. n /\ j \in 1 .. n
        BY <1>5, <3>2
      <4> QED BY <1>1, <1>5, <4>1 DEF IInv, Contents
    <3> QED BY <3>1, <3>2
  <2>2. cons'.pc = "release" => cons'.item = pushed'[m' + 1]
    <3> SUFFICES ASSUME cons.pc = "release" PROVE cons.item = pushed'[m + 1]
      BY <1>1, <1>5
    <3>1. m + 1 \in 1 .. n
      BY DEF IInv, Window
    <3> QED BY <1>5, <3>1 DEF IInv, Contents
  <2> QED BY <1>9, <2>1, <2>2 DEF Contents
<1>14. Accesses'
  <2>1. slotWrite \in [Slots -> 0 .. n + 2]
    BY DEF IInv, TypeOK
  <2> QED BY <1>1, <1>5, <2>1 DEF IInv, Accesses
<1>15. Fifo'
  <2>1. Len(popped') = m /\ Len(pushed') = n + 1
    BY <1>1, <1>5 DEF n, m
  <2>2. \A j \in 1 .. m : popped[j] = pushed[j] /\ j \in 1 .. n
    BY DEF IInv, Fifo, n, m
  <2> QED BY <1>1, <1>5, <2>1, <2>2 DEF Fifo
<1> QED BY <1>10, <1>11, <1>12, <1>13, <1>14, <1>15 DEF IInv

(***************************************************************************)
(* pop's loads keep the invariant: a pop that goes on has an item.         *)
(***************************************************************************)
LEMMA PopLoadInv ==
  ASSUME IInv, NEW k \in 1 .. Len(head_), PopLoad(k)
  PROVE  IInv'
<1> Numbers
  BY Counts
<1> USE DEF Numbers
<1>1. n' = n /\ m' = m
  BY DEF PopLoad, n, m
<1>2. k \in cons.view .. n + 1 /\ k - 1 \in Nat /\ m <= k - 1
  <2>1. k \in cons.view .. n + 1
    BY DEF PopLoad, Readable
  <2>2. m <= cons.view - 1
    BY DEF IInv, Window
  <2> QED BY <2>1, <2>2
<1>3. /\ Newest(tail_) = Masked(m)
      /\ head_[k].val = Masked(k - 1)
      /\ Acquired(head_, k, PopHeadLoadOrder, cons.acq) = k
  <2>1. m + 1 \in 1 .. m + 1 /\ (m + 1) - 1 = m
    OBVIOUS
  <2>2. tail_[m + 1].val = Masked(m)
    BY <2>1 DEF IInv, IndexShape
  <2>3. head_[k].val = Masked(k - 1) /\ head_[k].rel = TRUE
    BY <1>2 DEF IInv, IndexShape
  <2> QED BY <2>2, <2>3 DEF Newest, Acquired, PopHeadLoadOrder
<1>4. Masked(m) \in Slots
  BY MaskedRange
<1>5. cons' \in [pc : {"idle", "read", "release"}, tail : Slots, item : Items \cup {Blank},
                 view : 1 .. Len(head_), acq : 1 .. Len(head_)]
      /\ cons'.view = k /\ cons'.acq = k
      /\ \/ cons'.pc = "idle"
         \/ /\ cons'.pc = "read" /\ cons'.tail = Masked(m)
            /\ ~SeesEmpty(Masked(k - 1), Masked(m))
  <2>1. IF SeesEmpty(Masked(k - 1), Masked(m))
        THEN cons' = [cons EXCEPT !.view = k, !.acq = k]
        ELSE cons' = [cons EXCEPT !.pc = "read", !.tail = Masked(m), !.view = k, !.acq = k]
    BY <1>3 DEF PopLoad
  <2>2. cons \in [pc : {"idle", "read", "release"}, tail : Slots, item : Items \cup {Blank},
                  view : 1 .. Len(head_), acq : 1 .. Len(head_)]
        /\ cons.pc = "idle"
    BY DEF PopLoad, IInv, TypeOK
  <2>3. CASE SeesEmpty(Masked(k - 1), Masked(m))
    BY Zenon, <2>1, <2>2, <2>3
  <2>4. CASE ~SeesEmpty(Masked(k - 1), Masked(m))
    BY Zenon, <1>4, <2>1, <2>2, <2>4
  <2> QED BY <2>3, <2>4
<1>6. cons'.pc # "idle" => m + 1 <= k - 1
  BY <1>2, <1>5 DEF SeesEmpty
<1>7. TypeOK'
  BY Zenon, <1>5 DEF IInv, TypeOK, PopLoad
<1>8. IndexShape'
  BY <1>1, <1>5 DEF IInv, IndexShape, PopLoad
<1>9. Window'
  BY <1>1, <1>2, <1>5, <1>6 DEF IInv, Window, PopLoad
<1>10. Contents' /\ Accesses' /\ Fifo'
  BY <1>1, <1>5 DEF IInv, Contents, Accesses, Fifo, PopLoad
<1> QED BY <1>7, <1>8, <1>9, <1>10 DEF IInv

(***************************************************************************)
(* pop moves the oldest item out of its slot.                              *)
(***************************************************************************)
LEMMA PopReadInv ==
  ASSUME IInv, PopRead
  PROVE  IInv'
<1> Numbers
  BY Counts
<1> USE DEF Numbers
<1>1. cons.pc = "read" /\ head_' = head_ /\ tail_' = tail_ /\ prod' = prod
      /\ slotWrite' = slotWrite /\ pushed' = pushed /\ popped' = popped
  BY DEF PopRead
<1>2. n' = n /\ m' = m
  BY <1>1 DEF n, m
<1>3. cons.tail = Masked(m) /\ m + 1 <= cons.view - 1
  BY <1>1 DEF IInv, Window
<1>4. buffer_ \in [Slots -> Items \cup {Blank}] /\ slotRead \in [Slots -> 0 .. m + 2]
      /\ cons.tail \in Slots
  BY DEF IInv, TypeOK
<1>5. buffer_[cons.tail] = pushed[m + 1]
  <2>1. m + 1 \in m + 1 .. n /\ (m + 1) - 1 = m
    BY <1>3
  <2> QED BY <1>1, <1>3, <2>1 DEF IInv, Contents
<1>6. cons' \in [pc : {"idle", "read", "release"}, tail : Slots, item : Items \cup {Blank},
                 view : 1 .. Len(head_), acq : 1 .. Len(head_)]
      /\ cons'.pc = "release" /\ cons'.tail = cons.tail /\ cons'.item = buffer_[cons.tail]
      /\ cons'.view = cons.view /\ cons'.acq = cons.acq
  BY Zenon, <1>4 DEF PopRead, IInv, TypeOK
<1>7. PICK left \in {buffer_[cons.tail], Blank} :
        buffer_' = [buffer_ EXCEPT ![cons.tail] = left]
  BY Zenon DEF PopRead
<1>8. slotRead' = [slotRead EXCEPT ![cons.tail] = m + 2]
  <2>1. Len(tail_) + 1 = m + 2
    OBVIOUS
  <2> QED BY Zenon, <2>1 DEF PopRead
<1>9. TypeOK'
  <2>1. buffer_' \in [Slots -> Items \cup {Blank}]
    BY <1>4, <1>7
  <2>2. slotRead' \in [Slots -> 0 .. Len(tail_) + 1]
    BY <1>4, <1>8
  <2> QED BY SMTT(30), <1>1, <1>6, <2>1, <2>2 DEF IInv, TypeOK
<1>10. IndexShape'
  BY <1>1, <1>2, <1>6 DEF IInv, IndexShape
<1>11. Window'
  BY <1>1, <1>2, <1>3, <1>6 DEF IInv, Window
<1>12. n <= m + (Size - 1)
  BY DEF IInv, Window
<1>13. \A j \in m + 2 .. n : Masked(j - 1) # cons.tail
  <2> SUFFICES ASSUME NEW j \in m + 2 .. n, Masked(j - 1) = Masked(m)
               PROVE  FALSE
    BY <1>3
  <2>1. j - 1 \in Nat /\ m < j - 1
    OBVIOUS
  <2>2. m + Size <= j - 1
    BY <2>1, MaskedApart
  <2> QED BY <1>12, <2>2
<1>14. Contents'
  <2>1. ASSUME NEW j \in m + 2 .. n
        PROVE  buffer_'[Masked(j - 1)] = pushed[j]
    <3>1. buffer_'[Masked(j - 1)] = buffer_[Masked(j - 1)]
      BY <1>4, <1>7, <1>13
    <3>2. j \in m + 1 .. n /\ j # m + 1
      OBVIOUS
    <3> QED BY <3>1, <3>2 DEF IInv, Contents
  <2>2. \A j \in m + 1 .. n : j = m + 1 \/ j \in m + 2 .. n
    OBVIOUS
  <2>3. prod.pc = "publish" => buffer_'[prod.head] = prod.item
    <3> SUFFICES ASSUME prod.pc = "publish" PROVE buffer_'[prod.head] = prod.item
      OBVIOUS
    <3>1. prod.head = Masked(n) /\ n + 1 <= m + (Size - 1) /\ buffer_[prod.head] = prod.item
      BY DEF IInv, Window, Contents
    <3>2. m < n
      BY <1>3
    <3>3. prod.head # cons.tail
      BY <1>3, <3>1, <3>2, MaskedApart
    <3> QED BY <1>4, <1>7, <3>1, <3>3
  <2> QED BY <1>1, <1>2, <1>5, <1>6, <2>1, <2>2, <2>3 DEF Contents
<1>15. Accesses'
  <2>1. (m + 2) - 2 = m /\ m + 2 >= 2
    OBVIOUS
  <2>2. slotRead'[cons.tail] = m + 2 /\ \A i \in Slots \ {cons.tail} : slotRead'[i] = slotRead[i]
    BY <1>4, <1>8
  <2>3. ASSUME NEW i \in Slots, slotRead'[i] # 0
        PROVE  /\ slotRead'[i] >= 2
               /\ Masked(slotRead'[i] - 2) = i
               /\ slotRead'[i] <= m' + 1 \/ (cons'.pc = "release" /\ slotRead'[i] = m' + 2)
    <3>1. CASE i = cons.tail
      BY <1>2, <1>3, <1>6, <2>1, <2>2, <3>1
    <3>2. CASE i # cons.tail
      BY <1>1, <1>2, <2>2, <2>3, <3>2 DEF IInv, Accesses
    <3> QED BY <3>1, <3>2
  <2> QED BY <1>1, <1>2, <2>3 DEF IInv, Accesses
<1>16. Fifo'
  BY <1>1 DEF IInv, Fifo
<1> QED BY <1>9, <1>10, <1>11, <1>14, <1>15, <1>16 DEF IInv

(***************************************************************************)
(* pop's store to tail_ hands the slot back and the item out.              *)
(***************************************************************************)
LEMMA PopReleaseInv ==
  ASSUME IInv, PopRelease
  PROVE  IInv'
<1> Numbers
  BY Counts
<1> USE DEF Numbers
<1>1. cons.pc = "release" /\ head_' = head_ /\ buffer_' = buffer_ /\ prod' = prod
      /\ slotWrite' = slotWrite /\ slotRead' = slotRead /\ pushed' = pushed
  BY DEF PopRelease
<1>2. /\ cons.tail = Masked(m) /\ m + 1 <= cons.view - 1
      /\ cons.item = pushed[m + 1]
  BY <1>1 DEF IInv, Window, Contents
<1>3. popped \in Seq(Items \cup {Blank}) /\ tail_ \in Location /\ cons.item \in Items \cup {Blank}
  BY DEF IInv, TypeOK
<1>4. popped' = Append(popped, cons.item)
  BY DEF PopRelease
<1>5. n' = n /\ m' = m + 1 /\ popped' \in Seq(Items \cup {Blank})
      /\ popped'[m + 1] = cons.item /\ \A j \in 1 .. m : popped'[j] = popped[j]
  BY <1>1, <1>3, <1>4 DEF n, m
<1>6. tail_' = Append(tail_, [val |-> Masked(m + 1), rel |-> TRUE])
  BY Zenon, <1>2, MaskedNext DEF PopRelease, Store, PopTailStoreOrder
<1>7. Masked(m + 1) \in Nat
  BY MaskedRange, SizeAssumption DEF Slots
<1>8. tail_' \in Location /\ Len(tail_') = m + 2
      /\ tail_'[m + 2] = [val |-> Masked(m + 1), rel |-> TRUE]
      /\ \A j \in 1 .. m + 1 : tail_'[j] = tail_[j]
  BY <1>3, <1>6, <1>7 DEF Location
<1>9. cons' \in [pc : {"idle", "read", "release"}, tail : Slots, item : Items \cup {Blank},
                 view : 1 .. Len(head_), acq : 1 .. Len(head_)]
      /\ cons'.pc = "idle" /\ cons'.view = cons.view /\ cons'.acq = cons.acq
  BY Zenon DEF PopRelease, IInv, TypeOK
<1>10. TypeOK'
  <2>1. prod' \in [pc : {"idle", "write", "publish"}, head : Slots, item : Items \cup {Blank},
                  view : 1 .. Len(tail_'), acq : 1 .. Len(tail_')]
    <3>1. prod \in [pc : {"idle", "write", "publish"}, head : Slots, item : Items \cup {Blank},
                    view : 1 .. Len(tail_), acq : 1 .. Len(tail_)]
      BY DEF IInv, TypeOK
    <3>2. 1 .. Len(tail_) \subseteq 1 .. Len(tail_')
      BY <1>8
    <3> QED BY <1>1, <3>1, <3>2
  <2>2. slotRead' \in [Slots -> 0 .. Len(tail_') + 1]
    BY <1>1, <1>8 DEF IInv, TypeOK
  <2>3. /\ buffer_' \in [Slots -> Items \cup {Blank}] /\ slotWrite' \in [Slots -> 0 .. Len(head_') + 1]
        /\ pushed' \in Seq(Items) /\ head_' \in Location /\ Len(head_') > 0
    BY <1>1 DEF IInv, TypeOK
  <2>4. cons' \in [pc : {"idle", "read", "release"}, tail : Slots, item : Items \cup {Blank},
                  view : 1 .. Len(head_'), acq : 1 .. Len(head_')]
    BY <1>1, <1>9
  <2>5. Len(tail_') > 0
    BY <1>8
  <2> QED BY Zenon, <1>5, <1>8, <2>1, <2>2, <2>3, <2>4, <2>5 DEF TypeOK
<1>11. IndexShape'
  <2>1. ASSUME NEW j \in 1 .. m' + 1
        PROVE  tail_'[j] = [val |-> Masked(j - 1), rel |-> TRUE]
    <3>1. CASE j = m + 2
      <4>1. j - 1 = m + 1
        BY <3>1
      <4> QED BY Zenon, <1>8, <3>1, <4>1
    <3>2. CASE j # m + 2
      <4>1. j \in 1 .. m + 1
        BY <1>5, <3>2
      <4> QED BY Zenon, <1>8, <4>1 DEF IInv, IndexShape
    <3> QED BY <3>1, <3>2
  <2> QED BY SMTT(30), <1>1, <1>5, <1>8, <1>9, <2>1 DEF IInv, IndexShape
<1>12. Window'
  BY <1>1, <1>2, <1>5, <1>9 DEF IInv, Window
<1>13. Contents'
  <2>1. \A k \in m + 1 .. n : k = m + 1 \/ buffer_[Masked(k - 1)] = pushed[k]
    BY Zenon DEF IInv, Contents
  <2>2. \A k \in m' + 1 .. n' : k \in m + 1 .. n /\ k # m + 1
    BY <1>5
  <2>3. \A k \in m' + 1 .. n' : buffer_'[Masked(k - 1)] = pushed'[k]
    BY Zenon, <1>1, <2>1, <2>2
  <2>4. prod'.pc = "publish" => buffer_'[prod'.head] = prod'.item
    BY Zenon, <1>1 DEF IInv, Contents
  <2> QED BY Zenon, <1>9, <2>3, <2>4 DEF Contents
<1>14. Accesses'
  <2>1. slotRead \in [Slots -> 0 .. m + 2]
    BY DEF IInv, TypeOK
  <2> QED BY <1>1, <1>5, <2>1 DEF IInv, Accesses
<1>15. Fifo'
  <2>1. Len(popped') = m + 1 /\ Len(pushed') = n
    BY <1>1, <1>5 DEF n, m
  <2>2. \A j \in 1 .. m : popped[j] = pushed[j]
    BY DEF IInv, Fifo, n, m
  <2>3. \A j \in 1 .. m + 1 : j = m + 1 \/ j \in 1 .. m
    OBVIOUS
  <2>4. m + 1 <= n
    BY <1>2
  <2> QED BY <1>1, <1>2, <1>5, <2>1, <2>2, <2>3, <2>4 DEF Fifo
<1> QED BY <1>10, <1>11, <1>12, <1>13, <1>14, <1>15 DEF IInv

-----------------------------------------------------------------------------
(***************************************************************************)
(* Every step keeps the invariant.                                         *)
(***************************************************************************)
LEMMA NextInv == IInv /\ [Next]_vars => IInv'
<1> SUFFICES ASSUME IInv, [Next]_vars PROVE IInv'
  OBVIOUS
<1>1. CASE \E x \in Items, k \in 1 .. Len(tail_) : PushLoad(x, k)
  BY <1>1, PushLoadInv
<1>2. CASE PushWrite
  BY <1>2, PushWriteInv
<1>3. CASE PushPublish
  BY <1>3, PushPublishInv
<1>4. CASE \E k \in 1 .. Len(head_) : PopLoad(k)
  BY <1>4, PopLoadInv
<1>5. CASE PopRead
  BY <1>5, PopReadInv
<1>6. CASE PopRelease
  BY <1>6, PopReleaseInv
<1>7. CASE UNCHANGED vars
  BY SMTT(30), <1>7 DEF vars, IInv, TypeOK, IndexShape, Window, Contents, Accesses, Fifo, n, m
<1> QED BY <1>1, <1>2, <1>3, <1>4, <1>5, <1>6, <1>7 DEF Next, Producer, Consumer

(***************************************************************************)
(* The invariant holds throughout every behaviour of push and pop.         *)
(***************************************************************************)
THEOREM Invariance == Spec => []IInv
  BY InitInv, NextInv, PTL DEF Spec

(***************************************************************************)
(* The variables of the queue keep their types.                            *)
(***************************************************************************)
THEOREM TypeCorrect == Spec => []TypeOK
<1>1. IInv => TypeOK
  BY DEF IInv
<1> QED BY <1>1, Invariance, PTL

(***************************************************************************)
(* pop hands out what push accepted, in order, for every Size and load.    *)
(***************************************************************************)
THEOREM FifoOrder == Spec => []Fifo
<1>1. IInv => Fifo
  BY DEF IInv
<1> QED BY <1>1, Invariance, PTL

(***************************************************************************)
(* A slot about to be accessed was last accessed by the other side a lap   *)
(* ago, which this side has acquired.                                      *)
(***************************************************************************)
LEMMA NoRaceInv == IInv => NoDataRace
<1> SUFFICES ASSUME IInv PROVE NoDataRace
  OBVIOUS
<1> Numbers
  BY Counts
<1> USE DEF Numbers
<1>1. ASSUME prod.pc = "write" PROVE slotRead[prod.head] <= prod.acq
  <2> DEFINE r == slotRead[prod.head]
  <2>1. /\ prod.head \in Slots /\ prod.head = Masked(n)
        /\ n + 1 <= (prod.view - 1) + (Size - 1)
    BY <1>1 DEF IInv, TypeOK, Window
  <2>2. r \in Nat
    BY <2>1 DEF IInv, TypeOK
  <2>3. CASE r = 0
    BY <2>3
  <2>4. CASE r # 0
    <3>1. r >= 2 /\ Masked(r - 2) = Masked(n)
          /\ (r <= m + 1 \/ (cons.pc = "release" /\ r = m + 2))
      BY <2>1, <2>4 DEF IInv, Accesses
    <3>2. cons.pc = "release" => m + 1 <= n
      BY DEF IInv, Window
    <3> HIDE DEF r
    <3>3. r - 2 \in Nat /\ r - 2 < n
      BY <2>2, <3>1, <3>2
    <3>4. (r - 2) + Size <= n
      BY <3>1, <3>3, MaskedApart
    <3>5. r <= prod.acq
      BY <2>1, <2>2, <3>4
    <3> QED BY <3>5 DEF r
  <2> QED BY <2>3, <2>4
<1>2. ASSUME cons.pc = "read" PROVE slotWrite[cons.tail] <= cons.acq
  <2> DEFINE w == slotWrite[cons.tail]
  <2>1. cons.tail \in Slots /\ cons.tail = Masked(m) /\ m + 1 <= cons.view - 1
    BY <1>2 DEF IInv, TypeOK, Window
  <2>2. w \in Nat
    BY <2>1 DEF IInv, TypeOK
  <2>3. n <= m + (Size - 1) /\ (prod.pc = "publish" => n + 1 <= m + (Size - 1))
    BY DEF IInv, Window
  <2>4. CASE w = 0
    BY <2>4
  <2>5. CASE w # 0
    <3>1. w >= 2 /\ Masked(w - 2) = Masked(m)
          /\ (w <= n + 1 \/ (prod.pc = "publish" /\ w = n + 2))
      BY <2>1, <2>5 DEF IInv, Accesses
    <3> HIDE DEF w
    <3>2. w - 2 \in Nat /\ w - 2 < m + Size
      BY <2>2, <2>3, <3>1
    <3>3. ~(m < w - 2)
      BY <3>1, <3>2, MaskedApart
    <3>4. w <= cons.acq
      BY <2>1, <2>2, <3>2, <3>3
    <3> QED BY <3>4 DEF w
  <2> QED BY <2>4, <2>5
<1> QED BY <1>1, <1>2 DEF NoDataRace

(***************************************************************************)
(* With the memory orders of the source, push's write of a slot and pop's  *)
(* move out of it are always ordered by happens-before.                    *)
(***************************************************************************)
THEOREM RaceFreedom == Spec => []NoDataRace
  BY NoRaceInv, Invariance, PTL

(***************************************************************************)
(* Within the window a masked index stands for one count.                  *)
(***************************************************************************)
LEMMA IndexTestsInv == IInv => IndexTestsExact
<1> SUFFICES ASSUME IInv PROVE IndexTestsExact
  OBVIOUS
<1> Numbers
  BY Counts
<1> USE DEF Numbers
<1>1. Newest(head_) = Masked(n) /\ Newest(tail_) = Masked(m)
  <2>1. n + 1 \in 1 .. n + 1 /\ (n + 1) - 1 = n /\ m + 1 \in 1 .. m + 1 /\ (m + 1) - 1 = m
    OBVIOUS
  <2> QED BY <2>1 DEF IInv, IndexShape, Newest
<1>2. m <= cons.view - 1 /\ n <= (prod.view - 1) + (Size - 1)
  BY DEF IInv, Window
<1>3. ASSUME NEW k \in Readable(tail_, prod.view)
      PROVE  SeesFull(Newest(head_), tail_[k].val) <=> n - (k - 1) = capacity
  <2>1. k \in prod.view .. m + 1 /\ k \in 1 .. m + 1 /\ k - 1 \in Nat
    BY DEF Readable
  <2>2. tail_[k].val = Masked(k - 1)
    BY <2>1 DEF IInv, IndexShape
  <2>3. SeesFull(Newest(head_), tail_[k].val) <=> Masked(n + 1) = Masked(k - 1)
    BY Zenon, <1>1, <2>2, MaskedNext DEF SeesFull
  <2>4. k - 1 < n + 1 /\ n + 1 <= (k - 1) + Size
    BY <1>2, <2>1
  <2>5. ASSUME Masked(n + 1) = Masked(k - 1) PROVE n + 1 = (k - 1) + Size
    <3>1. (k - 1) + Size <= n + 1
      BY <2>1, <2>4, <2>5, MaskedApart
    <3> QED BY <2>1, <2>4, <3>1
  <2>6. ASSUME n + 1 = (k - 1) + Size PROVE Masked(n + 1) = Masked(k - 1)
    BY Zenon, <2>1, <2>6, MaskedLap
  <2>7. n - (k - 1) = capacity <=> n + 1 = (k - 1) + Size
    BY <2>1 DEF capacity
  <2> QED BY <2>3, <2>5, <2>6, <2>7
<1>4. ASSUME NEW k \in Readable(head_, cons.view)
      PROVE  SeesEmpty(head_[k].val, Newest(tail_)) <=> k - 1 = m
  <2>1. k \in cons.view .. n + 1 /\ k \in 1 .. n + 1 /\ k - 1 \in Nat
    BY DEF Readable
  <2>2. head_[k].val = Masked(k - 1)
    BY <2>1 DEF IInv, IndexShape
  <2>3. m <= k - 1 /\ k - 1 <= m + (Size - 1)
    BY <1>2, <2>1
  <2>4. ASSUME Masked(m) = Masked(k - 1) PROVE k - 1 = m
    <3>1. ~(m < k - 1)
      BY <2>1, <2>3, <2>4, MaskedApart
    <3> QED BY <2>1, <2>3, <3>1
  <2> QED BY <1>1, <2>2, <2>4 DEF SeesEmpty
<1> QED BY <1>3, <1>4 DEF IndexTestsExact, n, m

(***************************************************************************)
(* The index comparisons of push and pop say full and empty exactly when   *)
(* the counts behind the indices do.                                       *)
(***************************************************************************)
THEOREM IndexTests == Spec => []IndexTestsExact
  BY IndexTestsInv, Invariance, PTL

(***************************************************************************)
(* What a call may answer, whichever store its load returns: push refuses  *)
(* an item only once capacity() of them have been pushed, and accepts one  *)
(* only where there is room; pop hands one out only where there is one.    *)
(* The engine's model of the queues, whose push and pop are single steps   *)
(* that may fail on a stale index, admits just these answers.              *)
(***************************************************************************)
AnswersJustified ==
  /\ prod.pc = "idle" =>
       \A k \in Readable(tail_, prod.view) :
         /\ SeesFull(Newest(head_), tail_[k].val) => Len(pushed) >= capacity
         /\ ~ SeesFull(Newest(head_), tail_[k].val) => Len(pushed) - Len(popped) < capacity
  /\ cons.pc = "idle" =>
       \A k \in Readable(head_, cons.view) :
         ~ SeesEmpty(head_[k].val, Newest(tail_)) => Len(popped) < Len(pushed)

(***************************************************************************)
(* Every call is answered so, at every Size and for every load.            *)
(***************************************************************************)
THEOREM CallsAnsweredSoundly == Spec => []AnswersJustified
<1>1. IInv => AnswersJustified
  <2> SUFFICES ASSUME IInv PROVE AnswersJustified
    OBVIOUS
  <2> Numbers
    BY Counts
  <2> USE DEF Numbers
  <2>1. n <= (prod.view - 1) + (Size - 1) /\ m <= cons.view - 1
    BY DEF IInv, Window
  <2>2. IndexTestsExact
    BY IndexTestsInv
  <2>3. ASSUME prod.pc = "idle", NEW k \in Readable(tail_, prod.view)
        PROVE  /\ SeesFull(Newest(head_), tail_[k].val) => n >= capacity
               /\ ~ SeesFull(Newest(head_), tail_[k].val) => n - m < capacity
    <3>1. k \in prod.view .. m + 1
      BY DEF Readable
    <3>2. SeesFull(Newest(head_), tail_[k].val) <=> n - (k - 1) = capacity
      BY Zenon, <2>2, <2>3 DEF IndexTestsExact, n
    <3>3. n - (k - 1) = capacity => n >= capacity
      BY <3>1 DEF capacity
    <3>4. n - (k - 1) # capacity => n - m < capacity
      BY <2>1, <3>1 DEF capacity
    <3> QED BY Zenon, <3>2, <3>3, <3>4
  <2>4. ASSUME cons.pc = "idle", NEW k \in Readable(head_, cons.view)
        PROVE  ~ SeesEmpty(head_[k].val, Newest(tail_)) => m < n
    <3>1. k \in cons.view .. n + 1
      BY DEF Readable
    <3>2. SeesEmpty(head_[k].val, Newest(tail_)) <=> k - 1 = m
      BY Zenon, <2>2, <2>4 DEF IndexTestsExact, m
    <3>3. k - 1 # m => m < n
      BY <2>1, <3>1
    <3> QED BY Zenon, <3>2, <3>3
  <2> QED BY Zenon, <2>3, <2>4 DEF AnswersJustified, n, m
<1> QED BY <1>1, Invariance, PTL

(***************************************************************************)
(* The queue implements the bounded FIFO of capacity(): every step of push *)
(* and pop is a Put, a Take, or invisible.                                 *)
(***************************************************************************)
THEOREM Refinement == Spec => ImplementsFIFO
<1> DEFINE q == SubSeq(pushed, m + 1, n)
<1>1. Init => Abstract!Init
  <2> SUFFICES ASSUME Init PROVE Abstract!Init
    OBVIOUS
  <2>1. pushed = << >> /\ popped = << >>
    BY DEF Init
  <2> QED BY <2>1 DEF Abstract!Init
<1>2. IInv /\ [Next]_vars => [Abstract!Next]_(Abstract!vars)
  <2> SUFFICES ASSUME IInv, [Next]_vars
               PROVE  Abstract!Next \/ UNCHANGED <<q, popped>>
    BY DEF Abstract!vars, n, m
  <2> Numbers
    BY Counts
  <2> USE DEF Numbers
  <2>1. pushed \in Seq(Items) /\ Len(pushed) = n /\ popped \in Seq(Items \cup {Blank})
    BY DEF IInv, TypeOK, n
  <2>2. CASE PushPublish
    <3>1. prod.item \in Items /\ n + 1 <= m + (Size - 1)
      BY <2>2 DEF PushPublish, IInv, Window
    <3>2. pushed' = Append(pushed, prod.item) /\ popped' = popped
      BY <2>2 DEF PushPublish
    <3>3. n' = n + 1 /\ m' = m
      BY <2>1, <3>1, <3>2 DEF n, m
    <3>4. q' = Append(q, prod.item)
      <4>1. m \in 0 .. Len(pushed)
        BY <2>1
      <4>2. SubSeq(Append(pushed, prod.item), m + 1, Len(pushed) + 1)
              = Append(SubSeq(pushed, m + 1, Len(pushed)), prod.item)
        BY ONLY SMTT(30), <2>1, <3>1, <4>1, RestOfAppend
      <4> QED BY Zenon, <2>1, <3>2, <3>3, <4>2
    <3>5. Len(q) < capacity
      BY <2>1, <3>1 DEF capacity
    <3> QED BY Zenon, <3>1, <3>2, <3>4, <3>5 DEF Abstract!Next, Abstract!Put, n, m
  <2>3. CASE PopRelease
    <3>1. m + 1 <= n /\ cons.item = pushed[m + 1]
      BY <2>3 DEF PopRelease, IInv, Window, Contents
    <3>2. popped' = Append(popped, cons.item) /\ pushed' = pushed
      BY <2>3 DEF PopRelease
    <3>3. n' = n /\ m' = m + 1
      BY <2>1, <3>2 DEF n, m
    <3>4. q # << >> /\ Head(q) = cons.item /\ Tail(q) = SubSeq(pushed, m + 2, n)
      <4>1. m \in 0 .. Len(pushed) /\ m < Len(pushed)
        BY <2>1, <3>1
      <4>2. /\ SubSeq(pushed, m + 1, Len(pushed)) # << >>
            /\ Head(SubSeq(pushed, m + 1, Len(pushed))) = pushed[m + 1]
            /\ Tail(SubSeq(pushed, m + 1, Len(pushed))) = SubSeq(pushed, m + 2, Len(pushed))
        BY ONLY SMTT(30), <2>1, <4>1, RestOfTail
      <4> QED BY Zenon, <2>1, <3>1, <4>2
    <3>5. q' = SubSeq(pushed, m + 2, n)
      <4>1. (m + 1) + 1 = m + 2
        OBVIOUS
      <4> QED BY <3>2, <3>3, <4>1
    <3> QED BY Zenon, <3>2, <3>4, <3>5 DEF Abstract!Next, Abstract!Take, n, m
  <2>4. CASE ~PushPublish /\ ~PopRelease
    <3>1. pushed' = pushed /\ popped' = popped
      BY Zenon, <2>4 DEF Next, Producer, Consumer, PushLoad, PushWrite, PopLoad, PopRead, vars
    <3> QED BY <3>1 DEF n, m
  <2> QED BY Zenon, <2>2, <2>3, <2>4
<1> QED BY <1>1, <1>2, Invariance, PTL DEF Spec, ImplementsFIFO, Abstract!Spec
-----------------------------------------------------------------------------
(***************************************************************************)
(* What an owner was told is covered by the position its load returned, so *)
(* it stays true while the other side moves on.                            *)
(***************************************************************************)
Knowledge ==
  /\ atLeast \in 0 .. capacity /\ atMost \in 0 .. capacity
  /\ atLeast <= (cons.view - 1) - m
  /\ n - (prod.view - 1) <= atMost

(***************************************************************************)
(* Every store to an index carries a position the other index has reached. *)
(***************************************************************************)
Carried ==
  /\ carries \in [head : Seq(Nat), tail : Seq(Nat)]
  /\ Len(carries.head) = n + 1 /\ Len(carries.tail) = m + 1
  /\ \A k \in 1 .. n + 1 : carries.head[k] \in 1 .. m + 1
  /\ \A k \in 1 .. m + 1 : carries.tail[k] \in 1 .. n + 1

ObsShape ==
  /\ obs \in [pc : {"idle", "tail", "returned"}, head : Slots,
              headView : 1 .. n + 1, tailView : 1 .. m + 1, result : Slots]
  /\ peak \in 0 .. capacity

ObsIInv == IInv /\ Knowledge /\ Carried /\ ObsShape
-----------------------------------------------------------------------------
(***************************************************************************)
(* size() of indices whose counts are less than a lap apart is the         *)
(* difference of the counts.                                               *)
(***************************************************************************)
LEMMA SizeOfCounts ==
  \A a, b \in Nat : b <= a /\ a < b + Size => SizeOf(Masked(a), Masked(b)) = a - b
  BY Zenon, SizeAssumption, ModDifference DEF SizeOf, Masked

(***************************************************************************)
(* size() of any two indices is between 0 and capacity().                  *)
(***************************************************************************)
LEMMA SizeOfRange == \A a, b \in Slots : SizeOf(a, b) \in Slots
  BY SizeAssumption, ModRange DEF SizeOf, Masked, Slots

(***************************************************************************)
(* The values the owners' loads return, and how far the counts are apart.  *)
(***************************************************************************)
LEMMA Loads ==
  ASSUME IInv
  PROVE  /\ Newest(head_) = Masked(n) /\ Newest(tail_) = Masked(m)
         /\ \A k \in 1 .. n + 1 : head_[k].val = Masked(k - 1) /\ head_[k].rel = TRUE
         /\ \A k \in 1 .. m + 1 : tail_[k].val = Masked(k - 1) /\ tail_[k].rel = TRUE
         /\ m <= cons.view - 1 /\ n <= (prod.view - 1) + (Size - 1)
         /\ n <= m + (Size - 1)
<1> Numbers
  BY Counts
<1> USE DEF Numbers
<1>1. n + 1 \in 1 .. n + 1 /\ (n + 1) - 1 = n /\ m + 1 \in 1 .. m + 1 /\ (m + 1) - 1 = m
  OBVIOUS
<1>2. Newest(head_) = Masked(n) /\ Newest(tail_) = Masked(m)
  BY <1>1 DEF IInv, IndexShape, Newest
<1>3. m <= cons.view - 1 /\ n <= (prod.view - 1) + (Size - 1)
  BY DEF IInv, Window
<1>4. n <= m + (Size - 1)
  BY <1>3
<1> QED BY <1>2, <1>3, <1>4 DEF IInv, IndexShape

(***************************************************************************)
(* The queue and its observers start in the invariant.                     *)
(***************************************************************************)
LEMMA ObsInitInv == ObsInit => ObsIInv
<1> SUFFICES ASSUME ObsInit PROVE ObsIInv
  OBVIOUS
<1> USE SizeAssumption
<1>1. IInv
  BY InitInv DEF ObsInit
<1>2. n = 0 /\ m = 0 /\ cons.view = 1 /\ prod.view = 1
  BY DEF ObsInit, Init, n, m
<1>3. capacity \in Nat /\ 0 \in Slots
  BY DEF capacity, Slots
<1>4. Knowledge
  BY <1>2, <1>3 DEF ObsInit, Knowledge
<1>5. Carried
  <2>1. <<1>> \in Seq(Nat) /\ Len(<<1>>) = 1 /\ <<1>>[1] = 1
    OBVIOUS
  <2>2. \A k \in 1 .. 0 + 1 : k = 1
    OBVIOUS
  <2>3. carries = [head |-> <<1>>, tail |-> <<1>>]
    BY DEF ObsInit
  <2>4. carries.head = <<1>> /\ carries.tail = <<1>> /\ carries \in [head : Seq(Nat), tail : Seq(Nat)]
    BY <2>1, <2>3
  <2> QED BY <1>2, <2>1, <2>2, <2>4 DEF Carried
<1>6. ObsShape
  BY <1>2, <1>3 DEF ObsInit, ObsShape
<1> QED BY <1>1, <1>4, <1>5, <1>6 DEF ObsIInv

(***************************************************************************)
(* How a step of push or pop moves what the observers rely on: a count     *)
(* moves with its index, one at a time, and no thread forgets a position.  *)
(***************************************************************************)
LEMMA QueueMoves ==
  ASSUME IInv, Next
  PROVE  /\ \/ n' = n /\ pushed' = pushed /\ head_' = head_
            \/ n' = n + 1 /\ pushed' # pushed /\ head_' # head_
         /\ \/ m' = m /\ popped' = popped /\ tail_' = tail_
            \/ m' = m + 1 /\ popped' # popped /\ tail_' # tail_
         /\ prod'.view >= prod.view /\ cons'.view >= cons.view
<1> Numbers
  BY Counts
<1> USE DEF Numbers
<1>0. /\ prod \in [pc : {"idle", "write", "publish"}, head : Slots, item : Items \cup {Blank},
                   view : 1 .. Len(tail_), acq : 1 .. Len(tail_)]
      /\ cons \in [pc : {"idle", "read", "release"}, tail : Slots, item : Items \cup {Blank},
                   view : 1 .. Len(head_), acq : 1 .. Len(head_)]
      /\ pushed \in Seq(Items) /\ popped \in Seq(Items \cup {Blank})
      /\ head_ \in Location /\ tail_ \in Location
  BY DEF IInv, TypeOK
<1>1. ASSUME NEW x \in Items, NEW k \in 1 .. Len(tail_), PushLoad(x, k)
      PROVE  /\ pushed' = pushed /\ popped' = popped /\ head_' = head_ /\ tail_' = tail_
             /\ cons' = cons /\ prod'.view >= prod.view
  <2>1. k >= prod.view
    BY SMTT(30), <1>1 DEF PushLoad, Readable
  <2>2. prod'.view = k
    <3>1. CASE \E a : prod' = [prod EXCEPT !.view = k, !.acq = a]
      BY <1>0, <3>1
    <3>2. CASE \E a, h : prod' = [pc |-> "write", head |-> h, item |-> x, view |-> k, acq |-> a]
      BY <3>2
    <3> QED BY Zenon, <1>1, <3>1, <3>2 DEF PushLoad
  <2> QED BY <1>1, <2>1, <2>2 DEF PushLoad
<1>2. CASE PushWrite
  BY <1>0, <1>2 DEF PushWrite, n, m
<1>3. CASE PushPublish
  <2>1. prod.item \in Items
    BY <1>3 DEF PushPublish, IInv, Window
  <2>2. pushed' = Append(pushed, prod.item) /\ n' = n + 1
    BY <1>0, <1>3, <2>1 DEF PushPublish, n
  <2>3. pushed' # pushed
    BY <2>2 DEF n
  <2>4. IInv'
    BY <1>3, PushPublishInv
  <2>5. Len(head_') = n' + 1
    BY <2>4 DEF IInv, IndexShape
  <2>6. head_' # head_
    BY <2>2, <2>5
  <2>7. popped' = popped /\ m' = m /\ tail_' = tail_ /\ cons' = cons /\ prod'.view = prod.view
    BY <1>0, <1>3 DEF PushPublish, m
  <2> QED BY <1>0, <2>2, <2>3, <2>6, <2>7
<1>4. ASSUME NEW k \in 1 .. Len(head_), PopLoad(k)
      PROVE  /\ pushed' = pushed /\ popped' = popped /\ head_' = head_ /\ tail_' = tail_
             /\ prod' = prod /\ cons'.view >= cons.view
  <2>1. k >= cons.view
    BY SMTT(30), <1>4 DEF PopLoad, Readable
  <2>2. cons'.view = k
    <3>1. \/ \E a : cons' = [cons EXCEPT !.view = k, !.acq = a]
          \/ \E a, t : cons' = [cons EXCEPT !.pc = "read", !.tail = t, !.view = k, !.acq = a]
      BY Zenon, <1>4 DEF PopLoad
    <3> QED BY ZenonT(40), <1>0, <3>1
  <2> QED BY <1>4, <2>1, <2>2 DEF PopLoad
<1>5. CASE PopRead
  BY <1>0, <1>5 DEF PopRead, n, m
<1>6. CASE PopRelease
  <2>1. popped' = Append(popped, cons.item) /\ m' = m + 1
    BY <1>0, <1>6 DEF PopRelease, m
  <2>2. popped' # popped
    BY <2>1 DEF m
  <2>3. IInv'
    BY <1>6, PopReleaseInv
  <2>4. Len(tail_') = m' + 1
    BY <2>3 DEF IInv, IndexShape
  <2>5. tail_' # tail_
    BY <2>1, <2>4
  <2>6. pushed' = pushed /\ n' = n /\ head_' = head_ /\ prod' = prod /\ cons'.view = cons.view
    BY <1>0, <1>6 DEF PopRelease, n
  <2> QED BY <1>0, <2>1, <2>2, <2>5, <2>6
<1>7. CASE \E x \in Items, k \in 1 .. Len(tail_) : PushLoad(x, k)
  BY <1>0, <1>1, <1>7 DEF n, m
<1>8. CASE \E k \in 1 .. Len(head_) : PopLoad(k)
  BY <1>0, <1>4, <1>8 DEF n, m
<1> QED BY <1>2, <1>3, <1>5, <1>6, <1>7, <1>8 DEF Next, Producer, Consumer

(***************************************************************************)
(* A step of push or pop keeps what the observers rely on.                 *)
(***************************************************************************)
LEMMA QueueStepInv ==
  ASSUME ObsIInv, QueueStep
  PROVE  ObsIInv'
<1> IInv /\ Next
  BY DEF ObsIInv, QueueStep
<1>1. IInv'
  BY NextInv
<1> Numbers
  BY Counts
<1> USE DEF Numbers
<1>2. Numbers'
  <2>1. (IInv => Numbers)'
    BY Counts, PTL
  <2> QED BY <1>1, <2>1
<1>3. /\ m' <= cons'.view - 1 /\ n' <= (prod'.view - 1) + (Size - 1)
      /\ n' \in Nat /\ m' \in Nat /\ m' <= n' /\ n' <= m' + (Size - 1)
      /\ prod'.view \in 1 .. m' + 1 /\ cons'.view \in 1 .. n' + 1
  <2>1. m' <= cons'.view - 1 /\ n' <= (prod'.view - 1) + (Size - 1)
    BY <1>1 DEF IInv, Window
  <2>2. /\ n' \in Nat /\ m' \in Nat /\ m' <= n'
        /\ prod'.view \in 1 .. m' + 1 /\ cons'.view \in 1 .. n' + 1
    BY <1>2
  <2>3. n' <= m' + (Size - 1)
    <3> DEFINE v == prod'.view
               a == n'
               b == m'
    <3>1. a \in Nat /\ b \in Nat /\ v \in 1 .. b + 1 /\ a <= (v - 1) + (Size - 1)
      BY <2>1, <2>2
    <3> HIDE DEF v, a, b
    <3>2. a <= b + (Size - 1)
      BY <3>1
    <3> QED BY <3>2 DEF a, b
  <2> QED BY Zenon, <2>1, <2>2, <2>3
<1>4. capacity = Size - 1 /\ capacity \in Nat /\ capacity' = capacity
  BY DEF capacity
<1>5. /\ \/ n' = n /\ pushed' = pushed /\ head_' = head_
         \/ n' = n + 1 /\ pushed' # pushed /\ head_' # head_
      /\ \/ m' = m /\ popped' = popped /\ tail_' = tail_
         \/ m' = m + 1 /\ popped' # popped /\ tail_' # tail_
      /\ prod'.view >= prod.view /\ cons'.view >= cons.view
  BY QueueMoves
<1>6. Knowledge'
  <2>1. atLeast \in 0 .. capacity /\ atMost \in 0 .. capacity
        /\ atLeast <= (cons.view - 1) - m /\ n - (prod.view - 1) <= atMost
    BY DEF ObsIInv, Knowledge
  <2>2. /\ atLeast' = IF popped' # popped THEN 0 ELSE atLeast
        /\ atMost' = IF pushed' # pushed THEN capacity ELSE atMost
    BY DEF QueueStep
  <2>3. atLeast' \in 0 .. capacity /\ atLeast' <= (cons'.view - 1) - m'
    <3>1. CASE popped' = popped /\ m' = m
      <4> DEFINE v == cons.view
                 w == cons'.view
      <4>0. v \in Int /\ w \in Int
        <5>1. w \in 1 .. n' + 1 /\ n' \in Nat
          BY ONLY <1>3
        <5>2. v \in 1 .. n + 1
          OBVIOUS
        <5> QED BY <5>1, <5>2
      <4>1. v \in Int /\ w \in Int /\ w >= v /\ atLeast <= (v - 1) - m
        BY <4>0, <1>5, <2>1
      <4> HIDE DEF v, w
      <4>2. atLeast <= (w - 1) - m
        BY <2>1, <4>1
      <4>3. atLeast' = atLeast /\ m' = m
        BY <2>2, <3>1
      <4> QED BY <2>1, <4>2, <4>3 DEF w
    <3>2. CASE popped' # popped
      BY <1>3, <1>4, <2>2, <3>2
    <3> QED BY <1>5, <3>1, <3>2
  <2>4. atMost' \in 0 .. capacity /\ n' - (prod'.view - 1) <= atMost'
    <3>1. CASE pushed' = pushed /\ n' = n
      <4> DEFINE v == prod.view
                 w == prod'.view
      <4>0. v \in Int /\ w \in Int
        <5>1. w \in 1 .. m' + 1 /\ m' \in Nat
          BY ONLY <1>3
        <5>2. v \in 1 .. m + 1
          OBVIOUS
        <5> QED BY <5>1, <5>2
      <4>1. v \in Int /\ w \in Int /\ w >= v /\ n - (v - 1) <= atMost
        BY <4>0, <1>5, <2>1
      <4> HIDE DEF v, w
      <4>2. n - (w - 1) <= atMost
        BY <2>1, <1>4, <4>1
      <4>3. atMost' = atMost /\ n' = n
        BY <2>2, <3>1
      <4> QED BY <2>1, <4>2, <4>3 DEF w
    <3>2. CASE pushed' # pushed
      BY <1>3, <1>4, <2>2, <3>2
    <3> QED BY <1>5, <3>1, <3>2
  <2> QED BY <1>4, <2>3, <2>4 DEF Knowledge
<1>7. Carried'
  <2>0. carries \in [head : Seq(Nat), tail : Seq(Nat)]
        /\ Len(carries.head) = n + 1 /\ Len(carries.tail) = m + 1
        /\ (\A k \in 1 .. n + 1 : carries.head[k] \in 1 .. m + 1)
        /\ (\A k \in 1 .. m + 1 : carries.tail[k] \in 1 .. n + 1)
    BY DEF ObsIInv, Carried
  <2>1. carries' = [head |-> IF head_' # head_ THEN Append(carries.head, prod.acq) ELSE carries.head,
                    tail |-> IF tail_' # tail_ THEN Append(carries.tail, cons.acq) ELSE carries.tail]
    BY DEF QueueStep
  <2>2. /\ carries'.head = IF head_' # head_ THEN Append(carries.head, prod.acq) ELSE carries.head
        /\ carries'.tail = IF tail_' # tail_ THEN Append(carries.tail, cons.acq) ELSE carries.tail
        /\ carries' = [head |-> carries'.head, tail |-> carries'.tail]
    BY <2>1
  <2>3. carries'.head \in Seq(Nat) /\ Len(carries'.head) = n' + 1
        /\ \A k \in 1 .. n' + 1 : carries'.head[k] \in 1 .. m' + 1
    <3>1. CASE head_' = head_ /\ n' = n
      <4>1. carries'.head = carries.head
        BY <2>2, <3>1
      <4>2. 1 .. m + 1 \subseteq 1 .. m' + 1
        BY <1>5
      <4> QED BY <2>0, <3>1, <4>1, <4>2
    <3>2. CASE head_' # head_ /\ n' = n + 1
      <4> DEFINE h == carries.head
                 g == Append(h, prod.acq)
      <4>1. h \in Seq(Nat) /\ Len(h) = n + 1 /\ prod.acq \in Nat /\ prod.acq \in 1 .. m + 1
        BY <2>0
      <4>2. g \in Seq(Nat) /\ Len(g) = n + 2 /\ g[n + 2] = prod.acq
            /\ \A k \in 1 .. n + 1 : g[k] = h[k]
        BY <4>1
      <4>3. carries'.head = g
        BY <2>2, <3>2
      <4>4. 1 .. m + 1 \subseteq 1 .. m' + 1
        BY <1>5
      <4> HIDE DEF h, g
      <4>5. ASSUME NEW k \in 1 .. n + 2 PROVE g[k] \in 1 .. m' + 1
        <5>1. CASE k = n + 2
          BY <4>1, <4>2, <4>4, <5>1
        <5>2. CASE k # n + 2
          <6>1. k \in 1 .. n + 1
            BY <5>2
          <6> QED BY Zenon, <2>0, <4>2, <4>4, <6>1 DEF h
        <5> QED BY <5>1, <5>2
      <4>6. n' + 1 = n + 2
        BY <3>2
      <4> QED BY <4>2, <4>3, <4>5, <4>6
    <3> QED BY <1>5, <3>1, <3>2
  <2>4. carries'.tail \in Seq(Nat) /\ Len(carries'.tail) = m' + 1
        /\ \A k \in 1 .. m' + 1 : carries'.tail[k] \in 1 .. n' + 1
    <3>1. CASE tail_' = tail_ /\ m' = m
      <4>1. carries'.tail = carries.tail
        BY <2>2, <3>1
      <4>2. 1 .. n + 1 \subseteq 1 .. n' + 1
        BY <1>5
      <4> QED BY <2>0, <3>1, <4>1, <4>2
    <3>2. CASE tail_' # tail_ /\ m' = m + 1
      <4> DEFINE h == carries.tail
                 g == Append(h, cons.acq)
      <4>1. h \in Seq(Nat) /\ Len(h) = m + 1 /\ cons.acq \in Nat /\ cons.acq \in 1 .. n + 1
        BY <2>0
      <4>2. g \in Seq(Nat) /\ Len(g) = m + 2 /\ g[m + 2] = cons.acq
            /\ \A k \in 1 .. m + 1 : g[k] = h[k]
        BY <4>1
      <4>3. carries'.tail = g
        BY <2>2, <3>2
      <4>4. 1 .. n + 1 \subseteq 1 .. n' + 1
        BY <1>5
      <4> HIDE DEF h, g
      <4>5. ASSUME NEW k \in 1 .. m + 2 PROVE g[k] \in 1 .. n' + 1
        <5>1. CASE k = m + 2
          BY <4>1, <4>2, <4>4, <5>1
        <5>2. CASE k # m + 2
          <6>1. k \in 1 .. m + 1
            BY <5>2
          <6> QED BY Zenon, <2>0, <4>2, <4>4, <6>1 DEF h
        <5> QED BY <5>1, <5>2
      <4>6. m' + 1 = m + 2
        BY <3>2
      <4> QED BY <4>2, <4>3, <4>5, <4>6
    <3> QED BY <1>5, <3>1, <3>2
  <2>5. carries' \in [head : Seq(Nat), tail : Seq(Nat)]
    BY Zenon, <2>2, <2>3, <2>4
  <2> QED BY <2>3, <2>4, <2>5 DEF Carried
<1>8. ObsShape'
  <2>1. obs' = obs /\ 1 .. n + 1 \subseteq 1 .. n' + 1 /\ 1 .. m + 1 \subseteq 1 .. m' + 1
    BY <1>5 DEF QueueStep
  <2>2. obs' \in [pc : {"idle", "tail", "returned"}, head : Slots,
                  headView : 1 .. n' + 1, tailView : 1 .. m' + 1, result : Slots]
    BY <2>1 DEF ObsIInv, ObsShape
  <2>3. peak' = IF n' - m' > peak THEN n' - m' ELSE peak
    BY DEF QueueStep, Occupancy, n, m
  <2>4. peak' \in 0 .. capacity
    <3> DEFINE o == n' - m'
    <3>0. n' \in Nat /\ m' \in Nat /\ m' <= n' /\ n' <= m' + capacity
      BY ONLY <1>3, <1>4
    <3>1. o \in 0 .. capacity /\ peak \in 0 .. capacity
      <4>1. \A a, b \in Nat : b <= a /\ a <= b + capacity => a - b \in 0 .. capacity
        BY <1>4
      <4>2. o \in 0 .. capacity
        BY ONLY Zenon, <3>0, <4>1
      <4>3. peak \in 0 .. capacity
        BY DEF ObsIInv, ObsShape
      <4> QED BY <4>2, <4>3
    <3> HIDE DEF o
    <3>2. peak' = IF o > peak THEN o ELSE peak
      BY <2>3 DEF o
    <3> QED BY <3>1, <3>2
  <2> QED BY <2>2, <2>4, <1>4 DEF ObsShape, Slots
<1> QED BY <1>1, <1>6, <1>7, <1>8 DEF ObsIInv

(***************************************************************************)
(* The consumer's empty() and size() move only what it has seen of head_.  *)
(***************************************************************************)
LEMMA ConsumerLooksInv ==
  ASSUME ObsIInv, NEW k \in 1 .. Len(head_), ConsumerLooks(k)
  PROVE  ObsIInv'
<1> IInv
  BY DEF ObsIInv
<1> Numbers
  BY Counts
<1> USE DEF Numbers
<1>1. n' = n /\ m' = m /\ capacity' = capacity /\ capacity = Size - 1 /\ capacity \in Nat
  BY DEF ConsumerLooks, n, m, capacity
<1>2. k \in cons.view .. n + 1 /\ k - 1 \in Nat
  BY DEF ConsumerLooks, Readable
<1>3. /\ Newest(tail_) = Masked(m) /\ head_[k].val = Masked(k - 1) /\ head_[k].rel = TRUE
      /\ m <= cons.view - 1 /\ n <= m + (Size - 1)
  BY Zenon, Loads
<1>4. /\ cons \in [pc : {"idle", "read", "release"}, tail : Slots, item : Items \cup {Blank},
                   view : 1 .. Len(head_), acq : 1 .. Len(head_)]
      /\ cons.pc = "idle"
  BY DEF ConsumerLooks, IInv, TypeOK
<1>5. cons' = [cons EXCEPT !.view = k, !.acq = k]
  BY Zenon, <1>3 DEF ConsumerLooks, Acquired
<1>6. /\ cons' \in [pc : {"idle", "read", "release"}, tail : Slots, item : Items \cup {Blank},
                    view : 1 .. Len(head_), acq : 1 .. Len(head_)]
      /\ cons'.pc = "idle" /\ cons'.view = k /\ cons'.acq = k
  BY Zenon, <1>4, <1>5
<1>7. m <= k - 1 /\ k - 1 <= m + (Size - 1)
  BY <1>2, <1>3
<1>8. IInv'
  <2>1. TypeOK'
    BY Zenon, <1>6 DEF IInv, TypeOK, ConsumerLooks
  <2>2. IndexShape'
    BY <1>1, <1>6 DEF IInv, IndexShape, ConsumerLooks
  <2>3. Window'
    BY <1>1, <1>6, <1>7 DEF IInv, Window, ConsumerLooks
  <2>4. Contents' /\ Accesses' /\ Fifo'
    BY SMTT(30), <1>1, <1>4, <1>6 DEF IInv, Contents, Accesses, Fifo, ConsumerLooks
  <2> QED BY <2>1, <2>2, <2>3, <2>4 DEF IInv
<1>9. Knowledge'
  <2>1. atLeast' \in 0 .. capacity /\ atLeast' <= (k - 1) - m
    <3>1. CASE atLeast' = SizeOf(head_[k].val, Newest(tail_))
      <4>1. SizeOf(Masked(k - 1), Masked(m)) = (k - 1) - m
        BY <1>2, <1>7, SizeOfCounts
      <4> QED BY <1>1, <1>3, <1>7, <3>1, <4>1
    <3>2. CASE atLeast' = IF SeesEmpty(head_[k].val, Newest(tail_)) THEN 0 ELSE 1
      <4>1. CASE k - 1 = m
        BY <1>1, <1>3, <3>2, <4>1 DEF SeesEmpty
      <4>2. CASE k - 1 # m
        <5>1. m + 1 <= k - 1 /\ 1 <= capacity
          BY <1>1, <1>7, <4>2
        <5>2. atLeast' \in {0, 1}
          BY <3>2
        <5> QED BY <1>1, <1>2, <5>1, <5>2
      <4> QED BY <4>1, <4>2
    <3> QED BY <3>1, <3>2 DEF ConsumerLooks
  <2> QED BY <1>1, <1>6, <2>1 DEF ObsIInv, Knowledge, ConsumerLooks
<1>10. Carried' /\ ObsShape'
  BY Zenon, <1>1 DEF ObsIInv, Carried, ObsShape, ConsumerLooks, Slots
<1> QED BY <1>8, <1>9, <1>10 DEF ObsIInv

(***************************************************************************)
(* The producer's full() and size() move only what it has seen of tail_.   *)
(***************************************************************************)
LEMMA ProducerLooksInv ==
  ASSUME ObsIInv, NEW k \in 1 .. Len(tail_), ProducerLooks(k)
  PROVE  ObsIInv'
<1> IInv
  BY DEF ObsIInv
<1> Numbers
  BY Counts
<1> USE DEF Numbers
<1>1. n' = n /\ m' = m /\ capacity' = capacity /\ capacity = Size - 1 /\ capacity \in Nat
  BY DEF ProducerLooks, n, m, capacity
<1>2. k \in prod.view .. m + 1 /\ k - 1 \in Nat
  BY DEF ProducerLooks, Readable
<1>3. /\ Newest(head_) = Masked(n) /\ tail_[k].val = Masked(k - 1) /\ tail_[k].rel = TRUE
      /\ n <= (prod.view - 1) + (Size - 1)
  BY Zenon, Loads
<1>4. /\ prod \in [pc : {"idle", "write", "publish"}, head : Slots, item : Items \cup {Blank},
                   view : 1 .. Len(tail_), acq : 1 .. Len(tail_)]
      /\ prod.pc = "idle"
  BY DEF ProducerLooks, IInv, TypeOK
<1>5. prod' = [prod EXCEPT !.view = k, !.acq = k]
  BY Zenon, <1>3 DEF ProducerLooks, Acquired
<1>6. /\ prod' \in [pc : {"idle", "write", "publish"}, head : Slots, item : Items \cup {Blank},
                    view : 1 .. Len(tail_), acq : 1 .. Len(tail_)]
      /\ prod'.pc = "idle" /\ prod'.view = k /\ prod'.acq = k
  BY Zenon, <1>4, <1>5
<1>7. k - 1 <= n /\ n <= (k - 1) + (Size - 1)
  BY <1>2, <1>3
<1>8. IInv'
  <2>1. TypeOK'
    BY Zenon, <1>6 DEF IInv, TypeOK, ProducerLooks
  <2>2. IndexShape'
    BY <1>1, <1>6 DEF IInv, IndexShape, ProducerLooks
  <2>3. Window'
    BY <1>1, <1>6, <1>7 DEF IInv, Window, ProducerLooks
  <2>4. Contents' /\ Accesses' /\ Fifo'
    BY SMTT(30), <1>1, <1>4, <1>6 DEF IInv, Contents, Accesses, Fifo, ProducerLooks
  <2> QED BY <2>1, <2>2, <2>3, <2>4 DEF IInv
<1>9. Knowledge'
  <2>1. atMost' \in 0 .. capacity /\ n - (k - 1) <= atMost'
    <3>1. CASE atMost' = SizeOf(Newest(head_), tail_[k].val)
      <4>1. SizeOf(Masked(n), Masked(k - 1)) = n - (k - 1)
        BY <1>2, <1>7, SizeOfCounts
      <4> QED BY <1>1, <1>2, <1>3, <1>7, <3>1, <4>1
    <3>2. CASE atMost' = IF SeesFull(Newest(head_), tail_[k].val) THEN capacity ELSE capacity - 1
      <4>1. CASE SeesFull(Newest(head_), tail_[k].val)
        BY <1>1, <1>2, <1>7, <3>2, <4>1
      <4>2. CASE ~SeesFull(Newest(head_), tail_[k].val)
        <5>1. n - (k - 1) # capacity
          BY <1>4, <4>2, IndexTestsInv DEF IndexTestsExact, ProducerLooks, n
        <5>2. n - (k - 1) <= capacity - 1 /\ 0 <= n - (k - 1)
          BY <1>1, <1>2, <1>7, <5>1
        <5> QED BY <1>1, <1>2, <3>2, <4>2, <5>2
      <4> QED BY <4>1, <4>2
    <3> QED BY <3>1, <3>2 DEF ProducerLooks
  <2> QED BY <1>1, <1>6, <2>1 DEF ObsIInv, Knowledge, ProducerLooks
<1>10. Carried' /\ ObsShape'
  BY Zenon, <1>1 DEF ObsIInv, Carried, ObsShape, ProducerLooks, Slots
<1> QED BY <1>8, <1>9, <1>10 DEF ObsIInv

(***************************************************************************)
(* The third thread's size() writes nothing the queue's owners read.       *)
(***************************************************************************)
LEMMA ThirdThreadInv ==
  ASSUME ObsIInv, ThirdThread
  PROVE  ObsIInv'
<1> IInv
  BY DEF ObsIInv
<1> Numbers
  BY Counts
<1> USE DEF Numbers
<1>1. UNCHANGED <<vars, atLeast, atMost, carries, peak>>
  BY Zenon DEF ThirdThread, SizeLoadHead, SizeLoadTail, SizeReturn
<1>2. n' = n /\ m' = m /\ cons' = cons /\ prod' = prod /\ capacity' = capacity
  BY <1>1 DEF vars, n, m, capacity
<1>3. IInv'
  BY <1>1, NextInv DEF vars
<1>4. Knowledge' /\ Carried'
  BY <1>1, <1>2 DEF ObsIInv, Knowledge, Carried
<1>5. obs \in [pc : {"idle", "tail", "returned"}, head : Slots,
               headView : 1 .. n + 1, tailView : 1 .. m + 1, result : Slots]
  BY DEF ObsIInv, ObsShape
<1>6. obs' \in [pc : {"idle", "tail", "returned"}, head : Slots,
                headView : 1 .. n + 1, tailView : 1 .. m + 1, result : Slots]
  <2>0. 0 \in Slots
    BY SizeAssumption DEF Slots
  <2>1. ASSUME NEW k \in 1 .. Len(head_), SizeLoadHead(k)
        PROVE  obs' \in [pc : {"idle", "tail", "returned"}, head : Slots,
                         headView : 1 .. n + 1, tailView : 1 .. m + 1, result : Slots]
    <3>0. k \in 1 .. n + 1 /\ k - 1 \in Nat
      OBVIOUS
    <3>1. head_[k].val = Masked(k - 1) /\ k - 1 \in Nat
      BY Zenon, <3>0, Loads
    <3>2. head_[k].val \in Slots
      BY <3>1, MaskedRange
    <3>3. carries.head[k] \in 1 .. m + 1
      BY DEF ObsIInv, Carried
    <3> DEFINE t == IF carries.head[k] > obs.tailView THEN carries.head[k] ELSE obs.tailView
    <3>4. t \in 1 .. m + 1
      BY <1>5, <3>3
    <3>5. obs' = [obs EXCEPT !.pc = "tail", !.head = head_[k].val, !.headView = k, !.tailView = t]
      BY <2>1 DEF SizeLoadHead
    <3> HIDE DEF t
    <3> QED BY Zenon, <1>5, <3>2, <3>4, <3>5
  <2>2. ASSUME NEW k \in 1 .. Len(tail_), SizeLoadTail(k)
        PROVE  obs' \in [pc : {"idle", "tail", "returned"}, head : Slots,
                         headView : 1 .. n + 1, tailView : 1 .. m + 1, result : Slots]
    <3>0. k \in 1 .. m + 1 /\ k - 1 \in Nat
      OBVIOUS
    <3>1. tail_[k].val = Masked(k - 1) /\ k - 1 \in Nat
      BY Zenon, <3>0, Loads
    <3>2. tail_[k].val \in Slots /\ obs.head \in Slots
      BY <1>5, <3>1, MaskedRange
    <3>3. carries.tail[k] \in 1 .. n + 1
      BY DEF ObsIInv, Carried
    <3> DEFINE h == IF carries.tail[k] > obs.headView THEN carries.tail[k] ELSE obs.headView
               r == SizeOf(obs.head, tail_[k].val)
    <3>4. h \in 1 .. n + 1 /\ r \in Slots
      BY <1>5, <3>2, <3>3, SizeOfRange
    <3>5. obs' = [obs EXCEPT !.pc = "returned", !.tailView = k, !.headView = h, !.result = r]
      BY <2>2 DEF SizeLoadTail
    <3> HIDE DEF h, r
    <3> QED BY Zenon, <1>5, <3>4, <3>5
  <2>3. CASE SizeReturn
    BY Zenon, <1>5, <2>0, <2>3 DEF SizeReturn
  <2> QED BY <2>1, <2>2, <2>3 DEF ThirdThread
<1>7. ObsShape'
  BY <1>1, <1>2, <1>6 DEF ObsIInv, ObsShape, Slots
<1> QED BY <1>3, <1>4, <1>7 DEF ObsIInv

(***************************************************************************)
(* Every step of the owners and of the third thread keeps the invariant.   *)
(***************************************************************************)
LEMMA ObsNextInv == ObsIInv /\ [ObsNext]_allVars => ObsIInv'
<1> SUFFICES ASSUME ObsIInv, [ObsNext]_allVars PROVE ObsIInv'
  OBVIOUS
<1>1. CASE QueueStep
  BY <1>1, QueueStepInv
<1>2. CASE \E k \in 1 .. Len(head_) : ConsumerLooks(k)
  BY <1>2, ConsumerLooksInv
<1>3. CASE \E k \in 1 .. Len(tail_) : ProducerLooks(k)
  BY <1>3, ProducerLooksInv
<1>4. CASE ThirdThread
  BY <1>4, ThirdThreadInv
<1>5. CASE UNCHANGED allVars
  <2>1. UNCHANGED vars /\ UNCHANGED obsVars
    BY <1>5 DEF allVars
  <2>2. IInv'
    BY <2>1, NextInv DEF ObsIInv
  <2>3. n' = n /\ m' = m /\ cons' = cons /\ prod' = prod
    BY <2>1 DEF vars, n, m
  <2>4. Knowledge' /\ Carried' /\ ObsShape'
    BY <2>1, <2>3 DEF ObsIInv, Knowledge, Carried, ObsShape, obsVars, capacity, Slots
  <2> QED BY <2>2, <2>4 DEF ObsIInv
<1> QED BY <1>1, <1>2, <1>3, <1>4, <1>5 DEF ObsNext, Owners

(***************************************************************************)
(* The invariant holds while the owners and a third thread look at will.   *)
(***************************************************************************)
THEOREM ObsInvariance == ObsSpec => []ObsIInv
  BY ObsInitInv, ObsNextInv, PTL DEF ObsSpec

(***************************************************************************)
(* The owners alone are a case of the owners with a third thread.          *)
(***************************************************************************)
THEOREM OwnersAreObserved == OwnersSpec => ObsSpec
<1>1. [Owners]_allVars => [ObsNext]_allVars
  BY DEF ObsNext
<1> QED BY <1>1, PTL DEF OwnersSpec, ObsSpec

(***************************************************************************)
(* What the observers add keeps its types; size() returns at most          *)
(* capacity() to any thread.                                               *)
(***************************************************************************)
THEOREM ObsTypeCorrect == ObsSpec => []ObsTypeOK
<1>1. ObsIInv => ObsTypeOK
  <2> SUFFICES ASSUME ObsIInv PROVE ObsTypeOK
    OBVIOUS
  <2>1. Numbers
    BY Counts DEF ObsIInv
  <2>2. Slots = 0 .. capacity
    BY DEF Slots, capacity
  <2> QED BY <2>1, <2>2 DEF ObsIInv, Knowledge, Carried, ObsShape, ObsTypeOK, Numbers
<1> QED BY <1>1, ObsInvariance, PTL

(***************************************************************************)
(* The consumer's size() is a lower bound of what is in the queue and the  *)
(* producer's an upper bound, until their own next pop or push.            *)
(***************************************************************************)
THEOREM OwnerBoundsHold == ObsSpec => []OwnerBounds
<1>1. ObsIInv => OwnerBounds
  <2> SUFFICES ASSUME ObsIInv PROVE OwnerBounds
    OBVIOUS
  <2>1. Numbers
    BY Counts DEF ObsIInv
  <2>2. atLeast \in Int /\ atMost \in Int /\ atLeast <= (cons.view - 1) - m
        /\ n - (prod.view - 1) <= atMost
    BY SizeAssumption DEF ObsIInv, Knowledge, capacity
  <2>3. atLeast <= n - m /\ n - m <= atMost
    BY <2>1, <2>2 DEF Numbers
  <2> QED BY <2>3 DEF OwnerBounds, Occupancy, n, m
<1> QED BY <1>1, ObsInvariance, PTL

(***************************************************************************)
(* A pop after empty() was false succeeds, and so does a push after full() *)
(* was false, whichever stores the loads return.                           *)
(***************************************************************************)
THEOREM CheckedCalls == ObsSpec => []CheckedCallSucceeds
<1>1. ObsIInv => CheckedCallSucceeds
  <2> SUFFICES ASSUME ObsIInv PROVE CheckedCallSucceeds
    OBVIOUS
  <2> Numbers
    BY Counts DEF ObsIInv
  <2> USE DEF Numbers
  <2>1. atLeast \in Int /\ atMost \in Int /\ atLeast <= (cons.view - 1) - m
        /\ n - (prod.view - 1) <= atMost
    BY SizeAssumption DEF ObsIInv, Knowledge, capacity
  <2>2. IndexTestsExact
    BY IndexTestsInv DEF ObsIInv
  <2>3. ASSUME cons.pc = "idle", atLeast > 0, NEW k \in Readable(head_, cons.view)
        PROVE  ~SeesEmpty(head_[k].val, Newest(tail_))
    <3>1. k \in cons.view .. n + 1
      BY DEF Readable
    <3>2. k - 1 # m
      BY <2>1, <2>3, <3>1
    <3> QED BY <2>2, <2>3, <3>2 DEF IndexTestsExact, m
  <2>4. ASSUME prod.pc = "idle", atMost < capacity, NEW k \in Readable(tail_, prod.view)
        PROVE  ~SeesFull(Newest(head_), tail_[k].val)
    <3>1. k \in prod.view .. m + 1
      BY DEF Readable
    <3>2. n - (k - 1) # capacity
      BY <2>1, <2>4, <3>1 DEF capacity
    <3> QED BY <2>2, <2>4, <3>2 DEF IndexTestsExact, n
  <2> QED BY <2>3, <2>4 DEF CheckedCallSucceeds
<1> QED BY <1>1, ObsInvariance, PTL

(***************************************************************************)
(* Looking is harmless: with the owners' checks and a third thread's       *)
(* size() between and during their calls, push and pop stay free of races, *)
(* pop still hands out what push accepted in order, and the index tests    *)
(* stay exact.                                                             *)
(***************************************************************************)
THEOREM LookingIsHarmless == ObsSpec => [](NoDataRace /\ Fifo /\ IndexTestsExact)
<1>1. ObsIInv => NoDataRace /\ Fifo /\ IndexTestsExact
  BY NoRaceInv, IndexTestsInv DEF ObsIInv, IInv
<1> QED BY <1>1, ObsInvariance, PTL
=============================================================================
