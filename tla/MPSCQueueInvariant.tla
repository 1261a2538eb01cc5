------------------------- MODULE MPSCQueueInvariant -------------------------
(***************************************************************************)
(* Why MPSCQueue with more than one slot works, for every Size above 1,    *)
(* every finite set of producers and every number of pushes: an inductive  *)
(* invariant, and why try_push keeps it until it publishes.                *)
(***************************************************************************)
EXTENDS MPSCQueue, FiniteSetTheorems, RingArithmetic, TLAPS

N == Len(claims)

M == Len(popped)

(***************************************************************************)
(* A producer between its claim and its publication, and the positions     *)
(* such producers hold.                                                    *)
(***************************************************************************)
Busy == {p \in Producers : prod[p].pc \in {"write", "publish"}}

Held == {prod[p].head : p \in Busy}

(***************************************************************************)
(* head_ counts the claims and tail_ the pops, at most Size apart.  The    *)
(* consumer takes only a position that was claimed and published.          *)
(***************************************************************************)
Counts ==
  /\ head_ = N
  /\ M = IF cons.pc = "advance" THEN tail_ + 1 ELSE tail_
  /\ M <= N /\ N <= M + Size
  /\ cons.pc \in {"read", "recycle"} => M < N /\ M \notin Held

(***************************************************************************)
(* The sequence number of a slot only grows, by release stores, and a      *)
(* thread has acquired what it has seen.                                   *)
(***************************************************************************)
Growing ==
  /\ \A i \in Slots : \A k, l \in 1 .. Len(sequence[i]) :
       k < l => sequence[i][k].val < sequence[i][l].val
  /\ \A i \in Slots : \A k \in 1 .. Len(sequence[i]) : sequence[i][k].rel = TRUE
  /\ acq = view

(***************************************************************************)
(* The newest sequence number of a slot says what its position j of the    *)
(* current lap is: j + 1 when published, j when free or being written.     *)
(***************************************************************************)
SlotStates ==
  \A j \in M .. M + Size - 1 :
    Newest(sequence[Slot(j)]) = IF j < N /\ j \notin Held THEN j + 1 ELSE j

(***************************************************************************)
(* A claim is held by one producer, which has seen the newest sequence     *)
(* number of its slot; one about to claim has seen the number it expects.  *)
(***************************************************************************)
Claims ==
  /\ \A p \in Busy :
       /\ prod[p].head \in M .. N - 1
       /\ prod[p].item = claims[prod[p].head + 1]
       /\ view[p][Slot(prod[p].head)] = Len(sequence[Slot(prod[p].head)])
  /\ \A p, q \in Busy : prod[p].head = prod[q].head => p = q
  /\ \A p \in Producers : prod[p].pc = "claim" =>
       /\ sequence[Slot(prod[p].head)][view[p][Slot(prod[p].head)]].val = prod[p].head
       /\ prod[p].item \in Items /\ prod[p].item[1] = p
  /\ cons.pc = "read" => view[Consumer][Slot(M)] = Len(sequence[Slot(M)])

(***************************************************************************)
(* The published slots hold the items claimed and not yet popped.          *)
(***************************************************************************)
Contents ==
  /\ \A j \in M .. N - 1 :
       j \in Held \/ (j = M /\ cons.pc = "recycle") \/ data[Slot(j)] = claims[j + 1]
  /\ \A p \in Producers : prod[p].pc = "publish" => data[Slot(prod[p].head)] = prod[p].item
  /\ cons.pc = "recycle" => cons.item = claims[M + 1]
  /\ \A j \in 1 .. M : popped[j] = claims[j]

(***************************************************************************)
(* Only a thread inside its own access to a slot's data is ahead of the    *)
(* slot's sequence number.                                                 *)
(***************************************************************************)
Accesses ==
  \A i \in Slots :
    \/ access[i] <= Len(sequence[i])
    \/ \E p \in Producers : prod[p].pc = "publish" /\ Slot(prod[p].head) = i
    \/ cons.pc = "recycle" /\ Slot(M) = i

(***************************************************************************)
(* Every claim is published or held; a producer that goes on to claim has  *)
(* claimed fewer than MaxPush positions so far.                            *)
(***************************************************************************)
OwnClaims(p) == {j \in DOMAIN claims : claims[j][1] = p}

Tally ==
  /\ published + Cardinality(Busy) = N
  /\ \A p \in Producers : prod[p].pc \in {"retry", "claim"} =>
       Cardinality(OwnClaims(p)) < MaxPush

IInv == TypeOK /\ Counts /\ Growing /\ SlotStates /\ Claims /\ Contents /\ Accesses /\ Tally
-----------------------------------------------------------------------------
(***************************************************************************)
(* A position has a slot.                                                  *)
(***************************************************************************)
LEMMA SlotRange == \A a \in Nat : Slot(a) \in Slots
  BY MPSCAssumption, ModRange DEF Slot, Slots

(***************************************************************************)
(* Positions less than a lap apart have different slots.                   *)
(***************************************************************************)
LEMMA SlotApart ==
  ASSUME NEW b \in Nat, NEW j \in b .. b + Size - 1, NEW l \in b .. b + Size - 1,
         Slot(j) = Slot(l)
  PROVE  j = l
<1>1. Size \in Nat \ {0} /\ j \in Nat /\ l \in Nat
  BY MPSCAssumption
<1>2. ~(j < l)
  <2> SUFFICES ASSUME j < l PROVE FALSE
    OBVIOUS
  <2>1. j + Size <= l
    BY Zenon, <1>1, SameSlotLapApart DEF Slot
  <2> QED BY <1>1, <2>1
<1>3. ~(l < j)
  <2> SUFFICES ASSUME l < j PROVE FALSE
    OBVIOUS
  <2>1. l + Size <= j
    BY Zenon, <1>1, SameSlotLapApart DEF Slot
  <2> QED BY <1>1, <2>1
<1> QED BY <1>1, <1>2, <1>3

(***************************************************************************)
(* The position one lap on is in the same slot.                            *)
(***************************************************************************)
LEMMA SlotLap == \A a \in Nat : Slot(a + Size) = Slot(a)
  BY Zenon, MPSCAssumption, LapSameSlot DEF Slot

(***************************************************************************)
(* What a load by one thread of one slot does to what threads have seen.   *)
(***************************************************************************)
LEMMA ViewUpdate ==
  ASSUME NEW f \in [Threads -> [Slots -> Nat]], NEW t \in Threads, NEW i \in Slots,
         NEW v \in Nat, NEW g, g = [f EXCEPT ![t][i] = v]
  PROVE  /\ g \in [Threads -> [Slots -> Nat]]
         /\ g[t][i] = v
         /\ \A u \in Threads, l \in Slots : u # t \/ l # i => g[u][l] = f[u][l]
  OBVIOUS

(***************************************************************************)
(* A store appends to one slot's modification order.                       *)
(***************************************************************************)
LEMMA StoreUpdate ==
  ASSUME NEW f \in [Slots -> Location], NEW i \in Slots, NEW v \in Nat,
         NEW g, g = [f EXCEPT ![i] = Store(@, v, SequenceStoreOrder)]
  PROVE  /\ g \in [Slots -> Location]
         /\ Len(g[i]) = Len(f[i]) + 1 /\ Len(f[i]) \in Nat
         /\ g[i][Len(f[i]) + 1] = [val |-> v, rel |-> TRUE]
         /\ \A k \in 1 .. Len(f[i]) : g[i][k] = f[i][k]
         /\ \A l \in Slots \ {i} : g[l] = f[l]
         /\ Newest(g[i]) = v
<1> DEFINE e == [val |-> v, rel |-> TRUE]
           loc == f[i]
<1>1. e \in [val : Nat, rel : BOOLEAN] /\ loc \in Seq([val : Nat, rel : BOOLEAN])
  BY DEF Location
<1>2. g = [f EXCEPT ![i] = Append(loc, e)]
  BY Zenon DEF Store, SequenceStoreOrder
<1>3. g[i] = Append(loc, e) /\ \A l \in Slots \ {i} : g[l] = f[l]
  BY <1>2
<1>4. /\ Append(loc, e) \in Seq([val : Nat, rel : BOOLEAN])
      /\ Len(Append(loc, e)) = Len(loc) + 1 /\ Len(loc) \in Nat
      /\ Append(loc, e)[Len(loc) + 1] = e
      /\ \A k \in 1 .. Len(loc) : Append(loc, e)[k] = loc[k]
  BY <1>1
<1>5. g \in [Slots -> Location]
  BY Zenon, <1>2, <1>4 DEF Location
<1>6. Newest(g[i]) = v
  BY <1>3, <1>4 DEF Newest
<1> QED BY <1>3, <1>4, <1>5, <1>6

(***************************************************************************)
(* The numbers the invariant speaks of.                                    *)
(***************************************************************************)
Numbers ==
  /\ Size \in Nat /\ Size > 0 /\ MaxPush \in Nat
  /\ N \in Nat /\ M \in Nat /\ M <= N /\ N <= M + Size
  /\ head_ = N /\ head_ \in Nat /\ tail_ \in Nat
  /\ \A i \in Slots : Len(sequence[i]) \in Nat
  /\ Busy \subseteq Producers

(***************************************************************************)
(* They are so in every state of the invariant.                            *)
(***************************************************************************)
LEMMA NumbersHold == IInv => Numbers
<1> SUFFICES ASSUME IInv PROVE Numbers
  OBVIOUS
<1>1. N \in Nat /\ M \in Nat
  BY DEF IInv, TypeOK, N, M
<1>2. \A i \in Slots : Len(sequence[i]) \in Nat
  BY DEF IInv, TypeOK, Location
<1>3. Busy \subseteq Producers
  BY DEF Busy
<1> QED BY <1>1, <1>2, <1>3, MPSCAssumption DEF IInv, TypeOK, Counts, Numbers

(***************************************************************************)
(* No load returns more than the newest sequence number of the slot, and   *)
(* one that returns it has read the newest store.                          *)
(***************************************************************************)
LEMMA NewestBound ==
  ASSUME IInv, NEW i \in Slots, NEW k \in 1 .. Len(sequence[i])
  PROVE  /\ sequence[i][k].val \in Nat /\ Newest(sequence[i]) \in Nat
         /\ sequence[i][k].val <= Newest(sequence[i])
         /\ sequence[i][k].val = Newest(sequence[i]) => k = Len(sequence[i])
<1> DEFINE L == Len(sequence[i])
<1>1. sequence[i] \in Seq([val : Nat, rel : BOOLEAN]) /\ L \in Nat /\ L \in 1 .. L /\ k \in 1 .. L
  BY DEF IInv, TypeOK, Location
<1>2. sequence[i][k].val \in Nat /\ sequence[i][L].val \in Nat
  <2>1. sequence[i][k] \in [val : Nat, rel : BOOLEAN] /\ sequence[i][L] \in [val : Nat, rel : BOOLEAN]
    BY Zenon, <1>1, ElementInSet
  <2> QED BY <2>1
<1>3. k < L => sequence[i][k].val < sequence[i][L].val
  BY <1>1 DEF IInv, Growing
<1> QED BY <1>1, <1>2, <1>3 DEF Newest

(***************************************************************************)
(* A producer's claims so far are finitely many, at most all of them.      *)
(***************************************************************************)
LEMMA OwnBound ==
  ASSUME claims \in Seq(Items), NEW p
  PROVE  IsFiniteSet(OwnClaims(p)) /\ Cardinality(OwnClaims(p)) \in 0 .. N
<1>1. N \in Nat /\ DOMAIN claims = 1 .. N
  BY DEF N
<1>2. IsFiniteSet(1 .. N) /\ Cardinality(1 .. N) = N
  BY <1>1, FS_Interval
<1>3. OwnClaims(p) \in SUBSET (1 .. N)
  BY <1>1 DEF OwnClaims
<1>4. IsFiniteSet(OwnClaims(p)) /\ Cardinality(OwnClaims(p)) <= N
  BY Zenon, <1>2, <1>3, FS_Subset
<1>5. Cardinality(OwnClaims(p)) \in Nat
  BY <1>4, FS_CardinalityType
<1> QED BY <1>1, <1>4, <1>5

(***************************************************************************)
(* The queue starts in the invariant.                                      *)
(***************************************************************************)
LEMMA InitInv == Init => IInv
<1> SUFFICES ASSUME Init PROVE IInv
  OBVIOUS
<1> USE MPSCAssumption
<1>1. N = 0 /\ M = 0
  BY DEF Init, N, M
<1>2. \A i \in Slots : /\ Len(sequence[i]) = 1 /\ sequence[i] \in Location
                       /\ sequence[i][1].val = i /\ sequence[i][1].rel = TRUE
  <2>1. ASSUME NEW i \in Slots
        PROVE  /\ Len(sequence[i]) = 1 /\ sequence[i] \in Location
               /\ sequence[i][1].val = i /\ sequence[i][1].rel = TRUE
    <3>1. sequence[i] = << [val |-> i, rel |-> TRUE] >>
      BY Zenon DEF Init, Initialised
    <3>2. i \in Nat
      BY DEF Slots
    <3> QED BY <3>1, <3>2 DEF Location
  <2> QED BY Zenon, <2>1
<1>3. \A p \in Producers : prod[p] = [pc |-> "idle", head |-> 0, item |-> Blank]
  BY DEF Init
<1>4. \A p \in Producers : prod[p].pc = "idle"
  BY <1>3
<1>5. Busy = {}
  BY <1>4 DEF Busy
<1>6. TypeOK
  <2>1. sequence \in [Slots -> Location]
    BY <1>2 DEF Init
  <2>2. data \in [Slots -> Items \cup {Blank}] /\ access \in [Slots -> Nat]
        /\ \A i \in Slots : access[i] <= Len(sequence[i]) + 1
    BY <1>2 DEF Init
  <2>3. prod \in [Producers -> [pc : {"idle", "retry", "claim", "write", "publish"},
                               head : 0 .. head_, item : Items \cup {Blank}]]
    BY DEF Init
  <2>4. cons \in [pc : {"idle", "read", "recycle", "advance"}, item : Items \cup {Blank}]
        /\ headView \in [Producers -> 0 .. head_]
    BY DEF Init
  <2>5. view \in [Threads -> [Slots -> Nat]] /\ acq \in [Threads -> [Slots -> Nat]]
    BY DEF Init
  <2>6. \A t \in Threads, i \in Slots : /\ view[t][i] \in 1 .. Len(sequence[i])
                                        /\ acq[t][i] \in 1 .. Len(sequence[i])
    <3>1. \A t \in Threads, i \in Slots : view[t][i] = 1 /\ acq[t][i] = 1
      BY DEF Init
    <3> QED BY <1>2, <3>1
  <2>7. claims \in Seq(Items) /\ popped \in Seq(Items \cup {Blank}) /\ published \in 0 .. Len(claims)
    BY DEF Init
  <2> QED BY <2>1, <2>2, <2>3, <2>4, <2>5, <2>6, <2>7 DEF Init, TypeOK
<1>7. Counts
  BY <1>1 DEF Init, Counts
<1>8. Growing
  <2>1. \A i \in Slots : \A k \in 1 .. Len(sequence[i]) : k = 1
    <3> TAKE i \in Slots
    <3>1. Len(sequence[i]) = 1
      BY <1>2
    <3> QED BY <3>1
  <2>2. acq = view
    BY DEF Init
  <2>3. \A i \in Slots : \A k \in 1 .. Len(sequence[i]) : sequence[i][k].rel = TRUE
    BY <1>2, <2>1
  <2> QED BY <2>1, <2>2, <2>3 DEF Growing
<1>9. SlotStates
  <2>1. ASSUME NEW j \in 0 .. Size - 1 PROVE Newest(sequence[Slot(j)]) = j
    <3>1. Slot(j) = j /\ j \in Slots
      BY DEF Slot, Slots
    <3> QED BY <1>2, <3>1 DEF Newest
  <2> QED BY <1>1, <2>1 DEF SlotStates
<1>10. Claims
  BY <1>4, <1>5 DEF Claims, Init
<1>11. Contents
  BY <1>1, <1>4 DEF Contents, Init
<1>12. Accesses
  BY <1>2 DEF Accesses, Init
<1>13. Tally
  <2>1. Cardinality(Busy) = 0
    BY <1>5, FS_EmptySet
  <2> QED BY <1>1, <1>4, <2>1 DEF Tally, Init
<1> QED BY <1>6, <1>7, <1>8, <1>9, <1>10, <1>11, <1>12, <1>13 DEF IInv

(***************************************************************************)
(* push's loads: a producer that goes on to claim has seen the sequence    *)
(* number it expects; nothing else moves but what it has seen.             *)
(***************************************************************************)
LEMMA PushLoadInv ==
  ASSUME IInv, NEW p \in Producers, NEW head \in 0 .. head_,
         NEW k \in 1 .. Len(sequence[Slot(head)]), PushLoad(p, head, k)
  PROVE  IInv'
<1> Numbers
  BY NumbersHold
<1> USE DEF Numbers
<1> DEFINE i == Slot(head)
           Rec == [pc : {"idle", "retry", "claim", "write", "publish"},
                   head : 0 .. head_, item : Items \cup {Blank}]
<1>1. /\ UNCHANGED <<head_, tail_, sequence, data, cons, access, claims, published, popped>>
      /\ prod[p].pc = "retry" \/ (prod[p].pc = "idle" /\ N < MaxPush)
  BY DEF PushLoad, N
<1>2. N' = N /\ M' = M
  BY <1>1 DEF N, M
<1>3. i \in Slots /\ p \in Threads /\ k \in Nat /\ k \in 1 .. Len(sequence[i])
  BY SlotRange DEF Threads
<1>4. sequence[i][k].rel = TRUE /\ sequence[i][k].val \in Nat
  BY Zenon, <1>3, NewestBound DEF IInv, Growing
<1>5. /\ view' = [view EXCEPT ![p][i] = k] /\ acq' = [acq EXCEPT ![p][i] = k]
  <2>1. view' = [view EXCEPT ![p][i] = k]
        /\ acq' = [acq EXCEPT ![p][i] = Acquired(sequence[i], k, PushLoadOrder, @)]
    BY DEF PushLoad
  <2>2. \A a : Acquired(sequence[i], k, PushLoadOrder, a) = k
    BY <1>4 DEF Acquired, PushLoadOrder
  <2> QED BY Zenon, <2>1, <2>2
<1>6. acq' = view' /\ view \in [Threads -> [Slots -> Nat]]
  BY <1>5 DEF IInv, Growing, TypeOK
<1>7. /\ view' \in [Threads -> [Slots -> Nat]]
      /\ view'[p][i] = k
      /\ \A u \in Threads, l \in Slots : u # p \/ l # i => view'[u][l] = view[u][l]
  BY <1>3, <1>5, <1>6, ViewUpdate
<1>8. prod \in [Producers -> Rec] /\ prod[p] \in Rec
  BY DEF IInv, TypeOK
<1>9. \E r \in Rec : /\ prod' = [prod EXCEPT ![p] = r]
                     /\ r.pc \in {"idle", "retry", "claim"}
                     /\ r.pc = "claim" =>
                          /\ r.head = head /\ sequence[i][k].val = head
                          /\ r.item \in Items /\ r.item[1] = p
                     /\ r.pc \in {"retry", "claim"} => Cardinality(OwnClaims(p)) < MaxPush
  <2>1. claims \in Seq(Items) /\ Cardinality(OwnClaims(p)) \in 0 .. N
    BY OwnBound DEF IInv, TypeOK
  <2>2. Cardinality(OwnClaims(p)) < MaxPush
    <3>1. CASE prod[p].pc = "retry"
      BY <3>1 DEF IInv, Tally
    <3>2. CASE N < MaxPush
      BY <2>1, <3>2
    <3> QED BY <1>1, <3>1, <3>2
  <2>3. NextItem(p) \in Items /\ NextItem(p)[1] = p
    <3>1. 1 + Cardinality(OwnClaims(p)) \in 1 .. MaxPush
      BY <2>1, <2>2
    <3> QED BY <3>1 DEF NextItem, OwnClaims, Items
  <2>4. CASE /\ sequence[i][k].val - head = 0
             /\ prod' = [prod EXCEPT ![p] = [pc |-> "claim", head |-> head, item |-> NextItem(p)]]
    <3> DEFINE r == [pc |-> "claim", head |-> head, item |-> NextItem(p)]
    <3>1. r \in Rec /\ r.pc = "claim" /\ r.head = head /\ r.item = NextItem(p)
      BY <2>3
    <3>2. sequence[i][k].val = head
      BY <1>4, <2>4
    <3> HIDE DEF r
    <3>3. prod' = [prod EXCEPT ![p] = r]
      BY <2>4 DEF r
    <3> QED BY Zenon, <2>2, <2>3, <3>1, <3>2, <3>3
  <2>5. ASSUME NEW s \in {"idle", "retry"}, prod' = [prod EXCEPT ![p].pc = s]
        PROVE  \E r \in Rec : /\ prod' = [prod EXCEPT ![p] = r] /\ r.pc = s
    <3> DEFINE r == [prod[p] EXCEPT !.pc = s]
    <3>1. r \in Rec /\ r.pc = s
      BY <1>8
    <3>2. prod' = [prod EXCEPT ![p] = r]
      BY <1>8, <2>5
    <3> QED BY Zenon, <3>1, <3>2
  <2>6. \/ /\ sequence[i][k].val - head = 0
           /\ prod' = [prod EXCEPT ![p] = [pc |-> "claim", head |-> head, item |-> NextItem(p)]]
        \/ prod' = [prod EXCEPT ![p].pc = "idle"]
        \/ prod' = [prod EXCEPT ![p].pc = "retry"]
    BY DEF PushLoad
  <2>7. CASE \E s \in {"idle", "retry"} : prod' = [prod EXCEPT ![p].pc = s]
    BY Zenon, <2>2, <2>5, <2>7
  <2> QED BY <2>4, <2>6, <2>7
<1>10. PICK r \in Rec : /\ prod' = [prod EXCEPT ![p] = r]
                        /\ r.pc \in {"idle", "retry", "claim"}
                        /\ r.pc = "claim" =>
                             /\ r.head = head /\ sequence[i][k].val = head
                             /\ r.item \in Items /\ r.item[1] = p
                        /\ r.pc \in {"retry", "claim"} => Cardinality(OwnClaims(p)) < MaxPush
  BY Zenon, <1>9
<1>11. prod' \in [Producers -> Rec] /\ prod'[p] = r /\ \A q \in Producers \ {p} : prod'[q] = prod[q]
  BY <1>8, <1>10
<1>12. Busy' = Busy /\ \A q \in Busy : q \in Producers \ {p} /\ prod'[q] = prod[q]
  BY <1>1, <1>10, <1>11 DEF Busy
<1>13. Held' = Held
  BY <1>12 DEF Held
<1> HIDE DEF Rec
<1>14. TypeOK'
  <2>1. headView' \in [Producers -> 0 .. head_']
    BY <1>1 DEF PushLoad, IInv, TypeOK
  <2>2. \A u \in Threads, l \in Slots : view'[u][l] \in 1 .. Len(sequence'[l])
    <3> TAKE u \in Threads, l \in Slots
    <3>1. CASE u = p /\ l = i
      BY <1>1, <1>3, <1>7, <3>1
    <3>2. CASE ~(u = p /\ l = i)
      BY <1>1, <1>7, <3>2 DEF IInv, TypeOK
    <3> QED BY <3>1, <3>2
  <2>3. prod' \in [Producers -> [pc : {"idle", "retry", "claim", "write", "publish"},
                                head : 0 .. head_', item : Items \cup {Blank}]]
    BY <1>1, <1>11 DEF Rec
  <2> QED BY Zenon, <1>1, <1>6, <1>7, <2>1, <2>2, <2>3 DEF IInv, TypeOK
<1>15. Counts' /\ Growing' /\ SlotStates'
  BY Zenon, <1>1, <1>2, <1>6, <1>13 DEF IInv, Counts, Growing, SlotStates
<1>16. Claims'
  <2>1. \A q \in Busy : Slot(prod[q].head) \in Slots
    BY SlotRange DEF IInv, Claims
  <2>2. \A q \in Busy :
          /\ prod'[q].head \in M .. N - 1
          /\ prod'[q].item = claims[prod'[q].head + 1]
          /\ view'[q][Slot(prod'[q].head)] = Len(sequence[Slot(prod'[q].head)])
    BY SMTT(30), <1>7, <1>12, <2>1 DEF IInv, Claims, Threads
  <2>3. \A q, u \in Busy : prod'[q].head = prod'[u].head => q = u
    BY SMTT(30), <1>12 DEF IInv, Claims
  <2>4. ASSUME NEW q \in Producers, prod'[q].pc = "claim"
        PROVE  /\ sequence[Slot(prod'[q].head)][view'[q][Slot(prod'[q].head)]].val = prod'[q].head
               /\ prod'[q].item \in Items /\ prod'[q].item[1] = q
    <3>1. CASE q = p
      BY Zenon, <1>7, <1>10, <1>11, <2>4, <3>1
    <3>2. CASE q # p
      <4>1. prod'[q] = prod[q] /\ Slot(prod[q].head) \in Slots
        BY SMTT(30), <1>8, <1>11, <3>2, SlotRange DEF Rec
      <4> QED BY <1>7, <2>4, <3>2, <4>1 DEF IInv, Claims, Threads
    <3> QED BY SMTT(30), <3>1, <3>2
  <2>5. cons.pc = "read" => view'[Consumer][Slot(M)] = Len(sequence[Slot(M)])
    BY <1>7, SlotRange, MPSCAssumption DEF IInv, Claims, Threads
  <2> QED BY Zenon, <1>1, <1>2, <1>12, <2>2, <2>3, <2>4, <2>5 DEF Claims
<1>17. Contents'
  BY <1>1, <1>2, <1>10, <1>11, <1>13 DEF IInv, Contents
<1>18. Accesses'
  <2>1. \A q \in Producers : prod[q].pc = "publish" => prod'[q] = prod[q]
    BY <1>1, <1>11
  <2> QED BY <1>1, <1>2, <2>1 DEF IInv, Accesses
<1>19. Tally'
  <2>1. \A q \in Producers : OwnClaims(q)' = OwnClaims(q)
    BY <1>1 DEF OwnClaims
  <2>2. ASSUME NEW q \in Producers, prod'[q].pc \in {"retry", "claim"}
        PROVE  Cardinality(OwnClaims(q)) < MaxPush
    <3>1. CASE q = p
      BY <1>10, <1>11, <2>2, <3>1
    <3>2. CASE q # p
      BY <1>11, <2>2, <3>2 DEF IInv, Tally
    <3> QED BY <3>1, <3>2
  <2> QED BY <1>1, <1>2, <1>12, <2>1, <2>2 DEF IInv, Tally
<1> QED BY <1>14, <1>15, <1>16, <1>17, <1>18, <1>19 DEF IInv

(***************************************************************************)
(* A producer whose compare-exchange succeeds finds room: the sequence     *)
(* number it saw is still the newest one of the slot, so the slot is free. *)
(* This is where the queue needs a second slot.                            *)
(***************************************************************************)
LEMMA ClaimHasRoom ==
  ASSUME Size > 1, IInv, NEW p \in Producers, prod[p].pc = "claim", head_ = prod[p].head
  PROVE  /\ prod[p].head = N /\ N < M + Size /\ Slot(N) \in Slots
         /\ view[p][Slot(N)] = Len(sequence[Slot(N)])
<1> Numbers
  BY NumbersHold
<1> USE DEF Numbers
<1> DEFINE i == Slot(N)
           v == view[p][i]
<1>1. prod[p].head = N /\ i \in Slots
  BY Zenon, SlotRange
<1>2. v \in 1 .. Len(sequence[i]) /\ sequence[i][v].val = N
  BY Zenon, <1>1 DEF IInv, TypeOK, Claims, Threads
<1> HIDE DEF v
<1>3. N <= Newest(sequence[i]) /\ Newest(sequence[i]) \in Nat
      /\ (N = Newest(sequence[i]) => v = Len(sequence[i]))
  BY <1>1, <1>2, NewestBound
<1>4. N # M + Size
  <2> SUFFICES ASSUME N = M + Size PROVE FALSE
    OBVIOUS
  <2>1. i = Slot(M) /\ M \in M .. M + Size - 1
    BY SlotLap
  <2>2. Newest(sequence[i]) \in {M, M + 1}
    BY <2>1 DEF IInv, SlotStates
  <2> QED BY <1>3, <2>2
<1>5. N < M + Size /\ N \in M .. M + Size - 1
  BY <1>4
<1>6. Newest(sequence[i]) = N
  BY <1>5 DEF IInv, SlotStates
<1> QED BY <1>1, <1>3, <1>5, <1>6 DEF v

(***************************************************************************)
(* A claim takes the next free position for one producer.                  *)
(***************************************************************************)
LEMMA PushClaimInv ==
  ASSUME Size > 1, IInv, NEW p \in Producers, PushClaim(p)
  PROVE  IInv'
<1> Numbers
  BY NumbersHold
<1> USE DEF Numbers
<1> DEFINE Rec(h) == [pc : {"idle", "retry", "claim", "write", "publish"},
                      head : 0 .. h, item : Items \cup {Blank}]
           i == Slot(N)
           x == prod[p].item
<1>1. /\ UNCHANGED <<tail_, sequence, data, cons, view, acq, access, published, popped>>
      /\ prod[p].pc = "claim" /\ head_ = prod[p].head /\ head_' = N + 1
      /\ claims' = Append(claims, x)
  BY DEF PushClaim
<1>2. prod[p].head = N /\ N < M + Size /\ i \in Slots /\ view[p][i] = Len(sequence[i])
  BY SMTT(30), <1>1, ClaimHasRoom
<1>3. x \in Items /\ x[1] = p /\ claims \in Seq(Items) /\ Len(claims) = N
  BY Zenon, <1>1 DEF IInv, Claims, TypeOK, N
<1>4. /\ claims' \in Seq(Items) /\ Len(claims') = N + 1 /\ claims'[N + 1] = x
      /\ \A j \in 1 .. N : claims'[j] = claims[j]
  BY <1>1, <1>3
<1>5. N' = N + 1 /\ M' = M
  BY <1>1, <1>4 DEF N, M
<1>6. prod \in [Producers -> Rec(N)] /\ prod[p] \in Rec(N)
  BY DEF IInv, TypeOK
<1>7. prod' = [prod EXCEPT ![p].pc = "write"]
  BY DEF PushClaim
<1>8. /\ prod' \in [Producers -> Rec(N)]
      /\ prod'[p].pc = "write" /\ prod'[p].head = N /\ prod'[p].item = x
      /\ \A q \in Producers \ {p} : prod'[q] = prod[q]
  BY Zenon, <1>2, <1>6, <1>7
<1>9. p \notin Busy /\ Busy' = Busy \cup {p}
  BY SMTT(30), <1>1, <1>8 DEF Busy
<1>10. \A q \in Busy : q # p /\ prod'[q] = prod[q] /\ prod[q].head \in M .. N - 1
  BY <1>8, <1>9 DEF IInv, Claims
<1>11. Held' = Held \cup {N}
  BY SMTT(30), <1>8, <1>9, <1>10 DEF Held
<1> HIDE DEF x, i
<1>12. TypeOK'
  <2>1. 0 .. N \subseteq 0 .. head_' /\ head_' \in Nat /\ head_' \in 0 .. head_'
    <3>1. head_' = N + 1
      BY Zenon, <1>1
    <3> QED BY <3>1
  <2>2. headView' \in [Producers -> 0 .. head_']
    BY <2>1 DEF PushClaim, IInv, TypeOK
  <2>3. prod' \in [Producers -> Rec(head_')]
    <3>1. Rec(N) \subseteq Rec(head_')
      BY Zenon, <2>1
    <3> QED BY <1>8, <3>1
  <2>4. published' \in 0 .. Len(claims')
    BY <1>1, <1>3, <1>4 DEF IInv, TypeOK
  <2> HIDE DEF Rec
  <2>5. prod' \in [Producers -> [pc : {"idle", "retry", "claim", "write", "publish"},
                                head : 0 .. head_', item : Items \cup {Blank}]]
    BY <2>3 DEF Rec
  <2> QED BY Zenon, <1>1, <1>4, <2>1, <2>2, <2>4, <2>5 DEF IInv, TypeOK
<1> HIDE DEF Rec
<1>13. Counts'
  <2>1. cons.pc \in {"read", "recycle"} => M < N /\ M \notin Held'
    <3> SUFFICES ASSUME cons.pc \in {"read", "recycle"} PROVE M < N /\ M \notin Held'
      OBVIOUS
    <3>1. M < N /\ M \notin Held
      BY DEF IInv, Counts
    <3> QED BY <1>11, <3>1
  <2>2. cons.pc \in {"read", "recycle"} => M < N + 1 /\ M \notin Held'
    BY <2>1
  <2>3. cons' = cons /\ tail_' = tail_ /\ head_' = N'
    BY <1>1, <1>5
  <2>4. M' <= N' /\ N' <= M' + Size
    BY <1>2, <1>5
  <2>5. M = IF cons.pc = "advance" THEN tail_ + 1 ELSE tail_
    BY DEF IInv, Counts
  <2> QED BY <1>5, <2>2, <2>3, <2>4, <2>5 DEF Counts
<1>14. Growing' /\ Accesses'
  <2>1. \A q \in Producers : prod[q].pc = "publish" => prod'[q] = prod[q]
    BY <1>1, <1>8
  <2> QED BY Zenon, <1>1, <1>5, <2>1 DEF IInv, Growing, Accesses
<1>15. SlotStates'
  <2>1. ASSUME NEW j \in M .. M + Size - 1
        PROVE  Newest(sequence[Slot(j)]) = IF j < N + 1 /\ j \notin Held' THEN j + 1 ELSE j
    <3>1. Newest(sequence[Slot(j)]) = IF j < N /\ j \notin Held THEN j + 1 ELSE j
      BY DEF IInv, SlotStates
    <3>2. CASE j = N
      BY <1>11, <3>1, <3>2
    <3>3. CASE j # N
      <4>1. j < N + 1 <=> j < N
        BY SMTT(30), <3>3
      <4> QED BY <1>11, <3>1, <3>3, <4>1
    <3> QED BY <3>2, <3>3
  <2> QED BY Zenon, <1>1, <1>5, <2>1 DEF SlotStates
<1>16. Claims'
  <2>1. ASSUME NEW q \in Busy'
        PROVE  /\ prod'[q].head \in M .. N
               /\ prod'[q].item = claims'[prod'[q].head + 1]
               /\ view[q][Slot(prod'[q].head)] = Len(sequence[Slot(prod'[q].head)])
    <3>1. CASE q = p
      BY <1>2, <1>4, <1>8, <3>1 DEF i
    <3>2. CASE q # p
      <4>1. q \in Busy /\ prod'[q] = prod[q]
        BY Zenon, <1>9, <1>10, <3>2
      <4>2. prod[q].head \in M .. N - 1 /\ prod[q].item = claims[prod[q].head + 1]
            /\ view[q][Slot(prod[q].head)] = Len(sequence[Slot(prod[q].head)])
        BY <4>1 DEF IInv, Claims
      <4>3. prod[q].head + 1 \in 1 .. N /\ prod[q].head \in M .. N
        BY <4>2
      <4> QED BY <1>4, <4>1, <4>2, <4>3
    <3> QED BY <3>1, <3>2
  <2>2. ASSUME NEW q \in Busy', NEW u \in Busy', prod'[q].head = prod'[u].head
        PROVE  q = u
    <3>1. \A w \in Busy : prod'[w].head # N
      BY SMTT(30), <1>10
    <3>2. CASE q # p /\ u # p
      BY <1>9, <1>10, <2>2, <3>2 DEF IInv, Claims
    <3> QED BY <1>8, <1>9, <2>2, <3>1, <3>2
  <2>3. \A q \in Producers : prod'[q].pc = "claim" => prod'[q] = prod[q]
    BY <1>8
  <2>4. M .. N = M' .. N' - 1
    BY SMTT(30), <1>5
  <2> QED BY ZenonT(40), <1>1, <1>5, <2>1, <2>2, <2>3, <2>4 DEF IInv, Claims
<1>17. Contents'
  <2>1. ASSUME NEW j \in M' .. N' - 1
        PROVE  j \in Held' \/ (j = M /\ cons.pc = "recycle") \/ data[Slot(j)] = claims'[j + 1]
    <3>1. CASE j = N
      BY <1>11, <3>1
    <3>2. CASE j # N
      <4>1. j \in M .. N - 1 /\ j + 1 \in 1 .. N
        BY <1>5, <3>2
      <4> QED BY <1>4, <1>11, <3>2, <4>1 DEF IInv, Contents
    <3> QED BY <3>1, <3>2
  <2>2. \A q \in Producers : prod'[q].pc = "publish" => prod'[q] = prod[q]
    BY <1>8
  <2>3. cons.pc = "recycle" => cons.item = claims'[M + 1]
    <3> SUFFICES ASSUME cons.pc = "recycle" PROVE cons.item = claims'[M + 1]
      OBVIOUS
    <3>1. M < N /\ cons.item = claims[M + 1]
      BY DEF IInv, Counts, Contents
    <3> QED BY <1>4, <3>1
  <2>4. \A j \in 1 .. M : popped[j] = claims'[j]
    <3> TAKE j \in 1 .. M
    <3>1. j \in 1 .. N
      OBVIOUS
    <3> QED BY <1>4, <3>1 DEF IInv, Contents
  <2> QED BY Zenon, <1>1, <1>5, <2>1, <2>2, <2>3, <2>4 DEF IInv, Contents
<1>18. Tally'
  <2>3. IsFiniteSet(Busy)
    BY FS_Subset, MPSCAssumption
  <2>4. Cardinality(Busy) \in Nat /\ Cardinality(Busy') = Cardinality(Busy) + 1
    BY Zenon, <1>9, <2>3, FS_AddElement, FS_CardinalityType
  <2>5. published + Cardinality(Busy) = N /\ published \in Nat
    BY <1>3 DEF IInv, Tally, TypeOK
  <2>6. published + Cardinality(Busy') = N + 1
    BY <2>4, <2>5
  <2>7. ASSUME NEW q \in Producers, prod'[q].pc \in {"retry", "claim"}
        PROVE  Cardinality(OwnClaims(q)') < MaxPush
    <3>1. q # p /\ prod'[q] = prod[q]
      BY <1>8, <2>7
    <3>2. OwnClaims(q)' = OwnClaims(q)
      <4>1. DOMAIN claims' = 1 .. N + 1 /\ DOMAIN claims = 1 .. N
        BY <1>3, <1>4
      <4>2. claims'[N + 1][1] # q
        BY <1>3, <1>4, <3>1
      <4>3. \A j \in 1 .. N + 1 : j # N + 1 => j \in 1 .. N
        OBVIOUS
      <4>4. 1 .. N \subseteq 1 .. N + 1
        OBVIOUS
      <4> QED BY <1>4, <4>1, <4>2, <4>3, <4>4 DEF OwnClaims
    <3> QED BY <2>7, <3>1, <3>2 DEF IInv, Tally
  <2> QED BY Zenon, <1>1, <1>5, <2>6, <2>7 DEF Tally
<1> QED BY <1>12, <1>13, <1>14, <1>15, <1>16, <1>17, <1>18 DEF IInv

(***************************************************************************)
(* A failed compare-exchange only sends the producer back to its loads.    *)
(***************************************************************************)
LEMMA PushClaimFailsInv ==
  ASSUME IInv, NEW p \in Producers, PushClaimFails(p)
  PROVE  IInv'
<1> Numbers
  BY NumbersHold
<1> USE DEF Numbers
<1> DEFINE Rec == [pc : {"idle", "retry", "claim", "write", "publish"},
                   head : 0 .. head_, item : Items \cup {Blank}]
<1>1. /\ UNCHANGED <<head_, tail_, sequence, data, cons, headView, view, acq, access,
                     claims, published, popped>>
      /\ prod[p].pc = "claim" /\ prod' = [prod EXCEPT ![p].pc = "retry"]
  BY DEF PushClaimFails
<1>2. N' = N /\ M' = M
  BY <1>1 DEF N, M
<1>3. prod \in [Producers -> Rec] /\ prod[p] \in Rec
  BY DEF IInv, TypeOK
<1>4. /\ prod' \in [Producers -> Rec] /\ prod'[p].pc = "retry"
      /\ \A q \in Producers \ {p} : prod'[q] = prod[q]
  BY <1>1, <1>3
<1> HIDE DEF Rec
<1>5. Busy' = Busy /\ \A q \in Busy : prod'[q] = prod[q]
  BY <1>1, <1>4 DEF Busy
<1>6. Held' = Held
  BY <1>5 DEF Held
<1>7. TypeOK'
  BY Zenon, <1>1, <1>4 DEF IInv, TypeOK, Rec
<1>8. Counts' /\ Growing' /\ SlotStates'
  BY <1>1, <1>2, <1>6 DEF IInv, Counts, Growing, SlotStates
<1>9. Claims' /\ Contents'
  <2>1. \A q \in Producers : prod'[q].pc \in {"claim", "publish"} => prod'[q] = prod[q]
    BY Zenon, <1>4
  <2>2. \A q \in Busy' :
          /\ prod'[q].head \in M .. N - 1
          /\ prod'[q].item = claims[prod'[q].head + 1]
          /\ view[q][Slot(prod'[q].head)] = Len(sequence[Slot(prod'[q].head)])
    BY Zenon, <1>5 DEF IInv, Claims
  <2>3. \A q, u \in Busy' : prod'[q].head = prod'[u].head => q = u
    BY SMTT(30), <1>5 DEF IInv, Claims
  <2>4. \A q \in Producers : prod'[q].pc = "claim" =>
          /\ sequence[Slot(prod'[q].head)][view[q][Slot(prod'[q].head)]].val = prod'[q].head
          /\ prod'[q].item \in Items /\ prod'[q].item[1] = q
    BY Zenon, <2>1 DEF IInv, Claims
  <2>5. Claims'
    <3>1. cons.pc = "read" => view[Consumer][Slot(M)] = Len(sequence[Slot(M)])
      BY DEF IInv, Claims
    <3>2. sequence' = sequence /\ view' = view /\ claims' = claims /\ cons' = cons
      BY <1>1
    <3> QED BY Zenon, <1>2, <2>2, <2>3, <2>4, <3>1, <3>2 DEF Claims
  <2>6. Contents'
    BY <1>1, <1>2, <1>6, <2>1 DEF IInv, Contents
  <2> QED BY <2>5, <2>6
<1>10. Accesses'
  <2>1. \A q \in Producers : prod[q].pc = "publish" => prod'[q] = prod[q]
    BY <1>1, <1>4
  <2> QED BY <1>1, <1>2, <2>1 DEF IInv, Accesses
<1>11. Tally'
  <2>1. \A q : OwnClaims(q)' = OwnClaims(q)
    BY <1>1 DEF OwnClaims
  <2>2. \A q \in Producers : prod'[q].pc \in {"retry", "claim"} => prod[q].pc \in {"retry", "claim"}
    BY <1>1, <1>4
  <2> QED BY <1>1, <1>2, <1>5, <2>1, <2>2 DEF IInv, Tally
<1> QED BY <1>7, <1>8, <1>9, <1>10, <1>11 DEF IInv

(***************************************************************************)
(* A producer writes the slot it claimed; no other position of the lap has *)
(* that slot.                                                              *)
(***************************************************************************)
LEMMA PushWriteInv ==
  ASSUME IInv, NEW p \in Producers, PushWrite(p)
  PROVE  IInv'
<1> Numbers
  BY NumbersHold
<1> USE DEF Numbers
<1> DEFINE Rec == [pc : {"idle", "retry", "claim", "write", "publish"},
                   head : 0 .. head_, item : Items \cup {Blank}]
           h == prod[p].head
           i == Slot(h)
           x == prod[p].item
<1>1. /\ UNCHANGED <<head_, tail_, sequence, cons, headView, view, acq, claims, published, popped>>
      /\ prod[p].pc = "write" /\ prod' = [prod EXCEPT ![p].pc = "publish"]
      /\ data' = [data EXCEPT ![i] = x]
      /\ access' = [access EXCEPT ![i] = Len(sequence[i]) + 1]
  BY DEF PushWrite
<1>2. N' = N /\ M' = M
  BY <1>1 DEF N, M
<1>3. prod \in [Producers -> Rec] /\ prod[p] \in Rec /\ p \in Busy
  BY <1>1 DEF IInv, TypeOK, Busy
<1>4. /\ prod' \in [Producers -> Rec]
      /\ prod'[p].pc = "publish" /\ prod'[p].head = h /\ prod'[p].item = x
      /\ \A q \in Producers \ {p} : prod'[q] = prod[q]
  BY Zenon, <1>1, <1>3
<1>5. h \in M .. N - 1 /\ h \in Nat /\ h \in M .. M + Size - 1 /\ x = claims[h + 1] /\ x \in Items \cup {Blank}
  <2>1. h \in M .. N - 1 /\ x = claims[h + 1]
    BY <1>3 DEF IInv, Claims
  <2> QED BY <1>3, <2>1
<1>6. i \in Slots
  BY <1>5, SlotRange
<1> HIDE DEF Rec, h, i, x
<1>7. Busy' = Busy
  BY <1>1, <1>4 DEF Busy
<1>8. \A q \in Producers : prod'[q].head = prod[q].head /\ prod'[q].item = prod[q].item
  BY <1>4 DEF h, x
<1>9. Held' = Held
  BY <1>7, <1>8 DEF Held
<1>10. data \in [Slots -> Items \cup {Blank}] /\ access \in [Slots -> Nat]
  BY DEF IInv, TypeOK
<1>11. /\ data' \in [Slots -> Items \cup {Blank}] /\ data'[i] = x
       /\ \A l \in Slots \ {i} : data'[l] = data[l]
       /\ access' \in [Slots -> Nat] /\ access'[i] = Len(sequence[i]) + 1
       /\ \A l \in Slots \ {i} : access'[l] = access[l]
  BY SMTT(30), <1>1, <1>5, <1>6, <1>10
<1>12. TypeOK'
  <2>1. \A l \in Slots : access'[l] <= Len(sequence[l]) + 1
    <3> TAKE l \in Slots
    <3>1. CASE l = i
      BY <1>6, <1>11, <3>1
    <3>2. CASE l # i
      BY <1>11, <3>2 DEF IInv, TypeOK
    <3> QED BY <3>1, <3>2
  <2> QED BY Zenon, <1>1, <1>4, <1>11, <2>1 DEF IInv, TypeOK, Rec
<1>13. Counts' /\ Growing' /\ SlotStates'
  BY Zenon, <1>1, <1>2, <1>9 DEF IInv, Counts, Growing, SlotStates
<1>14. Claims'
  <2>1. \A q \in Producers : prod'[q].pc = "claim" => prod'[q] = prod[q]
    BY Zenon, <1>4
  <2>2. \A q \in Busy' :
          /\ prod'[q].head \in M .. N - 1
          /\ prod'[q].item = claims[prod'[q].head + 1]
          /\ view[q][Slot(prod'[q].head)] = Len(sequence[Slot(prod'[q].head)])
    BY SMTT(30), <1>7, <1>8 DEF IInv, Claims
  <2>3. \A q, u \in Busy' : prod'[q].head = prod'[u].head => q = u
    BY SMTT(30), <1>7, <1>8 DEF IInv, Claims
  <2>4. \A q \in Producers : prod'[q].pc = "claim" =>
          /\ sequence[Slot(prod'[q].head)][view[q][Slot(prod'[q].head)]].val = prod'[q].head
          /\ prod'[q].item \in Items /\ prod'[q].item[1] = q
    BY Zenon, <2>1 DEF IInv, Claims
  <2>5. cons.pc = "read" => view[Consumer][Slot(M)] = Len(sequence[Slot(M)])
    BY DEF IInv, Claims
  <2>6. sequence' = sequence /\ view' = view /\ claims' = claims /\ cons' = cons
    BY <1>1
  <2> QED BY <1>2, <2>2, <2>3, <2>4, <2>5, <2>6 DEF Claims
<1>15. \A j \in M .. M + Size - 1 : j # h => Slot(j) \in Slots \ {i}
  <2> SUFFICES ASSUME NEW j \in M .. M + Size - 1, j # h PROVE Slot(j) \in Slots /\ Slot(j) # i
    OBVIOUS
  <2>1. j \in Nat
    OBVIOUS
  <2> QED BY Zenon, <1>5, <2>1, SlotApart, SlotRange DEF i
<1>16. Contents'
  <2>1. h \in Held
    BY <1>3 DEF Held, h
  <2>2. \A j \in M .. N - 1 :
          j \in Held \/ (j = M /\ cons.pc = "recycle") \/ data'[Slot(j)] = claims[j + 1]
    <3> SUFFICES ASSUME NEW j \in M .. N - 1, j \notin Held, ~(j = M /\ cons.pc = "recycle")
                 PROVE  data'[Slot(j)] = claims[j + 1]
      OBVIOUS
    <3>1. j \in M .. M + Size - 1 /\ j # h
      BY <2>1
    <3>2. Slot(j) \in Slots \ {i}
      BY <1>15, <3>1
    <3> QED BY <1>11, <3>2 DEF IInv, Contents
  <2>3. ASSUME NEW q \in Producers, prod'[q].pc = "publish"
        PROVE  data'[Slot(prod[q].head)] = prod[q].item
    <3>1. CASE q = p
      BY Zenon, <1>11, <3>1 DEF h, i, x
    <3>2. CASE q # p
      <4>1. prod[q].pc = "publish" /\ q \in Busy
        BY Zenon, <1>4, <2>3, <3>2 DEF Busy
      <4>2. prod[q].head \in M .. M + Size - 1 /\ prod[q].head # h
        BY SMTT(30), <1>3, <3>2, <4>1 DEF IInv, Claims, h
      <4>3. Slot(prod[q].head) \in Slots \ {i}
        BY <1>15, <4>2
      <4> QED BY <1>11, <4>1, <4>3 DEF IInv, Contents
    <3> QED BY <3>1, <3>2
  <2> QED BY <1>1, <1>2, <1>8, <1>9, <2>2, <2>3 DEF IInv, Contents
<1>17. Accesses'
  <2> SUFFICES ASSUME NEW l \in Slots
               PROVE  \/ access'[l] <= Len(sequence[l])
                      \/ \E q \in Producers : prod'[q].pc = "publish" /\ Slot(prod'[q].head) = l
                      \/ cons.pc = "recycle" /\ Slot(M) = l
    BY <1>1, <1>2 DEF Accesses
  <2>1. CASE l = i
    BY Zenon, <1>4, <2>1 DEF i
  <2>2. CASE l # i
    <3>1. \A q \in Producers : prod[q].pc = "publish" => prod'[q] = prod[q]
      BY <1>1, <1>4
    <3> QED BY Zenon, <1>11, <2>2, <3>1 DEF IInv, Accesses
  <2> QED BY Zenon, <2>1, <2>2
<1>18. Tally'
  <2>1. \A q : OwnClaims(q)' = OwnClaims(q)
    BY <1>1 DEF OwnClaims
  <2>2. \A q \in Producers : prod'[q].pc \in {"retry", "claim"} => prod'[q] = prod[q]
    BY <1>4
  <2> QED BY <1>1, <1>2, <1>7, <2>1, <2>2 DEF IInv, Tally
<1> QED BY <1>12, <1>13, <1>14, <1>16, <1>17, <1>18 DEF IInv
=============================================================================
