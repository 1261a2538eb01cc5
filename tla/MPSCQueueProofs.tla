-------------------------- MODULE MPSCQueueProofs ---------------------------
(***************************************************************************)
(* MPSCQueue with more than one slot is a race-free bounded FIFO, for      *)
(* every Size above 1, every finite set of producers and every number of   *)
(* pushes.  (With one slot it is not: see NeverOverfull.)                  *)
(***************************************************************************)
EXTENDS MPSCQueueInvariant

(***************************************************************************)
(* A publication moves the newest sequence number of the producer's slot   *)
(* from its position to the next, and releases the slot to the consumer.   *)
(***************************************************************************)
LEMMA PushPublishInv ==
  ASSUME IInv, NEW p \in Producers, PushPublish(p)
  PROVE  IInv'
<1> Numbers
  BY NumbersHold
<1> USE DEF Numbers
<1> DEFINE Rec == [pc : {"idle", "retry", "claim", "write", "publish"},
                   head : 0 .. head_, item : Items \cup {Blank}]
           h == prod[p].head
           i == Slot(h)
           L == Len(sequence[i])
<1>1. /\ UNCHANGED <<head_, tail_, data, cons, headView, access, claims, popped>>
      /\ prod[p].pc = "publish"
      /\ prod' = [prod EXCEPT ![p] = [pc |-> "idle", head |-> 0, item |-> Blank]]
      /\ sequence' = [sequence EXCEPT ![i] = Store(@, h + 1, SequenceStoreOrder)]
      /\ view' = [view EXCEPT ![p][i] = Len(sequence'[i])]
      /\ acq' = [acq EXCEPT ![p][i] = Len(sequence'[i])]
      /\ published' = published + 1
  BY DEF PushPublish
<1>2. N' = N /\ M' = M
  BY Zenon, <1>1 DEF N, M
<1>3. prod \in [Producers -> Rec] /\ prod[p] \in Rec /\ p \in Busy /\ p \in Threads
  BY <1>1 DEF IInv, TypeOK, Busy, Threads
<1>4. prod' \in [Producers -> Rec] /\ prod'[p].pc = "idle" /\ \A q \in Producers \ {p} : prod'[q] = prod[q]
  <2>1. [pc |-> "idle", head |-> 0, item |-> Blank] \in Rec
    OBVIOUS
  <2> QED BY <1>1, <1>3, <2>1
<1>5. h \in M .. N - 1 /\ h \in Nat /\ h \in M .. M + Size - 1 /\ prod[p].item = claims[h + 1]
  <2>1. h \in M .. N - 1 /\ prod[p].item = claims[h + 1]
    BY <1>3 DEF IInv, Claims
  <2> QED BY SMTT(30), <2>1
<1>6. i \in Slots /\ L \in Nat
  BY <1>5, SlotRange
<1> HIDE DEF Rec, h, i
<1>7. Busy' = Busy \ {p} /\ \A q \in Busy' : q # p /\ q \in Busy /\ prod'[q] = prod[q]
  BY <1>1, <1>3, <1>4 DEF Busy
<1>8. Held' = Held \ {h} /\ h \in Held
  <2>1. \A q \in Busy : q # p => prod[q].head # h
    BY SMTT(30), <1>3 DEF IInv, Claims, h
  <2> QED BY SMTT(30), <1>3, <1>7, <2>1 DEF Held, h
<1>9. /\ sequence' \in [Slots -> Location]
      /\ Len(sequence'[i]) = L + 1
      /\ sequence'[i][L + 1] = [val |-> h + 1, rel |-> TRUE]
      /\ \A k \in 1 .. L : sequence'[i][k] = sequence[i][k]
      /\ \A l \in Slots \ {i} : sequence'[l] = sequence[l]
      /\ Newest(sequence'[i]) = h + 1
  <2>1. sequence \in [Slots -> Location] /\ h + 1 \in Nat
    BY <1>5 DEF IInv, TypeOK
  <2>2. sequence' = [sequence EXCEPT ![i] = Store(@, h + 1, SequenceStoreOrder)]
    BY SMTT(30), <1>1
  <2> QED BY ONLY <1>6, <2>1, <2>2, StoreUpdate
<1>10. acq' = view' /\ view' = [view EXCEPT ![p][i] = L + 1] /\ view \in [Threads -> [Slots -> Nat]]
  BY Zenon, <1>1, <1>9 DEF IInv, Growing, TypeOK
<1>11. /\ view' \in [Threads -> [Slots -> Nat]]
       /\ view'[p][i] = L + 1
       /\ \A u \in Threads, l \in Slots : u # p \/ l # i => view'[u][l] = view[u][l]
  BY <1>3, <1>6, <1>10, ViewUpdate
<1>12. \A u \in Threads, l \in Slots : view[u][l] \in 1 .. Len(sequence[l])
  BY DEF IInv, TypeOK
<1>13. \A l \in Slots : Len(sequence'[l]) \in Nat /\ Len(sequence[l]) <= Len(sequence'[l])
  <2> TAKE l \in Slots
  <2>1. CASE l = i
    BY <1>6, <1>9, <2>1
  <2>2. CASE l # i
    BY <1>9, <2>2
  <2> QED BY <2>1, <2>2
<1>14. Newest(sequence[i]) = h /\ h < N
  BY <1>5, <1>8 DEF IInv, SlotStates, i
<1>15. \A j \in M .. M + Size - 1 : j # h => Slot(j) \in Slots \ {i}
  <2> SUFFICES ASSUME NEW j \in M .. M + Size - 1, j # h PROVE Slot(j) \in Slots /\ Slot(j) # i
    OBVIOUS
  <2>1. j \in Nat
    OBVIOUS
  <2> QED BY Zenon, <1>5, <2>1, SlotApart, SlotRange DEF i
<1> HIDE DEF L
<1>16. published \in Nat /\ Cardinality(Busy) \in Nat /\ published + Cardinality(Busy) = N
       /\ Cardinality(Busy') = Cardinality(Busy) - 1 /\ Cardinality(Busy') \in Nat
  <2>1. IsFiniteSet(Busy) /\ IsFiniteSet(Busy')
    BY Zenon, <1>7, FS_Subset, MPSCAssumption
  <2>2. Cardinality(Busy') = Cardinality(Busy) - 1
    BY SMTT(30), <1>3, <1>7, <2>1, FS_RemoveElement
  <2> QED BY SMTT(30), <2>1, <2>2, FS_CardinalityType DEF IInv, Tally, TypeOK, N
<1>17. TypeOK'
  <2>1. \A u \in Threads, l \in Slots : view'[u][l] \in 1 .. Len(sequence'[l])
    <3> TAKE u \in Threads, l \in Slots
    <3>1. CASE u = p /\ l = i
      BY SMTT(30), <1>6, <1>9, <1>11, <3>1
    <3>2. CASE ~(u = p /\ l = i)
      <4>1. view'[u][l] = view[u][l] /\ view[u][l] \in 1 .. Len(sequence[l])
        BY <1>11, <1>12, <3>2
      <4> QED BY SMTT(30), <1>13, <4>1
    <3> QED BY <3>1, <3>2
  <2>2. \A l \in Slots : access'[l] <= Len(sequence'[l]) + 1
    <3> TAKE l \in Slots
    <3>1. access'[l] = access[l] /\ access[l] \in Nat /\ access[l] <= Len(sequence[l]) + 1
      BY <1>1 DEF IInv, TypeOK
    <3> QED BY <1>13, <3>1
  <2>3. published' \in 0 .. Len(claims')
    <3>1. published' = published + 1 /\ Len(claims') = N
      BY <1>1 DEF N
    <3> QED BY <1>16, <3>1
  <2>4. prod' \in [Producers -> [pc : {"idle", "retry", "claim", "write", "publish"},
                                head : 0 .. head_', item : Items \cup {Blank}]]
    BY <1>1, <1>4 DEF Rec
  <2> QED BY Zenon, <1>1, <1>9, <1>10, <1>11, <2>1, <2>2, <2>3, <2>4 DEF IInv, TypeOK
<1>18. Counts'
  BY <1>1, <1>2, <1>8 DEF IInv, Counts
<1>19. Growing'
  <2>1. ASSUME NEW l \in Slots, NEW a \in 1 .. Len(sequence'[l]), NEW b \in 1 .. Len(sequence'[l]), a < b
        PROVE  sequence'[l][a].val < sequence'[l][b].val
    <3>1. CASE l # i
      BY <1>9, <2>1, <3>1 DEF IInv, Growing
    <3>2. CASE l = i /\ b = L + 1
      <4>1. a \in 1 .. Len(sequence[i])
        BY SMTT(30), <1>6, <1>9, <2>1, <3>2 DEF L
      <4>2. sequence[i][a].val \in Nat /\ sequence[i][a].val <= h
        BY SMTT(30), <1>6, <1>14, <4>1, NewestBound
      <4>3. sequence'[i][a] = sequence[i][a] /\ sequence'[i][b].val = h + 1
        <5>1. sequence'[i][a] = sequence[i][a]
          BY Zenon, <1>9, <4>1 DEF L
        <5>2. sequence'[i][b].val = h + 1
          BY ONLY <1>9, <3>2
        <5> QED BY Zenon, <5>1, <5>2
      <4> QED BY SMTT(30), <1>5, <3>2, <4>2, <4>3
    <3>3. CASE l = i /\ b # L + 1
      <4>1. a \in 1 .. L /\ b \in 1 .. L
        BY <1>6, <1>9, <2>1, <3>3
      <4>2. sequence'[i][a] = sequence[i][a] /\ sequence'[i][b] = sequence[i][b]
        BY <1>9, <4>1
      <4> QED BY SMTT(30), <1>6, <2>1, <3>3, <4>1, <4>2 DEF IInv, Growing, L
    <3> QED BY SMTT(30), <3>1, <3>2, <3>3
  <2>2. ASSUME NEW l \in Slots, NEW k \in 1 .. Len(sequence'[l])
        PROVE  sequence'[l][k].rel = TRUE
    <3>1. CASE l # i
      BY <1>9, <3>1 DEF IInv, Growing
    <3>2. CASE l = i /\ k = L + 1
      BY <1>9, <3>2
    <3>3. CASE l = i /\ k # L + 1
      <4>1. k \in 1 .. L
        BY <1>6, <1>9, <3>3
      <4> QED BY SMTT(30), <1>6, <1>9, <3>3, <4>1 DEF IInv, Growing, L
    <3> QED BY Zenon, <3>1, <3>2, <3>3
  <2> QED BY Zenon, <1>10, <2>1, <2>2 DEF Growing
<1>20. SlotStates'
  <2>1. ASSUME NEW j \in M .. M + Size - 1
        PROVE  Newest(sequence'[Slot(j)]) = IF j < N /\ j \notin Held' THEN j + 1 ELSE j
    <3>1. CASE j = h
      BY <1>8, <1>9, <1>14, <3>1 DEF i
    <3>2. CASE j # h
      <4>1. sequence'[Slot(j)] = sequence[Slot(j)]
        BY <1>9, <1>15, <3>2
      <4>2. j \in Held' <=> j \in Held
        BY SMTT(30), <1>8, <3>2
      <4> QED BY <4>1, <4>2 DEF IInv, SlotStates
    <3> QED BY <3>1, <3>2
  <2> QED BY <1>1, <1>2, <2>1 DEF SlotStates
<1>21. Claims'
  <2>1. ASSUME NEW q \in Busy'
        PROVE  /\ prod'[q].head \in M .. N - 1
               /\ prod'[q].item = claims[prod'[q].head + 1]
               /\ view'[q][Slot(prod'[q].head)] = Len(sequence'[Slot(prod'[q].head)])
    <3>1. q # p /\ q \in Busy /\ q \in Threads /\ prod'[q] = prod[q]
      BY SMTT(30), <1>7 DEF Threads
    <3>2. /\ prod[q].head \in M .. N - 1 /\ prod[q].item = claims[prod[q].head + 1]
          /\ view[q][Slot(prod[q].head)] = Len(sequence[Slot(prod[q].head)])
      BY SMTT(30), <3>1 DEF IInv, Claims
    <3>3. prod[q].head # h
      BY <1>3, <3>1 DEF IInv, Claims, h
    <3>4. Slot(prod[q].head) \in Slots \ {i}
      BY SMTT(30), <1>15, <3>2, <3>3
    <3> QED BY Zenon, <1>9, <1>11, <3>1, <3>2, <3>4
  <2>2. \A q, u \in Busy' : prod'[q].head = prod'[u].head => q = u
    BY SMTT(30), <1>7 DEF IInv, Claims
  <2>3. ASSUME NEW q \in Producers, prod'[q].pc = "claim"
        PROVE  /\ sequence'[Slot(prod'[q].head)][view'[q][Slot(prod'[q].head)]].val = prod'[q].head
               /\ prod'[q].item \in Items /\ prod'[q].item[1] = q
    <3> DEFINE l == Slot(prod[q].head)
    <3>1. q # p /\ q \in Threads /\ prod'[q] = prod[q] /\ prod[q].pc = "claim"
      BY SMTT(30), <1>4, <2>3 DEF Threads
    <3>2. prod[q].item \in Items /\ prod[q].item[1] = q /\ sequence[l][view[q][l]].val = prod[q].head
      BY Zenon, <3>1 DEF IInv, Claims
    <3>3. l \in Slots
      BY <1>3, SlotRange DEF Rec
    <3> HIDE DEF l
    <3>4. view'[q][l] = view[q][l] /\ view[q][l] \in 1 .. Len(sequence[l])
      BY SMTT(30), <1>11, <1>12, <3>1, <3>3
    <3>5. sequence'[l][view[q][l]] = sequence[l][view[q][l]]
      <4>1. CASE l = i
        BY SMTT(30), <1>9, <3>4, <4>1 DEF L
      <4>2. CASE l # i
        BY SMTT(30), <1>9, <3>3, <4>2
      <4> QED BY SMTT(30), <4>1, <4>2
    <3> QED BY Zenon, <3>1, <3>2, <3>4, <3>5 DEF l
  <2>4. cons.pc = "read" => view'[Consumer][Slot(M)] = Len(sequence'[Slot(M)])
    <3> SUFFICES ASSUME cons.pc = "read" PROVE view'[Consumer][Slot(M)] = Len(sequence'[Slot(M)])
      OBVIOUS
    <3>1. M \notin Held /\ view[Consumer][Slot(M)] = Len(sequence[Slot(M)])
      BY DEF IInv, Counts, Claims
    <3>2. M # h /\ M \in M .. M + Size - 1
      BY <1>8, <3>1
    <3>3. Slot(M) \in Slots \ {i}
      BY <1>15, <3>2
    <3>4. Consumer \in Threads /\ Consumer # p
      BY MPSCAssumption DEF Threads
    <3> QED BY ONLY <1>9, <1>11, <3>1, <3>3, <3>4
  <2>5. claims' = claims /\ cons' = cons
    BY <1>1
  <2> QED BY Zenon, <1>2, <2>1, <2>2, <2>3, <2>4, <2>5 DEF Claims
<1>22. Contents'
  <2>1. ASSUME NEW j \in M .. N - 1, j \notin Held', ~(j = M /\ cons.pc = "recycle")
        PROVE  data[Slot(j)] = claims[j + 1]
    <3>1. CASE j = h
      BY <1>1, <1>5, <3>1 DEF IInv, Contents, h
    <3>2. CASE j # h
      BY <1>8, <2>1, <3>2 DEF IInv, Contents
    <3> QED BY <3>1, <3>2
  <2>2. \A q \in Producers : prod'[q].pc = "publish" => prod'[q] = prod[q]
    BY SMTT(30), <1>4
  <2> QED BY <1>1, <1>2, <2>1, <2>2 DEF IInv, Contents
<1>23. Accesses'
  <2> SUFFICES ASSUME NEW l \in Slots
               PROVE  \/ access[l] <= Len(sequence'[l])
                      \/ \E q \in Producers : prod'[q].pc = "publish" /\ Slot(prod'[q].head) = l
                      \/ cons.pc = "recycle" /\ Slot(M) = l
    BY SMTT(30), <1>1, <1>2 DEF Accesses
  <2>1. CASE l = i
    <3>1. access[i] <= Len(sequence[i]) + 1
      BY SMTT(30), <1>6 DEF IInv, TypeOK
    <3> QED BY <1>9, <2>1, <3>1 DEF L
  <2>2. CASE l # i
    <3>1. \A q \in Producers : q # p => prod'[q] = prod[q]
      BY Zenon, <1>4
    <3>2. l \in Slots \ {i}
      BY Zenon, <2>2
    <3>3. sequence'[l] = sequence[l]
      BY Zenon, <1>9, <3>2
    <3>4. Slot(prod[p].head) # l
      BY Zenon, <2>2 DEF i, h
    <3> QED BY Zenon, <3>1, <3>3, <3>4 DEF IInv, Accesses
  <2> QED BY <2>1, <2>2
<1>24. Tally'
  <2>1. \A q : OwnClaims(q)' = OwnClaims(q)
    BY SMTT(30), <1>1 DEF OwnClaims
  <2>2. \A q \in Producers : prod'[q].pc \in {"retry", "claim"} => prod'[q] = prod[q]
    BY Zenon, <1>4
  <2>3. published' + Cardinality(Busy') = N
    BY <1>1, <1>16
  <2> QED BY <1>2, <2>1, <2>2, <2>3 DEF IInv, Tally
<1> QED BY SMTT(30), <1>17, <1>18, <1>19, <1>20, <1>21, <1>22, <1>23, <1>24 DEF IInv

(***************************************************************************)
(* pop's load: a pop that goes on has read the newest sequence number of   *)
(* its slot, and the slot is published.                                    *)
(***************************************************************************)
LEMMA PopLoadInv ==
  ASSUME IInv, NEW k \in 1 .. Len(sequence[Slot(tail_)]), PopLoad(k)
  PROVE  IInv'
<1> Numbers
  BY NumbersHold
<1> USE DEF Numbers
<1> DEFINE i == Slot(tail_)
<1>1. /\ UNCHANGED <<head_, tail_, sequence, data, prod, headView, access, claims, published, popped>>
      /\ cons.pc = "idle"
      /\ view' = [view EXCEPT ![Consumer][i] = k]
      /\ acq' = [acq EXCEPT ![Consumer][i] = Acquired(sequence[i], k, PopLoadOrder, @)]
      /\ cons' = [cons EXCEPT !.pc = IF CanPop(k) THEN "read" ELSE "idle"]
  BY DEF PopLoad
<1>2. N' = N /\ M' = M /\ Busy' = Busy /\ Held' = Held
  BY <1>1 DEF N, M, Busy, Held
<1>3. i \in Slots /\ Consumer \in Threads /\ k \in Nat /\ k \in 1 .. Len(sequence[i])
  BY SlotRange DEF Threads
<1>4. tail_ = M
  BY <1>1 DEF IInv, Counts
<1>5. /\ cons' \in [pc : {"idle", "read", "recycle", "advance"}, item : Items \cup {Blank}]
      /\ cons'.pc = IF CanPop(k) THEN "read" ELSE "idle"
  BY Zenon, <1>1 DEF IInv, TypeOK
<1>6. sequence[i][k].rel = TRUE
  BY <1>3 DEF IInv, Growing
<1>7. view' = [view EXCEPT ![Consumer][i] = k] /\ acq' = [acq EXCEPT ![Consumer][i] = k]
  <2>1. \A a : Acquired(sequence[i], k, PopLoadOrder, a) = k
    BY <1>6 DEF Acquired, PopLoadOrder
  <2> QED BY Zenon, <1>1, <2>1
<1>8. acq' = view' /\ view \in [Threads -> [Slots -> Nat]]
  BY <1>7 DEF IInv, Growing, TypeOK
<1>9. /\ view' \in [Threads -> [Slots -> Nat]]
      /\ view'[Consumer][i] = k
      /\ \A u \in Threads, l \in Slots : u # Consumer \/ l # i => view'[u][l] = view[u][l]
  BY <1>3, <1>7, <1>8, ViewUpdate
<1>10. CanPop(k) => M < N /\ M \notin Held /\ k = Len(sequence[i])
  <2> SUFFICES ASSUME CanPop(k) PROVE M < N /\ M \notin Held /\ k = Len(sequence[i])
    OBVIOUS
  <2>1. sequence[i][k].val = M + 1
    BY <1>4 DEF CanPop
  <2>2. M + 1 <= Newest(sequence[i]) /\ Newest(sequence[i]) \in Nat
        /\ (M + 1 = Newest(sequence[i]) => k = Len(sequence[i]))
    BY <1>3, <2>1, NewestBound
  <2>3. Newest(sequence[i]) = IF M < N /\ M \notin Held THEN M + 1 ELSE M
    <3>1. M \in M .. M + Size - 1
      OBVIOUS
    <3> QED BY <1>4, <3>1 DEF IInv, SlotStates
  <2> QED BY <2>2, <2>3
<1> HIDE DEF i
<1>11. TypeOK'
  <2>1. \A u \in Threads, l \in Slots : view'[u][l] \in 1 .. Len(sequence'[l])
    <3> TAKE u \in Threads, l \in Slots
    <3>1. CASE u = Consumer /\ l = i
      BY <1>1, <1>3, <1>9, <3>1
    <3>2. CASE ~(u = Consumer /\ l = i)
      BY <1>1, <1>9, <3>2 DEF IInv, TypeOK
    <3> QED BY <3>1, <3>2
  <2> QED BY Zenon, <1>1, <1>5, <1>8, <1>9, <2>1 DEF IInv, TypeOK
<1>12. Counts'
  <2>1. cons'.pc # "advance" /\ cons'.pc # "recycle"
    BY <1>5
  <2>2. cons'.pc = "read" => M < N /\ M \notin Held
    BY <1>5, <1>10
  <2> QED BY <1>1, <1>2, <1>4, <2>1, <2>2 DEF Counts
<1>13. Growing' /\ SlotStates'
  BY Zenon, <1>1, <1>2, <1>8 DEF IInv, Growing, SlotStates
<1>14. Claims'
  <2>1. ASSUME NEW q \in Producers PROVE \A l \in Slots : view'[q][l] = view[q][l]
    BY Zenon, <1>9, MPSCAssumption DEF Threads
  <2>2. \A q \in Producers : Slot(prod[q].head) \in Slots
    <3> TAKE q \in Producers
    <3>1. prod[q].head \in Nat
      BY SMTT(30) DEF IInv, TypeOK
    <3> QED BY <3>1, SlotRange
  <2>3. \A q \in Busy :
          /\ prod[q].head \in M .. N - 1
          /\ prod[q].item = claims[prod[q].head + 1]
          /\ view'[q][Slot(prod[q].head)] = Len(sequence[Slot(prod[q].head)])
    BY SMTT(30), <2>1, <2>2 DEF IInv, Claims
  <2>4. \A q \in Producers : prod[q].pc = "claim" =>
          /\ sequence[Slot(prod[q].head)][view'[q][Slot(prod[q].head)]].val = prod[q].head
          /\ prod[q].item \in Items /\ prod[q].item[1] = q
    BY <2>1, <2>2 DEF IInv, Claims
  <2>5. cons'.pc = "read" => view'[Consumer][Slot(M)] = Len(sequence[Slot(M)])
    BY Zenon, <1>4, <1>5, <1>9, <1>10 DEF i
  <2>6. \A q, u \in Busy : prod[q].head = prod[u].head => q = u
    BY DEF IInv, Claims
  <2>7. sequence' = sequence /\ claims' = claims /\ prod' = prod
    BY <1>1
  <2> QED BY SMTT(30), <1>2, <2>3, <2>4, <2>5, <2>6, <2>7 DEF Claims
<1>15. Contents' /\ Accesses'
  BY <1>1, <1>2, <1>5 DEF IInv, Contents, Accesses
<1>16. Tally'
  BY <1>1, <1>2 DEF IInv, Tally, OwnClaims
<1> QED BY <1>11, <1>12, <1>13, <1>14, <1>15, <1>16 DEF IInv

(***************************************************************************)
(* pop moves the item out of its slot; no other position of the lap has    *)
(* that slot, so no producer's data is disturbed.                          *)
(***************************************************************************)
LEMMA PopReadInv ==
  ASSUME IInv, PopRead
  PROVE  IInv'
<1> Numbers
  BY NumbersHold
<1> USE DEF Numbers
<1> DEFINE i == Slot(tail_)
<1>1. /\ UNCHANGED <<head_, tail_, sequence, prod, headView, view, acq, claims, published, popped>>
      /\ cons.pc = "read" /\ cons' = [pc |-> "recycle", item |-> data[i]]
      /\ \E left \in {data[i], Blank} : data' = [data EXCEPT ![i] = left]
      /\ access' = [access EXCEPT ![i] = Len(sequence[i]) + 1]
  BY Zenon DEF PopRead
<1>2. N' = N /\ M' = M /\ Busy' = Busy /\ Held' = Held
  BY <1>1 DEF N, M, Busy, Held
<1>3. i \in Slots
  BY SlotRange
<1>4. tail_ = M /\ M < N /\ M \notin Held
  BY <1>1 DEF IInv, Counts
<1>5. data[i] = claims[M + 1]
  <2>1. M \in M .. N - 1
    BY <1>4
  <2> QED BY <1>1, <1>4, <2>1 DEF IInv, Contents
<1>6. data \in [Slots -> Items \cup {Blank}] /\ access \in [Slots -> Nat]
  BY DEF IInv, TypeOK
<1> HIDE DEF i
<1>7. /\ data' \in [Slots -> Items \cup {Blank}]
      /\ \A l \in Slots \ {i} : data'[l] = data[l]
      /\ access' \in [Slots -> Nat] /\ access'[i] = Len(sequence[i]) + 1
      /\ \A l \in Slots \ {i} : access'[l] = access[l]
  BY <1>1, <1>3, <1>6
<1>8. /\ cons' \in [pc : {"idle", "read", "recycle", "advance"}, item : Items \cup {Blank}]
      /\ cons'.pc = "recycle" /\ cons'.item = claims[M + 1]
  BY Zenon, <1>1, <1>3, <1>5, <1>6
<1>9. TypeOK'
  <2>1. \A l \in Slots : access'[l] <= Len(sequence[l]) + 1
    <3> TAKE l \in Slots
    <3>1. CASE l = i
      BY <1>3, <1>7, <3>1
    <3>2. CASE l # i
      BY <1>7, <3>2 DEF IInv, TypeOK
    <3> QED BY <3>1, <3>2
  <2> QED BY <1>1, <1>7, <1>8, <2>1 DEF IInv, TypeOK
<1>10. Counts'
  BY <1>1, <1>2, <1>4, <1>8 DEF IInv, Counts
<1>11. Growing' /\ SlotStates'
  BY Zenon, <1>1, <1>2 DEF IInv, Growing, SlotStates
<1>12. Claims'
  <2>1. sequence' = sequence /\ claims' = claims /\ prod' = prod /\ view' = view
    BY <1>1
  <2> QED BY Zenon, <1>2, <1>8, <2>1 DEF IInv, Claims
<1>13. \A j \in M .. M + Size - 1 : j # M => Slot(j) \in Slots \ {i}
  <2> SUFFICES ASSUME NEW j \in M .. M + Size - 1, j # M PROVE Slot(j) \in Slots /\ Slot(j) # i
    OBVIOUS
  <2>1. j \in Nat /\ M \in M .. M + Size - 1
    BY SMTT(30)
  <2> QED BY <1>4, <2>1, SlotApart, SlotRange DEF i
<1>14. Contents'
  <2>1. ASSUME NEW j \in M .. N - 1, j \notin Held, j # M
        PROVE  data'[Slot(j)] = claims[j + 1]
    <3>1. j \in M .. M + Size - 1
      OBVIOUS
    <3>2. Slot(j) \in Slots \ {i}
      BY <1>13, <2>1, <3>1
    <3> QED BY <1>1, <1>7, <2>1, <3>2 DEF IInv, Contents
  <2>2. ASSUME NEW q \in Producers, prod[q].pc = "publish"
        PROVE  data'[Slot(prod[q].head)] = prod[q].item
    <3>1. q \in Busy
      BY Zenon, <2>2 DEF Busy
    <3>2. prod[q].head \in M .. N - 1 /\ prod[q].head \in Held
      BY <3>1 DEF IInv, Claims, Held
    <3>3. prod[q].head \in M .. M + Size - 1 /\ prod[q].head # M
      BY <1>4, <3>2
    <3>4. Slot(prod[q].head) \in Slots \ {i}
      BY <1>13, <3>3
    <3> QED BY <1>7, <2>2, <3>4 DEF IInv, Contents
  <2>3. claims' = claims /\ prod' = prod /\ popped' = popped
    BY <1>1
  <2> QED BY Zenon, <1>2, <1>8, <2>1, <2>2, <2>3 DEF IInv, Contents
<1>15. Accesses'
  <2> SUFFICES ASSUME NEW l \in Slots
               PROVE  \/ access'[l] <= Len(sequence[l])
                      \/ \E q \in Producers : prod[q].pc = "publish" /\ Slot(prod[q].head) = l
                      \/ cons'.pc = "recycle" /\ Slot(M) = l
    BY <1>1, <1>2 DEF Accesses
  <2>1. CASE l = i
    BY SMTT(30), <1>4, <1>8, <2>1 DEF i
  <2>2. CASE l # i
    BY <1>1, <1>7, <2>2 DEF IInv, Accesses
  <2> QED BY <2>1, <2>2
<1>16. Tally'
  BY <1>1, <1>2 DEF IInv, Tally, OwnClaims
<1> QED BY <1>9, <1>10, <1>11, <1>12, <1>14, <1>15, <1>16 DEF IInv

(***************************************************************************)
(* pop recycles its slot for the next lap.  With more than one slot the    *)
(* number it stores, M + Size, is new to the slot.                         *)
(***************************************************************************)
LEMMA PopRecycleInv ==
  ASSUME Size > 1, IInv, PopRecycle
  PROVE  IInv'
<1> Numbers
  BY NumbersHold
<1> USE DEF Numbers
<1> DEFINE i == Slot(tail_)
           L == Len(sequence[i])
<1>1. /\ UNCHANGED <<head_, tail_, data, prod, headView, access, claims, published>>
      /\ cons.pc = "recycle" /\ cons' = [pc |-> "advance", item |-> Blank]
      /\ sequence' = [sequence EXCEPT ![i] = Store(@, tail_ + Size, SequenceStoreOrder)]
      /\ view' = [view EXCEPT ![Consumer][i] = Len(sequence'[i])]
      /\ acq' = [acq EXCEPT ![Consumer][i] = Len(sequence'[i])]
      /\ popped' = Append(popped, cons.item)
  BY DEF PopRecycle
<1>2. tail_ = M /\ M < N /\ M \notin Held
  BY Zenon, <1>1 DEF IInv, Counts
<1>3. cons.item \in Items \cup {Blank} /\ cons.item = claims[M + 1]
  BY <1>1 DEF IInv, TypeOK, Contents
<1>4. N' = N /\ Busy' = Busy /\ Held' = Held
  BY <1>1 DEF N, Busy, Held
<1>5. /\ popped' \in Seq(Items \cup {Blank}) /\ M' = M + 1
      /\ popped'[M + 1] = claims[M + 1] /\ \A j \in 1 .. M : popped'[j] = popped[j]
  <2>1. popped \in Seq(Items \cup {Blank}) /\ popped' = Append(popped, cons.item)
    BY <1>1 DEF IInv, TypeOK
  <2> QED BY SMTT(30), <1>3, <2>1 DEF M
<1>6. i \in Slots /\ L \in Nat /\ Consumer \in Threads
  BY SlotRange DEF Threads
<1>7. /\ cons' \in [pc : {"idle", "read", "recycle", "advance"}, item : Items \cup {Blank}]
      /\ cons'.pc = "advance"
  BY <1>1
<1> HIDE DEF i
<1>8. /\ sequence' \in [Slots -> Location]
      /\ Len(sequence'[i]) = L + 1
      /\ sequence'[i][L + 1] = [val |-> M + Size, rel |-> TRUE]
      /\ \A k \in 1 .. L : sequence'[i][k] = sequence[i][k]
      /\ \A l \in Slots \ {i} : sequence'[l] = sequence[l]
      /\ Newest(sequence'[i]) = M + Size
  <2>1. sequence \in [Slots -> Location] /\ M + Size \in Nat
    BY DEF IInv, TypeOK
  <2>2. sequence' = [sequence EXCEPT ![i] = Store(@, M + Size, SequenceStoreOrder)]
    BY SMTT(30), <1>1, <1>2
  <2> QED BY ONLY <1>6, <2>1, <2>2, StoreUpdate
<1>9. acq' = view' /\ view' = [view EXCEPT ![Consumer][i] = L + 1] /\ view \in [Threads -> [Slots -> Nat]]
  BY Zenon, <1>1, <1>8 DEF IInv, Growing, TypeOK
<1>10. /\ view' \in [Threads -> [Slots -> Nat]]
       /\ view'[Consumer][i] = L + 1
       /\ \A u \in Threads, l \in Slots : u # Consumer \/ l # i => view'[u][l] = view[u][l]
  BY <1>6, <1>9, ViewUpdate
<1>11. \A u \in Threads, l \in Slots : view[u][l] \in 1 .. Len(sequence[l])
  BY DEF IInv, TypeOK
<1>12. \A l \in Slots : Len(sequence'[l]) \in Nat /\ Len(sequence[l]) <= Len(sequence'[l])
  <2> TAKE l \in Slots
  <2>1. CASE l = i
    BY SMTT(30), <1>6, <1>8, <2>1
  <2>2. CASE l # i
    BY <1>8, <2>2
  <2> QED BY <2>1, <2>2
<1>13. Newest(sequence[i]) = M + 1
  <2>1. M \in M .. M + Size - 1
    OBVIOUS
  <2> QED BY <1>2, <2>1 DEF IInv, SlotStates, i
<1>14. \A j \in M .. M + Size - 1 : j # M => Slot(j) \in Slots \ {i}
  <2> SUFFICES ASSUME NEW j \in M .. M + Size - 1, j # M PROVE Slot(j) \in Slots /\ Slot(j) # i
    OBVIOUS
  <2>1. j \in Nat /\ M \in M .. M + Size - 1
    OBVIOUS
  <2> QED BY <1>2, <2>1, SlotApart, SlotRange DEF i
<1>15. Slot(M + Size) = i
  BY Zenon, <1>2, SlotLap DEF i
<1>16. ASSUME NEW q \in Busy
       PROVE  /\ prod[q].head \in M + 1 .. N - 1 /\ Slot(prod[q].head) \in Slots \ {i}
              /\ prod[q].item = claims[prod[q].head + 1]
              /\ view[q][Slot(prod[q].head)] = Len(sequence[Slot(prod[q].head)])
  <2>1. prod[q].head \in M .. N - 1 /\ prod[q].head \in Held
    BY DEF IInv, Claims, Held
  <2>2. prod[q].head \in M + 1 .. N - 1 /\ prod[q].head \in M .. M + Size - 1 /\ prod[q].head # M
    BY SMTT(30), <1>2, <2>1
  <2> QED BY Zenon, <1>14, <2>2 DEF IInv, Claims
<1> HIDE DEF L
<1>17. TypeOK'
  <2>1. \A u \in Threads, l \in Slots : view'[u][l] \in 1 .. Len(sequence'[l])
    <3> TAKE u \in Threads, l \in Slots
    <3>1. CASE u = Consumer /\ l = i
      BY <1>6, <1>8, <1>10, <3>1
    <3>2. CASE ~(u = Consumer /\ l = i)
      <4>1. view'[u][l] = view[u][l] /\ view[u][l] \in 1 .. Len(sequence[l])
        BY SMTT(30), <1>10, <1>11, <3>2
      <4> QED BY SMTT(30), <1>12, <4>1
    <3> QED BY <3>1, <3>2
  <2>2. \A l \in Slots : access'[l] <= Len(sequence'[l]) + 1
    <3> TAKE l \in Slots
    <3>1. access'[l] = access[l] /\ access[l] \in Nat /\ access[l] <= Len(sequence[l]) + 1
      BY <1>1 DEF IInv, TypeOK
    <3> QED BY <1>12, <3>1
  <2> QED BY Zenon, <1>1, <1>5, <1>7, <1>8, <1>9, <1>10, <2>1, <2>2 DEF IInv, TypeOK
<1>18. Counts'
  <2>1. head_' = head_ /\ tail_' = M
    BY <1>1, <1>2
  <2> QED BY <1>2, <1>4, <1>5, <1>7, <2>1 DEF Counts
<1>19. Growing'
  <2>1. ASSUME NEW l \in Slots, NEW a \in 1 .. Len(sequence'[l]), NEW b \in 1 .. Len(sequence'[l]), a < b
        PROVE  sequence'[l][a].val < sequence'[l][b].val
    <3>1. CASE l # i
      BY <1>8, <2>1, <3>1 DEF IInv, Growing
    <3>2. CASE l = i /\ b = L + 1
      <4>1. a \in 1 .. Len(sequence[i])
        BY <1>6, <1>8, <2>1, <3>2 DEF L
      <4>2. sequence[i][a].val \in Nat /\ sequence[i][a].val <= M + 1
        BY <1>6, <1>13, <4>1, NewestBound
      <4>3. sequence'[i][a] = sequence[i][a] /\ sequence'[i][b].val = M + Size
        BY SMTT(30), <1>8, <3>2, <4>1 DEF L
      <4> QED BY SMTT(30), <3>2, <4>2, <4>3
    <3>3. CASE l = i /\ b # L + 1
      <4>1. a \in 1 .. L /\ b \in 1 .. L
        BY SMTT(30), <1>6, <1>8, <2>1, <3>3
      <4>2. sequence'[i][a] = sequence[i][a] /\ sequence'[i][b] = sequence[i][b]
        BY <1>8, <4>1
      <4> QED BY Zenon, <1>6, <2>1, <3>3, <4>1, <4>2 DEF IInv, Growing, L
    <3> QED BY Zenon, <3>1, <3>2, <3>3
  <2>2. ASSUME NEW l \in Slots, NEW k \in 1 .. Len(sequence'[l])
        PROVE  sequence'[l][k].rel = TRUE
    <3>1. CASE l # i
      BY <1>8, <3>1 DEF IInv, Growing
    <3>2. CASE l = i /\ k = L + 1
      BY SMTT(30), <1>8, <3>2
    <3>3. CASE l = i /\ k # L + 1
      <4>1. k \in 1 .. L
        BY <1>6, <1>8, <3>3
      <4> QED BY Zenon, <1>6, <1>8, <3>3, <4>1 DEF IInv, Growing, L
    <3> QED BY Zenon, <3>1, <3>2, <3>3
  <2> QED BY Zenon, <1>9, <2>1, <2>2 DEF Growing
<1>20. SlotStates'
  <2>1. ASSUME NEW j \in M + 1 .. M + 1 + Size - 1
        PROVE  Newest(sequence'[Slot(j)]) = IF j < N /\ j \notin Held THEN j + 1 ELSE j
    <3>1. CASE j = M + Size
      BY SMTT(30), <1>8, <1>15, <3>1
    <3>2. CASE j # M + Size
      <4>1. j \in M .. M + Size - 1 /\ j # M
        BY SMTT(30), <3>2
      <4>2. sequence'[Slot(j)] = sequence[Slot(j)]
        BY Zenon, <1>8, <1>14, <4>1
      <4> QED BY <4>1, <4>2 DEF IInv, SlotStates
    <3> QED BY Zenon, <3>1, <3>2
  <2> QED BY <1>4, <1>5, <2>1 DEF SlotStates
<1>21. Claims'
  <2>1. ASSUME NEW q \in Busy
        PROVE  /\ prod[q].head \in M + 1 .. N - 1
               /\ prod[q].item = claims[prod[q].head + 1]
               /\ view'[q][Slot(prod[q].head)] = Len(sequence'[Slot(prod[q].head)])
    <3>1. q \in Threads /\ Slot(prod[q].head) \in Slots \ {i}
      BY <1>16 DEF Threads
    <3> QED BY Zenon, <1>8, <1>10, <1>16, <3>1
  <2>2. \A q, u \in Busy : prod[q].head = prod[u].head => q = u
    BY SMTT(30) DEF IInv, Claims
  <2>3. ASSUME NEW q \in Producers, prod[q].pc = "claim"
        PROVE  /\ sequence'[Slot(prod[q].head)][view'[q][Slot(prod[q].head)]].val = prod[q].head
               /\ prod[q].item \in Items /\ prod[q].item[1] = q
    <3> DEFINE l == Slot(prod[q].head)
    <3>1. q # Consumer /\ q \in Threads
      BY SMTT(30), MPSCAssumption DEF Threads
    <3>2. prod[q].item \in Items /\ prod[q].item[1] = q /\ sequence[l][view[q][l]].val = prod[q].head
      BY <2>3 DEF IInv, Claims
    <3>3. l \in Slots
      <4>1. prod[q].head \in Nat
        BY DEF IInv, TypeOK
      <4> QED BY <4>1, SlotRange
    <3> HIDE DEF l
    <3>4. view'[q][l] = view[q][l] /\ view[q][l] \in 1 .. Len(sequence[l])
      BY Zenon, <1>10, <1>11, <3>1, <3>3
    <3>5. sequence'[l][view[q][l]] = sequence[l][view[q][l]]
      <4>1. CASE l = i
        BY SMTT(30), <1>8, <3>4, <4>1 DEF L
      <4>2. CASE l # i
        BY <1>8, <3>3, <4>2
      <4> QED BY <4>1, <4>2
    <3> QED BY Zenon, <3>1, <3>2, <3>4, <3>5 DEF l
  <2>4. claims' = claims /\ prod' = prod
    BY SMTT(30), <1>1
  <2>5. M' = M + 1 /\ N' = N /\ Busy' = Busy /\ cons'.pc # "read"
    BY <1>4, <1>5, <1>7
  <2> QED BY ZenonT(30), <2>1, <2>2, <2>3, <2>4, <2>5 DEF Claims
<1>22. Contents'
  <2>1. \A j \in M + 1 .. N - 1 : j \in Held \/ data[Slot(j)] = claims[j + 1]
    <3> TAKE j \in M + 1 .. N - 1
    <3>1. j \in M .. N - 1 /\ j # M
      OBVIOUS
    <3> QED BY SMTT(30), <3>1 DEF IInv, Contents
  <2>2. \A q \in Producers : prod[q].pc = "publish" => data[Slot(prod[q].head)] = prod[q].item
    BY DEF IInv, Contents
  <2>3. \A j \in 1 .. M + 1 : popped'[j] = claims[j]
    <3> TAKE j \in 1 .. M + 1
    <3>1. j = M + 1 \/ j \in 1 .. M
      OBVIOUS
    <3> QED BY <1>5, <3>1 DEF IInv, Contents
  <2>4. claims' = claims /\ prod' = prod /\ data' = data
    BY <1>1
  <2> QED BY Zenon, <1>4, <1>5, <1>7, <2>1, <2>2, <2>3, <2>4 DEF Contents
<1>23. Accesses'
  <2> SUFFICES ASSUME NEW l \in Slots
               PROVE  \/ access[l] <= Len(sequence'[l])
                      \/ \E q \in Producers : prod[q].pc = "publish" /\ Slot(prod[q].head) = l
    BY Zenon, <1>1 DEF Accesses
  <2>1. CASE l = i
    <3>1. access[i] <= Len(sequence[i]) + 1
      BY Zenon, <1>6 DEF IInv, TypeOK
    <3> QED BY <1>8, <2>1, <3>1 DEF L
  <2>2. CASE l # i
    BY <1>2, <1>8, <2>2 DEF IInv, Accesses, i
  <2> QED BY <2>1, <2>2
<1>24. Tally'
  BY <1>1, <1>4 DEF IInv, Tally, OwnClaims
<1> QED BY <1>17, <1>18, <1>19, <1>20, <1>21, <1>22, <1>23, <1>24 DEF IInv

(***************************************************************************)
(* pop ends by storing tail_ + 1, which catches up with the pops.          *)
(***************************************************************************)
LEMMA PopAdvanceInv ==
  ASSUME IInv, PopAdvance
  PROVE  IInv'
<1> Numbers
  BY NumbersHold
<1> USE DEF Numbers
<1>1. /\ UNCHANGED <<head_, sequence, data, prod, headView, view, acq, access, claims, published, popped>>
      /\ cons.pc = "advance" /\ tail_' = tail_ + 1 /\ cons' = [cons EXCEPT !.pc = "idle"]
  BY DEF PopAdvance
<1>2. N' = N /\ M' = M /\ Busy' = Busy /\ Held' = Held
  BY <1>1 DEF N, M, Busy, Held
<1>3. cons' \in [pc : {"idle", "read", "recycle", "advance"}, item : Items \cup {Blank}] /\ cons'.pc = "idle"
  BY Zenon, <1>1 DEF IInv, TypeOK
<1>4. TypeOK'
  BY <1>1, <1>3 DEF IInv, TypeOK
<1>5. Counts'
  BY <1>1, <1>2, <1>3 DEF IInv, Counts
<1>6. Growing' /\ SlotStates'
  BY Zenon, <1>1, <1>2 DEF IInv, Growing, SlotStates
<1>7. Claims'
  <2>1. Claims /\ cons'.pc # "read"
    BY <1>3 DEF IInv
  <2>2. claims' = claims /\ prod' = prod /\ view' = view /\ sequence' = sequence
    BY Zenon, <1>1
  <2> QED BY ZenonT(30), <1>2, <2>1, <2>2 DEF Claims
<1>8. Contents' /\ Accesses'
  BY <1>1, <1>2, <1>3 DEF IInv, Contents, Accesses
<1>9. Tally'
  BY <1>1, <1>2 DEF IInv, Tally, OwnClaims
<1> QED BY <1>4, <1>5, <1>6, <1>7, <1>8, <1>9 DEF IInv

(***************************************************************************)
(* Every step of a queue with more than one slot keeps the invariant.      *)
(***************************************************************************)
LEMMA NextInv ==
  ASSUME Size > 1, IInv, [Next]_vars
  PROVE  IInv'
<1>1. CASE UNCHANGED vars
  <2>1. /\ UNCHANGED <<head_, tail_, sequence, data, prod, cons, headView, view, acq, access>>
        /\ UNCHANGED <<claims, published, popped>>
    BY <1>1 DEF vars
  <2>2. N' = N /\ M' = M /\ Busy' = Busy /\ Held' = Held
    BY SMTT(30), <2>1 DEF N, M, Busy, Held
  <2>3. TypeOK' /\ Counts' /\ Growing'
    BY ZenonT(40), <2>1, <2>2 DEF IInv, TypeOK, Counts, Growing
  <2>4. SlotStates' /\ Claims'
    BY Zenon, <2>1, <2>2 DEF IInv, SlotStates, Claims
  <2>5. Contents' /\ Accesses'
    BY SMTT(30), <2>1, <2>2 DEF IInv, Contents, Accesses
  <2>6. Tally'
    BY <2>1, <2>2 DEF IInv, Tally, OwnClaims
  <2> QED BY <2>3, <2>4, <2>5, <2>6 DEF IInv
<1>2. CASE Pop
  <2>1. ASSUME NEW k \in 1 .. Len(sequence[Slot(tail_)]), PopLoad(k) PROVE IInv'
    BY <2>1, PopLoadInv
  <2> QED BY <1>2, <2>1, PopReadInv, PopRecycleInv, PopAdvanceInv DEF Pop
<1>3. ASSUME NEW p \in Producers, Push(p) PROVE IInv'
  <2>1. ASSUME NEW head \in 0 .. head_, NEW k \in 1 .. Len(sequence[Slot(head)]), PushLoad(p, head, k)
        PROVE  IInv'
    BY <2>1, PushLoadInv
  <2> QED BY <1>3, <2>1, PushClaimInv, PushClaimFailsInv, PushWriteInv, PushPublishInv DEF Push
<1> QED BY <1>1, <1>2, <1>3 DEF Next
-----------------------------------------------------------------------------
(***************************************************************************)
(* The inductive invariant, for a queue with more than one slot.           *)
(***************************************************************************)
THEOREM Invariance == ASSUME Size > 1 PROVE Spec => []IInv
<1>1. IInv /\ [Next]_vars => IInv'
  BY NextInv
<1> QED BY <1>1, InitInv, PTL DEF Spec

(***************************************************************************)
(* The variables of MPSCQueue keep their types.                            *)
(***************************************************************************)
THEOREM TypeCorrect == ASSUME Size > 1 PROVE Spec => []TypeOK
<1>1. IInv => TypeOK
  BY DEF IInv
<1> QED BY <1>1, Invariance, PTL

(***************************************************************************)
(* push never claims more than Size positions ahead of the pops: the       *)
(* "Queue is full" of its return value.                                    *)
(***************************************************************************)
THEOREM Bounded == ASSUME Size > 1 PROVE Spec => []NeverOverfull
<1>1. IInv => NeverOverfull
  BY NumbersHold DEF Numbers, NeverOverfull, N, M
<1> QED BY <1>1, Invariance, PTL

(***************************************************************************)
(* A position held by a producer and the one the consumer is taking have   *)
(* different slots, and so do the positions of two producers.              *)
(***************************************************************************)
LEMMA OwnersApart ==
  ASSUME IInv, NEW p \in Busy
  PROVE  /\ \A q \in Busy : Slot(prod[p].head) = Slot(prod[q].head) => p = q
         /\ cons.pc \in {"read", "recycle"} => tail_ = M /\ Slot(prod[p].head) # Slot(M)
<1> Numbers
  BY NumbersHold
<1> USE DEF Numbers
<1>1. \A q \in Busy : prod[q].head \in M .. M + Size - 1
  <2> TAKE q \in Busy
  <2>1. prod[q].head \in M .. N - 1
    BY Zenon DEF IInv, Claims
  <2> QED BY <2>1
<1>2. ASSUME NEW q \in Busy, Slot(prod[p].head) = Slot(prod[q].head) PROVE p = q
  <2>1. prod[p].head = prod[q].head
    BY <1>1, <1>2, SlotApart
  <2> QED BY <2>1 DEF IInv, Claims
<1>3. ASSUME cons.pc \in {"read", "recycle"} PROVE tail_ = M /\ Slot(prod[p].head) # Slot(M)
  <2>1. tail_ = M /\ M \notin Held
    BY <1>3 DEF IInv, Counts
  <2>2. prod[p].head # M /\ M \in M .. M + Size - 1
    BY <2>1 DEF Held
  <2>3. Slot(prod[p].head) # Slot(M)
    BY Zenon, <1>1, <2>2, SlotApart
  <2> QED BY <2>1, <2>3
<1> QED BY <1>2, <1>3

(***************************************************************************)
(* At most one thread is inside a slot: the compare-exchange hands each    *)
(* position to one producer, and pop waits for its publication.            *)
(***************************************************************************)
THEOREM SlotsAreExclusive == ASSUME Size > 1 PROVE Spec => []ExclusiveSlots
<1>1. IInv => ExclusiveSlots
  <2> SUFFICES ASSUME IInv, NEW i \in Slots
               PROVE  Cardinality({p \in Producers : prod[p].pc \in {"write", "publish"} /\ Slot(prod[p].head) = i}
                        \cup (IF cons.pc \in {"read", "recycle"} /\ Slot(tail_) = i THEN {Consumer} ELSE {})) <= 1
    BY DEF ExclusiveSlots
  <2> DEFINE P == {p \in Producers : prod[p].pc \in {"write", "publish"} /\ Slot(prod[p].head) = i}
             O == P \cup (IF cons.pc \in {"read", "recycle"} /\ Slot(tail_) = i THEN {Consumer} ELSE {})
  <2>1. \A p \in P : p \in Busy /\ Slot(prod[p].head) = i
    BY DEF Busy
  <2>2. \A a, b \in P : a = b
    BY <2>1, OwnersApart
  <2>3. \A a \in P : ~(cons.pc \in {"read", "recycle"} /\ Slot(tail_) = i)
    BY <2>1, OwnersApart
  <2> HIDE DEF P
  <2>4. \A a, b \in O : a = b
    BY <2>2, <2>3
  <2> HIDE DEF O
  <2>5. Cardinality(O) <= 1
    <3>1. CASE O = {}
      BY <3>1, FS_EmptySet
    <3>2. CASE O # {}
      <4>1. PICK a \in O : O = {a}
        BY <2>4, <3>2
      <4>2. Cardinality({a}) = 1
        BY FS_Singleton
      <4> QED BY <4>1, <4>2
    <3> QED BY <3>1, <3>2
  <2> QED BY <2>5 DEF O, P
<1> QED BY <1>1, Invariance, PTL

(***************************************************************************)
(* Every access to a slot's data happens after the previous one: whoever   *)
(* accesses it has acquired the last store to the slot's sequence number.  *)
(***************************************************************************)
THEOREM RaceFreedom == ASSUME Size > 1 PROVE Spec => []NoDataRace
<1>1. IInv => NoDataRace
  <2> SUFFICES ASSUME IInv PROVE NoDataRace
    OBVIOUS
  <2> Numbers
    BY SMTT(30), NumbersHold
  <2> USE DEF Numbers
  <2>1. acq = view /\ access \in [Slots -> Nat]
    BY SMTT(30) DEF IInv, Growing, TypeOK
  <2>2. ASSUME NEW p \in Producers, prod[p].pc = "write"
        PROVE  access[Slot(prod[p].head)] <= acq[p][Slot(prod[p].head)]
    <3> DEFINE i == Slot(prod[p].head)
    <3>1. p \in Busy /\ prod[p].head \in Nat
      BY SMTT(30), <2>2 DEF Busy, IInv, TypeOK
    <3>2. view[p][i] = Len(sequence[i]) /\ i \in Slots
      BY Zenon, <3>1, SlotRange DEF IInv, Claims
    <3>3. ~ \E q \in Producers : prod[q].pc = "publish" /\ Slot(prod[q].head) = i
      <4> SUFFICES ASSUME NEW q \in Producers, prod[q].pc = "publish", Slot(prod[q].head) = i
                   PROVE  FALSE
        OBVIOUS
      <4>1. q \in Busy
        BY DEF Busy
      <4>2. p = q
        BY <3>1, <4>1, OwnersApart
      <4> QED BY <2>2, <4>2
    <3>4. ~(cons.pc = "recycle" /\ Slot(M) = i)
      BY <3>1, OwnersApart
    <3> HIDE DEF i
    <3>5. access[i] <= Len(sequence[i])
      BY <3>2, <3>3, <3>4 DEF IInv, Accesses
    <3> QED BY <2>1, <3>2, <3>5 DEF i
  <2>3. ASSUME cons.pc = "read"
        PROVE  access[Slot(tail_)] <= acq[Consumer][Slot(tail_)]
    <3> DEFINE i == Slot(M)
    <3>1. tail_ = M /\ i \in Slots
      BY Zenon, <2>3, SlotRange DEF IInv, Counts
    <3>2. view[Consumer][i] = Len(sequence[i])
      BY <2>3 DEF IInv, Claims
    <3>3. ~ \E q \in Producers : prod[q].pc = "publish" /\ Slot(prod[q].head) = i
      <4> SUFFICES ASSUME NEW q \in Producers, prod[q].pc = "publish"
                   PROVE  Slot(prod[q].head) # i
        OBVIOUS
      <4>1. q \in Busy
        BY DEF Busy
      <4> QED BY <2>3, <4>1, OwnersApart
    <3> HIDE DEF i
    <3>4. access[i] <= Len(sequence[i])
      BY Zenon, <2>3, <3>1, <3>3 DEF IInv, Accesses
    <3> QED BY <2>1, <3>1, <3>2, <3>4 DEF i
  <2> QED BY <2>2, <2>3 DEF NoDataRace
<1> QED BY <1>1, Invariance, PTL

(***************************************************************************)
(* The consumer's empty() and pop() agree on every sequence number they    *)
(* can read: none exceeds tail_ + 1, so a sign test is an equality test.   *)
(***************************************************************************)
THEOREM EmptyAgreesWithPop == ASSUME Size > 1 PROVE Spec => []EmptyMatchesPop
<1>1. IInv => EmptyMatchesPop
  <2> SUFFICES ASSUME IInv, cons.pc = "idle",
                      NEW k \in Readable(sequence[Slot(tail_)], view[Consumer][Slot(tail_)])
               PROVE  empty(k) <=> ~CanPop(k)
    BY DEF EmptyMatchesPop
  <2> Numbers
    BY NumbersHold
  <2> USE DEF Numbers
  <2> DEFINE i == Slot(tail_)
  <2>1. tail_ = M /\ i \in Slots /\ Consumer \in Threads
    BY SlotRange DEF IInv, Counts, Threads
  <2>2. k \in 1 .. Len(sequence[i])
    <3>1. view[Consumer][i] \in 1 .. Len(sequence[i])
      BY <2>1 DEF IInv, TypeOK
    <3>2. k \in view[Consumer][i] .. Len(sequence[i])
      BY SMTT(30) DEF Readable
    <3> QED BY SMTT(30), <2>1, <3>1, <3>2
  <2>3. Newest(sequence[i]) = IF M < N /\ M \notin Held THEN M + 1 ELSE M
    <3>1. M \in M .. M + Size - 1
      OBVIOUS
    <3> QED BY Zenon, <2>1, <3>1 DEF IInv, SlotStates
  <2>4. sequence[i][k].val \in Nat /\ sequence[i][k].val <= Newest(sequence[i])
    BY SMTT(30), <2>1, <2>2, NewestBound
  <2>5. sequence[i][k].val <= tail_ + 1
    BY <2>1, <2>3, <2>4
  <2> QED BY <2>4, <2>5 DEF empty, CanPop
<1> QED BY <1>1, Invariance, PTL

(***************************************************************************)
(* The queue implements the bounded FIFO of Size places: push's            *)
(* compare-exchange is a Put, pop's store of tail + Size a Take, and every *)
(* other step of the threads is invisible.                                 *)
(***************************************************************************)
THEOREM Refinement == ASSUME Size > 1 PROVE Spec => ImplementsFIFO
<1> DEFINE q == SubSeq(claims, M + 1, N)
<1>1. Init => Abstract!Init
  <2> SUFFICES ASSUME Init PROVE Abstract!Init
    OBVIOUS
  <2>1. claims = << >> /\ popped = << >>
    BY DEF Init
  <2> QED BY <2>1 DEF Abstract!Init
<1>2. IInv /\ [Next]_vars => [Abstract!Next]_(Abstract!vars)
  <2> SUFFICES ASSUME IInv, [Next]_vars
               PROVE  Abstract!Next \/ UNCHANGED <<q, popped>>
    BY DEF Abstract!vars, N, M
  <2> Numbers
    BY NumbersHold
  <2> USE DEF Numbers
  <2>1. claims \in Seq(Items) /\ Len(claims) = N /\ popped \in Seq(Items \cup {Blank})
    BY DEF IInv, TypeOK, N
  <2>2. ASSUME NEW p \in Producers, PushClaim(p) PROVE Abstract!Next
    <3> DEFINE e == prod[p].item
    <3>1. e \in Items /\ N < M + Size
      BY <2>2, ClaimHasRoom DEF PushClaim, IInv, Claims
    <3> HIDE DEF e
    <3>2. claims' = Append(claims, e) /\ popped' = popped
      BY <2>2 DEF PushClaim, e
    <3>3. N' = N + 1 /\ M' = M
      BY <2>1, <3>1, <3>2 DEF N, M
    <3>4. q' = Append(q, e)
      <4>1. M \in 0 .. Len(claims)
        BY <2>1
      <4>2. SubSeq(Append(claims, e), M + 1, Len(claims) + 1)
              = Append(SubSeq(claims, M + 1, Len(claims)), e)
        BY ONLY Zenon, <2>1, <3>1, <4>1, RestOfAppend
      <4> QED BY <2>1, <3>2, <3>3, <4>2
    <3>5. Len(q) < Size
      BY <2>1, <3>1
    <3> QED BY Zenon, <3>1, <3>2, <3>4, <3>5 DEF Abstract!Next, Abstract!Put, N, M
  <2>3. CASE PopRecycle
    <3>1. M < N /\ cons.item = claims[M + 1]
      BY <2>3 DEF PopRecycle, IInv, Counts, Contents
    <3>2. popped' = Append(popped, cons.item) /\ claims' = claims
      BY <2>3 DEF PopRecycle
    <3>3. N' = N /\ M' = M + 1
      BY <2>1, <3>2 DEF N, M
    <3>4. q # << >> /\ Head(q) = cons.item /\ q' = Tail(q)
      <4>1. M \in 0 .. Len(claims) /\ M < Len(claims)
        BY <2>1, <3>1
      <4>2. /\ SubSeq(claims, M + 1, Len(claims)) # << >>
            /\ Head(SubSeq(claims, M + 1, Len(claims))) = claims[M + 1]
            /\ Tail(SubSeq(claims, M + 1, Len(claims))) = SubSeq(claims, M + 2, Len(claims))
        BY ONLY SMTT(30), <2>1, <4>1, RestOfTail
      <4>3. M' + 1 = M + 2
        BY <3>3
      <4> QED BY Zenon, <2>1, <3>1, <3>2, <3>3, <4>2, <4>3
    <3> QED BY <3>2, <3>4 DEF Abstract!Next, Abstract!Take, N, M
  <2>4. ASSUME claims' = claims, popped' = popped PROVE UNCHANGED <<q, popped>>
    BY <2>4 DEF N, M
  <2>5. CASE UNCHANGED vars
    BY Zenon, <2>4, <2>5 DEF vars
  <2>6. CASE Pop
    BY Zenon, <2>3, <2>4, <2>6 DEF Pop, PopLoad, PopRead, PopAdvance
  <2>7. ASSUME NEW p \in Producers, Push(p) PROVE Abstract!Next \/ UNCHANGED <<q, popped>>
    BY Zenon, <2>2, <2>4, <2>7 DEF Push, PushLoad, PushClaimFails, PushWrite, PushPublish
  <2> QED BY Zenon, <2>5, <2>6, <2>7 DEF Next
<1> QED BY <1>1, <1>2, Invariance, PTL DEF Spec, ImplementsFIFO, Abstract!Spec
=============================================================================
