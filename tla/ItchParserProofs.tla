-------------------------- MODULE ItchParserProofs --------------------------
(***************************************************************************)
(* The framing loop of ItchParser for packets of every content and length, *)
(* output arrays and receive buffers of every size: it stays inside the    *)
(* packet and inside each message, moves forward in every round, and when  *)
(* parse returns the output is the packet.  What the writers of the        *)
(* generator put on the wire, the readers of the parser get back, for every *)
(* value of each width; and every message the generator builds is read     *)
(* field by field from where it was written.                               *)
(***************************************************************************)
EXTENDS ItchParser, FiniteSetTheorems, RingArithmetic, TLAPS

(***************************************************************************)
(* The loop and the packet as a whole.  Between two rounds every frame in  *)
(* front of offset fits, and the messages written so far are the           *)
(* convertible ones among these frames, each in the slot that its rank     *)
(* among them gives.                                                       *)
(***************************************************************************)
AtWork ==
  pc # "idle" => \E p \in Packets : pkt = Received(p)

AtRest ==
  pc = "idle" => pkt = NoPacket /\ reach = 0

InSlot(j, o) ==
  /\ Cardinality(GoodBefore(pkt, o)) = j
  /\ \A f \in Assigned(pkt.frame[o].type) : messages[j][f] = <<calls, o>>

InLoop ==
  pc = "loop" =>
    /\ offset + remaining = pkt.length /\ reach <= offset
    /\ remaining >= 3 => offset \in DOMAIN pkt.frame
    /\ \A q \in DOMAIN pkt.frame : q < offset => Fits(pkt, q)
    /\ messages_parsed = Cardinality(GoodBefore(pkt, offset))
    /\ \A j \in 0 .. messages_parsed - 1 : \E o \in GoodBefore(pkt, offset) : InSlot(j, o)

AtReturn ==
  pc = "return" =>
    /\ reach <= pkt.length
    /\ messages_parsed = Min({Cardinality(Good(pkt)), max_messages})
    /\ \A j \in 0 .. messages_parsed - 1 : \E o \in Good(pkt) : InSlot(j, o)

Inv == TypeOK /\ AtWork /\ AtRest /\ InLoop /\ AtReturn

-----------------------------------------------------------------------------
(***************************************************************************)
(* Running sums: there is one over every sequence of widths, found by      *)
(* induction on how far it goes.                                           *)
(***************************************************************************)
LEMMA SumsExist ==
  ASSUME NEW n \in Nat, NEW w \in [1 .. n -> Nat]
  PROVE  \E f \in [0 .. n -> Nat] : f[0] = 0 /\ \A i \in 1 .. n : f[i] = f[i - 1] + w[i]
<1> DEFINE Sums(m) == \E f \in [0 .. m -> Nat] : f[0] = 0 /\ \A i \in 1 .. m : f[i] = f[i - 1] + w[i]
           S == {m \in 0 .. n : Sums(m)}
<1>1. Sums(0)
  <2>1. [i \in 0 .. 0 |-> 0] \in [0 .. 0 -> Nat] /\ [i \in 0 .. 0 |-> 0][0] = 0 /\ 1 .. 0 = {}
    OBVIOUS
  <2> QED
    BY Zenon, <2>1
<1>2. ASSUME NEW m \in 1 .. n, Sums(m - 1) PROVE Sums(m)
  <2>1. PICK f \in [0 .. m - 1 -> Nat] : f[0] = 0 /\ \A i \in 1 .. m - 1 : f[i] = f[i - 1] + w[i]
    BY Zenon, <1>2
  <2>2. PICK g : g = [i \in 0 .. m |-> IF i = m THEN f[m - 1] + w[m] ELSE f[i]]
    BY Zenon
  <2>3. f[m - 1] \in Nat /\ w[m] \in Nat
    OBVIOUS
  <2>4. g \in [0 .. m -> Nat]
    BY <2>2, <2>3
  <2>5. g[0] = 0 /\ \A i \in 1 .. m : g[i] = g[i - 1] + w[i]
    BY <2>1, <2>2
  <2> QED
    BY Zenon, <2>4, <2>5
<1> HIDE DEF Sums
<1>3. 0 \in S /\ \A m \in 1 .. n : m - 1 \in S => m \in S
  BY <1>1, <1>2
<1> HIDE DEF S
<1>4. 0 .. n \subseteq S
  BY Zenon, <1>3, IntervalInduction
<1>5. Sums(n)
  BY <1>4 DEF S
<1> QED
  BY Zenon, <1>5 DEF Sums

(***************************************************************************)
(* Offsets satisfies the equation it is defined by, and is a natural       *)
(* number everywhere.                                                      *)
(***************************************************************************)
LEMMA OffsetsAddUp ==
  ASSUME NEW w \in Seq(Nat)
  PROVE  /\ Offsets(w) \in [0 .. Len(w) -> Nat]
         /\ Offsets(w)[0] = 0
         /\ \A i \in 1 .. Len(w) : Offsets(w)[i] = Offsets(w)[i - 1] + w[i]
<1>1. PICK n : n = Len(w)
  OBVIOUS
<1>2. n \in Nat /\ w \in [1 .. n -> Nat]
  BY <1>1
<1> DEFINE Step(f) == [i \in 0 .. n |-> IF i = 0 THEN 0 ELSE f[i - 1] + w[i]]
<1>3. PICK f \in [0 .. n -> Nat] : f[0] = 0 /\ \A i \in 1 .. n : f[i] = f[i - 1] + w[i]
  BY Zenon, <1>2, SumsExist
<1>4. f = Step(f)
  BY <1>2, <1>3
<1>5. Offsets(w) = CHOOSE g : g = Step(g)
  BY <1>1 DEF Offsets
<1>6. PICK at : at = Offsets(w)
  OBVIOUS
<1>7. at = Step(at)
  <2> HIDE DEF Step
  <2> QED
    BY <1>4, <1>5, <1>6
<1>8. /\ DOMAIN at = 0 .. n /\ at = [i \in 0 .. n |-> at[i]] /\ at[0] = 0
      /\ \A i \in 1 .. n : at[i] = at[i - 1] + w[i]
  BY <1>2, <1>7
<1> DEFINE S == {m \in 0 .. n : at[m] \in Nat}
<1>9. 0 \in S /\ \A m \in 1 .. n : m - 1 \in S => m \in S
  <2>1. 0 \in S
    BY <1>2, <1>8
  <2>2. ASSUME NEW m \in 1 .. n, m - 1 \in S PROVE m \in S
    <3>1. at[m - 1] \in Nat
      BY <2>2
    <3>2. w[m] \in Nat /\ at[m] = at[m - 1] + w[m]
      BY Zenon, <1>2, <1>8
    <3>3. at[m] \in Nat
      BY <3>1, <3>2
    <3> QED
      BY <1>2, <3>3
  <2> QED
    BY <2>1, <2>2
<1> HIDE DEF S
<1>10. 0 .. n \subseteq S
  BY Zenon, <1>2, <1>9, IntervalInduction
<1>11. at \in [0 .. n -> Nat]
  BY <1>8, <1>10 DEF S
<1> QED
  BY Zenon, <1>1, <1>6, <1>8, <1>11

(***************************************************************************)
(* Offsets never decreases.                                                *)
(***************************************************************************)
LEMMA OffsetsGrow ==
  ASSUME NEW w \in Seq(Nat), NEW i \in 0 .. Len(w), NEW j \in i .. Len(w)
  PROVE  Offsets(w)[i] <= Offsets(w)[j]
<1>1. PICK n, at : n = Len(w) /\ at = Offsets(w)
  OBVIOUS
<1>2. n \in Nat /\ w \in [1 .. n -> Nat]
  BY <1>1
<1>3. at \in [0 .. n -> Nat] /\ \A m \in 1 .. n : at[m] = at[m - 1] + w[m]
  BY Zenon, <1>1, OffsetsAddUp
<1>4. i \in 0 .. n /\ at[i] \in Nat
  BY Zenon, <1>1, <1>3
<1> DEFINE S == {m \in 0 .. n : m >= i => at[i] <= at[m]}
<1>5. 0 \in S
  BY <1>2, <1>4
<1>6. ASSUME NEW m \in 1 .. n, m - 1 \in S PROVE m \in S
  <2>1. CASE i = m
    BY <1>2, <1>4, <2>1
  <2>2. CASE i < m
    <3>1. w[m] \in Nat /\ m - 1 \in 0 .. n
      BY <1>2
    <3>2. at[m - 1] \in Nat /\ at[m] = at[m - 1] + w[m]
      BY Zenon, <1>3, <3>1
    <3>3. at[i] <= at[m - 1]
      BY <1>4, <1>6, <2>2
    <3>4. at[i] <= at[m]
      BY SMTT(30), <1>4, <3>1, <3>2, <3>3
    <3> QED
      BY <1>2, <3>4
  <2>3. CASE i > m
    BY <1>1, <1>2, <2>3
  <2> QED
    BY <1>1, <1>2, <2>1, <2>2, <2>3
<1> HIDE DEF S
<1>7. 0 .. n \subseteq S
  BY Zenon, <1>2, <1>5, <1>6, IntervalInduction
<1>8. j \in S /\ j >= i
  BY <1>1, <1>7
<1> QED
  BY <1>1, <1>8 DEF S

(***************************************************************************)
(* The ends of the fields of a packed struct: sums of widths, and rising.  *)
(***************************************************************************)
LEMMA EndsAddUp ==
  ASSUME NEW struct, NEW n \in Nat, DOMAIN struct = 1 .. n, \A i \in 1 .. n : struct[i][2] \in Nat
  PROVE  /\ Ends(struct) \in [0 .. n -> Nat] /\ Ends(struct)[0] = 0
         /\ \A i \in 1 .. n : Ends(struct)[i] = Ends(struct)[i - 1] + struct[i][2]
         /\ \A i \in 0 .. n : Ends(struct)[i] <= Ends(struct)[n]
<1>1. PICK w : w = [i \in 1 .. n |-> struct[i][2]]
  BY Zenon
<1>2. w \in [1 .. n -> Nat]
  BY <1>1
<1>3. w \in Seq(Nat) /\ Len(w) = n
  BY <1>2
<1>4. Ends(struct) = Offsets(w)
  BY <1>1 DEF Ends
<1>5. /\ Offsets(w) \in [0 .. n -> Nat] /\ Offsets(w)[0] = 0
      /\ \A i \in 1 .. n : Offsets(w)[i] = Offsets(w)[i - 1] + w[i]
  BY Zenon, <1>3, OffsetsAddUp
<1>6. \A i \in 1 .. n : w[i] = struct[i][2]
  BY <1>1
<1>7. \A i \in 0 .. n : n \in i .. n
  OBVIOUS
<1>8. \A i \in 0 .. n : Offsets(w)[i] <= Offsets(w)[n]
  BY Zenon, <1>3, <1>7, OffsetsGrow
<1> QED
  BY <1>4, <1>5, <1>6, <1>8

(***************************************************************************)
(* The largest of some numbers is one of them.                             *)
(***************************************************************************)
LEMMA MaxInside ==
  ASSUME NEW n \in Nat, NEW S \in SUBSET (0 .. n), S # {}
  PROVE  Max(S) \in S
<1> DEFINE Tops == {m \in 0 .. n : (\E x \in S : x >= n - m) => \E x \in S : \A y \in S : x >= y}
<1>1. 0 \in Tops
  <2>1. ASSUME NEW x \in S, x >= n - 0 PROVE \A y \in S : x >= y
    BY <2>1
  <2> QED
    BY <2>1
<1>2. ASSUME NEW m \in 1 .. n, m - 1 \in Tops PROVE m \in Tops
  <2>1. ASSUME NEW x \in S, x >= n - m, \A y \in S : ~ (y >= n - (m - 1)) PROVE \A y \in S : x >= y
    BY <2>1
  <2> QED
    BY <1>2, <2>1
<1> HIDE DEF Tops
<1>3. 0 .. n \subseteq Tops
  BY <1>1, <1>2, IntervalInduction
<1>4. n \in Tops
  BY <1>3
<1>5. PICK z \in S : TRUE
  BY Zenon
<1>6. z \in 0 .. n /\ z >= n - n
  BY <1>5
<1>7. \E x \in S : \A y \in S : x >= y
  BY <1>4, <1>5, <1>6 DEF Tops
<1> QED
  BY Zenon, <1>7 DEF Max

(***************************************************************************)
(* The struct of type t has n fields and at most size bytes, and the       *)
(* conversion reads some of these fields and no others.                    *)
(***************************************************************************)
Covered(t, n, size) ==
  /\ DOMAIN Layout[t] = 1 .. n
  /\ \A i \in 1 .. n : Layout[t][i][2] \in Nat
  /\ FieldsRead(t) # {} /\ \A f \in FieldsRead(t) : \E i \in 1 .. n : Layout[t][i][1] = f
  /\ Ends(Layout[t])[n] <= size

(***************************************************************************)
(* A conversion that reads fields of its struct reads inside it.           *)
(***************************************************************************)
LEMMA LastInside ==
  ASSUME NEW t, NEW n \in Nat, NEW size \in Nat, Covered(t, n, size)
  PROVE  LastRead(t) \in 0 .. size
<1>1. PICK m, R, S : m = Layout[t] /\ R = FieldsRead(t) /\ S = {FieldEnd(m, f) : f \in R}
  BY Zenon
<1>2. /\ DOMAIN m = 1 .. n /\ \A i \in 1 .. n : m[i][2] \in Nat
      /\ R # {} /\ \A f \in R : \E i \in 1 .. n : m[i][1] = f
      /\ Ends(m)[n] <= size
  BY Zenon, <1>1 DEF Covered
<1>3. Ends(m) \in [0 .. n -> Nat] /\ \A i \in 0 .. n : Ends(m)[i] <= Ends(m)[n]
  BY Zenon, <1>2, EndsAddUp
<1>4. ASSUME NEW f \in R PROVE FieldEnd(m, f) \in 0 .. size
  <2>1. PICK i : i = CHOOSE k \in DOMAIN m : m[k][1] = f
    OBVIOUS
  <2>2. i \in 1 .. n
    BY <1>2, <2>1
  <2>3. FieldEnd(m, f) = Ends(m)[i]
    BY Zenon, <2>1 DEF FieldEnd
  <2>4. i \in 0 .. n /\ n \in 0 .. n
    BY <2>2
  <2>5. Ends(m)[i] \in Nat /\ Ends(m)[n] \in Nat /\ Ends(m)[i] <= Ends(m)[n]
    BY <1>3, <2>4
  <2> QED
    BY <1>2, <2>3, <2>5
<1>5. S \in SUBSET (0 .. size) /\ S # {}
  <2>1. \A x \in S : x \in 0 .. size
    BY Zenon, <1>1, <1>4
  <2>2. S # {}
    BY ZenonT(30), <1>1, <1>2
  <2> QED
    BY Zenon, <2>1, <2>2
<1>6. LastRead(t) = Max(S)
  BY Zenon, <1>1 DEF LastRead
<1>7. Max(S) \in S
  BY Zenon, <1>5, MaxInside
<1> QED
  BY Zenon, <1>5, <1>6, <1>7

(***************************************************************************)
(* parse_system_event reads inside the struct of its message.              *)
(***************************************************************************)
LEMMA InsideS == LastRead("S") \in 0 .. 14
<1>1. PICK m : m = SystemEventMessage
  OBVIOUS
<1>2. /\ DOMAIN m = 1 .. 5 /\ m[1] = <<"stock_locate", 2>> /\ m[2] = <<"tracking_number", 2>>
      /\ m[3] = <<"timestamp", 8>> /\ m[4] = <<"message_type", 1>>
      /\ m[5] = <<"event_code", 1>>
  BY <1>1 DEF SystemEventMessage, MessageHeader
<1>3. 1 .. 5 = {1, 2, 3, 4, 5}
  OBVIOUS
<1>4. \A i \in 1 .. 5 : m[i][2] \in Nat
  BY <1>2, <1>3
<1>5. Ends(m)[5] <= 14
  <2>1. Ends(m)[0] = 0 /\ \A i \in 1 .. 5 : Ends(m)[i] = Ends(m)[i - 1] + m[i][2]
    BY Zenon, <1>2, <1>4, EndsAddUp
  <2> QED
    BY <1>2, <1>3, <2>1
<1>6. PICK c : c = parse_system_event
  OBVIOUS
<1>7. "timestamp" \in DOMAIN c /\ c["timestamp"] = "timestamp"
  BY <1>6 DEF ++, Common, parse_system_event
<1>8. \A f \in DOMAIN c : c[f] \in {"tracking_number", "timestamp", "message_type", Zero}
  BY <1>6 DEF ++, Common, parse_system_event
<1>9. c = Conversion["S"] /\ m = Layout["S"]
  BY <1>1, <1>6 DEF Conversion, Layout
<1>10. "timestamp" \in FieldsRead("S")
  BY <1>7, <1>9 DEF FieldsRead, Zero
<1>11. FieldsRead("S") \subseteq {"tracking_number", "timestamp", "message_type"}
  BY <1>8, <1>9 DEF FieldsRead
<1>12. \A f \in FieldsRead("S") : \E i \in 1 .. 5 : m[i][1] = f
  BY <1>2, <1>3, <1>11
<1>13. Covered("S", 5, 14)
  BY Zenon, <1>2, <1>4, <1>5, <1>9, <1>10, <1>12 DEF Covered
<1>14. 5 \in Nat /\ 14 \in Nat
  OBVIOUS
<1> QED
  BY Zenon, <1>13, <1>14, LastInside

(***************************************************************************)
(* parse_stock_directory reads inside the struct of its message.           *)
(***************************************************************************)
LEMMA InsideR == LastRead("R") \in 0 .. 41
<1>1. PICK m : m = StockDirectoryMessage
  OBVIOUS
<1>2. /\ DOMAIN m = 1 .. 17 /\ m[1] = <<"stock_locate", 2>> /\ m[2] = <<"tracking_number", 2>>
      /\ m[3] = <<"timestamp", 8>> /\ m[4] = <<"message_type", 1>>
      /\ m[5] = <<"stock", 8>> /\ m[6] = <<"market_category", 1>>
      /\ m[7] = <<"financial_status", 1>> /\ m[8] = <<"round_lot_size", 4>>
      /\ m[9] = <<"round_lots_only", 1>>
      /\ m[10] = <<"issue_classification", 1>>
      /\ m[11] = <<"issue_sub_type", 2>> /\ m[12] = <<"authenticity", 1>>
      /\ m[13] = <<"ipo_flag", 1>> /\ m[14] = <<"luld_ref_price_tier", 1>>
      /\ m[15] = <<"etp_flag", 1>> /\ m[16] = <<"etp_leverage_factor", 4>>
      /\ m[17] = <<"inverse_indicator", 1>>
  BY <1>1 DEF StockDirectoryMessage, MessageHeader
<1>3. 1 .. 17 = {1, 2, 3, 4, 5, 6, 7, 8, 9, 10, 11, 12, 13, 14, 15, 16, 17}
  OBVIOUS
<1>4. \A i \in 1 .. 17 : m[i][2] \in Nat
  BY <1>2, <1>3
<1>5. Ends(m)[17] <= 41
  <2>1. Ends(m)[0] = 0 /\ \A i \in 1 .. 17 : Ends(m)[i] = Ends(m)[i - 1] + m[i][2]
    BY Zenon, <1>2, <1>4, EndsAddUp
  <2> QED
    BY SMTT(30), <1>2, <1>3, <2>1
<1>6. PICK c : c = parse_stock_directory
  OBVIOUS
<1>7. "timestamp" \in DOMAIN c /\ c["timestamp"] = "timestamp"
  BY <1>6 DEF Common, parse_stock_directory
<1>8. \A f \in DOMAIN c : c[f] \in {"stock_locate", "tracking_number", "timestamp", "message_type"}
  BY <1>6 DEF Common, parse_stock_directory
<1>9. c = Conversion["R"] /\ m = Layout["R"]
  BY <1>1, <1>6 DEF Conversion, Layout
<1>10. "timestamp" \in FieldsRead("R")
  BY <1>7, <1>9 DEF FieldsRead, Zero
<1>11. FieldsRead("R") \subseteq {"stock_locate", "tracking_number", "timestamp", "message_type",
                                  "stock"}
  BY <1>8, <1>9 DEF FieldsRead
<1>12. \A f \in FieldsRead("R") : \E i \in 1 .. 17 : m[i][1] = f
  BY <1>2, <1>3, <1>11
<1>13. Covered("R", 17, 41)
  BY Zenon, <1>2, <1>4, <1>5, <1>9, <1>10, <1>12 DEF Covered
<1>14. 17 \in Nat /\ 41 \in Nat
  OBVIOUS
<1> QED
  BY Zenon, <1>13, <1>14, LastInside

(***************************************************************************)
(* parse_add_order reads inside the struct of its message.                 *)
(***************************************************************************)
LEMMA InsideA == LastRead("A") \in 0 .. 38
<1>1. PICK m : m = AddOrderMessage
  OBVIOUS
<1>2. /\ DOMAIN m = 1 .. 9 /\ m[1] = <<"stock_locate", 2>> /\ m[2] = <<"tracking_number", 2>>
      /\ m[3] = <<"timestamp", 8>> /\ m[4] = <<"message_type", 1>>
      /\ m[5] = <<"order_reference_number", 8>>
      /\ m[6] = <<"buy_sell_indicator", 1>> /\ m[7] = <<"shares", 4>>
      /\ m[8] = <<"stock", 8>> /\ m[9] = <<"price", 4>>
  BY <1>1 DEF AddOrderMessage, MessageHeader
<1>3. 1 .. 9 = {1, 2, 3, 4, 5, 6, 7, 8, 9}
  OBVIOUS
<1>4. \A i \in 1 .. 9 : m[i][2] \in Nat
  BY <1>2, <1>3
<1>5. Ends(m)[9] <= 38
  <2>1. Ends(m)[0] = 0 /\ \A i \in 1 .. 9 : Ends(m)[i] = Ends(m)[i - 1] + m[i][2]
    BY Zenon, <1>2, <1>4, EndsAddUp
  <2> QED
    BY <1>2, <1>3, <2>1
<1>6. PICK c : c = parse_add_order
  OBVIOUS
<1>7. "timestamp" \in DOMAIN c /\ c["timestamp"] = "timestamp"
  BY <1>6 DEF ++, Common, parse_add_order
<1>8. \A f \in DOMAIN c : c[f] \in {"stock_locate", "tracking_number", "timestamp",
                                    "message_type", "order_reference_number",
                                    "buy_sell_indicator", "shares", "price"}
  BY <1>6 DEF ++, Common, parse_add_order
<1>9. c = Conversion["A"] /\ m = Layout["A"]
  BY <1>1, <1>6 DEF Conversion, Layout
<1>10. "timestamp" \in FieldsRead("A")
  BY <1>7, <1>9 DEF FieldsRead, Zero
<1>11. FieldsRead("A") \subseteq {"stock_locate", "tracking_number", "timestamp", "message_type",
                                  "order_reference_number", "buy_sell_indicator", "shares",
                                  "price"}
  BY <1>8, <1>9 DEF FieldsRead
<1>12. \A f \in FieldsRead("A") : \E i \in 1 .. 9 : m[i][1] = f
  BY <1>2, <1>3, <1>11
<1>13. Covered("A", 9, 38)
  BY Zenon, <1>2, <1>4, <1>5, <1>9, <1>10, <1>12 DEF Covered
<1>14. 9 \in Nat /\ 38 \in Nat
  OBVIOUS
<1> QED
  BY Zenon, <1>13, <1>14, LastInside

(***************************************************************************)
(* parse_add_order_mpid reads inside the struct of its message.            *)
(***************************************************************************)
LEMMA InsideF == LastRead("F") \in 0 .. 42
<1>1. PICK m : m = AddOrderMPIDMessage
  OBVIOUS
<1>2. /\ DOMAIN m = 1 .. 10 /\ m[1] = <<"stock_locate", 2>> /\ m[2] = <<"tracking_number", 2>>
      /\ m[3] = <<"timestamp", 8>> /\ m[4] = <<"message_type", 1>>
      /\ m[5] = <<"order_reference_number", 8>>
      /\ m[6] = <<"buy_sell_indicator", 1>> /\ m[7] = <<"shares", 4>>
      /\ m[8] = <<"stock", 8>> /\ m[9] = <<"price", 4>>
      /\ m[10] = <<"attribution", 4>>
  BY <1>1 DEF AddOrderMPIDMessage, MessageHeader
<1>3. 1 .. 10 = {1, 2, 3, 4, 5, 6, 7, 8, 9, 10}
  OBVIOUS
<1>4. \A i \in 1 .. 10 : m[i][2] \in Nat
  BY <1>2, <1>3
<1>5. Ends(m)[10] <= 42
  <2>1. Ends(m)[0] = 0 /\ \A i \in 1 .. 10 : Ends(m)[i] = Ends(m)[i - 1] + m[i][2]
    BY Zenon, <1>2, <1>4, EndsAddUp
  <2> QED
    BY <1>2, <1>3, <2>1
<1>6. PICK c : c = parse_add_order_mpid
  OBVIOUS
<1>7. "timestamp" \in DOMAIN c /\ c["timestamp"] = "timestamp"
  BY <1>6 DEF ++, Common, parse_add_order_mpid, parse_add_order
<1>8. \A f \in DOMAIN c : c[f] \in {"stock_locate", "tracking_number", "timestamp",
                                    "message_type", "order_reference_number",
                                    "buy_sell_indicator", "shares", "price"}
  BY <1>6 DEF ++, Common, parse_add_order_mpid, parse_add_order
<1>9. c = Conversion["F"] /\ m = Layout["F"]
  BY <1>1, <1>6 DEF Conversion, Layout
<1>10. "timestamp" \in FieldsRead("F")
  BY <1>7, <1>9 DEF FieldsRead, Zero
<1>11. FieldsRead("F") \subseteq {"stock_locate", "tracking_number", "timestamp", "message_type",
                                  "order_reference_number", "buy_sell_indicator", "shares",
                                  "price"}
  BY <1>8, <1>9 DEF FieldsRead
<1>12. \A f \in FieldsRead("F") : \E i \in 1 .. 10 : m[i][1] = f
  BY <1>2, <1>3, <1>11
<1>13. Covered("F", 10, 42)
  BY Zenon, <1>2, <1>4, <1>5, <1>9, <1>10, <1>12 DEF Covered
<1>14. 10 \in Nat /\ 42 \in Nat
  OBVIOUS
<1> QED
  BY Zenon, <1>13, <1>14, LastInside

(***************************************************************************)
(* parse_order_executed reads inside the struct of its message.            *)
(***************************************************************************)
LEMMA InsideE == LastRead("E") \in 0 .. 33
<1>1. PICK m : m = OrderExecutedMessage
  OBVIOUS
<1>2. /\ DOMAIN m = 1 .. 7 /\ m[1] = <<"stock_locate", 2>> /\ m[2] = <<"tracking_number", 2>>
      /\ m[3] = <<"timestamp", 8>> /\ m[4] = <<"message_type", 1>>
      /\ m[5] = <<"order_reference_number", 8>>
      /\ m[6] = <<"executed_shares", 4>> /\ m[7] = <<"match_number", 8>>
  BY <1>1 DEF OrderExecutedMessage, MessageHeader
<1>3. 1 .. 7 = {1, 2, 3, 4, 5, 6, 7}
  OBVIOUS
<1>4. \A i \in 1 .. 7 : m[i][2] \in Nat
  BY <1>2, <1>3
<1>5. Ends(m)[7] <= 33
  <2>1. Ends(m)[0] = 0 /\ \A i \in 1 .. 7 : Ends(m)[i] = Ends(m)[i - 1] + m[i][2]
    BY Zenon, <1>2, <1>4, EndsAddUp
  <2> QED
    BY <1>2, <1>3, <2>1
<1>6. PICK c : c = parse_order_executed
  OBVIOUS
<1>7. "timestamp" \in DOMAIN c /\ c["timestamp"] = "timestamp"
  BY <1>6 DEF ++, Common, parse_order_executed
<1>8. \A f \in DOMAIN c : c[f] \in {"stock_locate", "tracking_number", "timestamp",
                                    "message_type", "order_reference_number", "executed_shares"}
  BY <1>6 DEF ++, Common, parse_order_executed
<1>9. c = Conversion["E"] /\ m = Layout["E"]
  BY <1>1, <1>6 DEF Conversion, Layout
<1>10. "timestamp" \in FieldsRead("E")
  BY <1>7, <1>9 DEF FieldsRead, Zero
<1>11. FieldsRead("E") \subseteq {"stock_locate", "tracking_number", "timestamp", "message_type",
                                  "order_reference_number", "executed_shares"}
  BY <1>8, <1>9 DEF FieldsRead
<1>12. \A f \in FieldsRead("E") : \E i \in 1 .. 7 : m[i][1] = f
  BY <1>2, <1>3, <1>11
<1>13. Covered("E", 7, 33)
  BY Zenon, <1>2, <1>4, <1>5, <1>9, <1>10, <1>12 DEF Covered
<1>14. 7 \in Nat /\ 33 \in Nat
  OBVIOUS
<1> QED
  BY Zenon, <1>13, <1>14, LastInside

(***************************************************************************)
(* parse_order_executed_with_price reads inside the struct of its message. *)
(***************************************************************************)
LEMMA InsideC == LastRead("C") \in 0 .. 38
<1>1. PICK m : m = OrderExecutedWithPriceMessage
  OBVIOUS
<1>2. /\ DOMAIN m = 1 .. 9 /\ m[1] = <<"stock_locate", 2>> /\ m[2] = <<"tracking_number", 2>>
      /\ m[3] = <<"timestamp", 8>> /\ m[4] = <<"message_type", 1>>
      /\ m[5] = <<"order_reference_number", 8>>
      /\ m[6] = <<"executed_shares", 4>> /\ m[7] = <<"match_number", 8>>
      /\ m[8] = <<"printable", 1>> /\ m[9] = <<"execution_price", 4>>
  BY <1>1 DEF OrderExecutedWithPriceMessage, MessageHeader
<1>3. 1 .. 9 = {1, 2, 3, 4, 5, 6, 7, 8, 9}
  OBVIOUS
<1>4. \A i \in 1 .. 9 : m[i][2] \in Nat
  BY <1>2, <1>3
<1>5. Ends(m)[9] <= 38
  <2>1. Ends(m)[0] = 0 /\ \A i \in 1 .. 9 : Ends(m)[i] = Ends(m)[i - 1] + m[i][2]
    BY Zenon, <1>2, <1>4, EndsAddUp
  <2> QED
    BY <1>2, <1>3, <2>1
<1>6. PICK c : c = parse_order_executed_with_price
  OBVIOUS
<1>7. "timestamp" \in DOMAIN c /\ c["timestamp"] = "timestamp"
  BY <1>6 DEF ++, Common, parse_order_executed_with_price
<1>8. \A f \in DOMAIN c : c[f] \in {"stock_locate", "tracking_number", "timestamp",
                                    "message_type", "order_reference_number", "executed_shares",
                                    "execution_price"}
  BY <1>6 DEF ++, Common, parse_order_executed_with_price
<1>9. c = Conversion["C"] /\ m = Layout["C"]
  BY <1>1, <1>6 DEF Conversion, Layout
<1>10. "timestamp" \in FieldsRead("C")
  BY <1>7, <1>9 DEF FieldsRead, Zero
<1>11. FieldsRead("C") \subseteq {"stock_locate", "tracking_number", "timestamp", "message_type",
                                  "order_reference_number", "executed_shares", "execution_price"}
  BY <1>8, <1>9 DEF FieldsRead
<1>12. \A f \in FieldsRead("C") : \E i \in 1 .. 9 : m[i][1] = f
  BY <1>2, <1>3, <1>11
<1>13. Covered("C", 9, 38)
  BY Zenon, <1>2, <1>4, <1>5, <1>9, <1>10, <1>12 DEF Covered
<1>14. 9 \in Nat /\ 38 \in Nat
  OBVIOUS
<1> QED
  BY Zenon, <1>13, <1>14, LastInside

(***************************************************************************)
(* parse_order_cancel reads inside the struct of its message.              *)
(***************************************************************************)
LEMMA InsideX == LastRead("X") \in 0 .. 25
<1>1. PICK m : m = OrderCancelMessage
  OBVIOUS
<1>2. /\ DOMAIN m = 1 .. 6 /\ m[1] = <<"stock_locate", 2>> /\ m[2] = <<"tracking_number", 2>>
      /\ m[3] = <<"timestamp", 8>> /\ m[4] = <<"message_type", 1>>
      /\ m[5] = <<"order_reference_number", 8>>
      /\ m[6] = <<"cancelled_shares", 4>>
  BY <1>1 DEF OrderCancelMessage, MessageHeader
<1>3. 1 .. 6 = {1, 2, 3, 4, 5, 6}
  OBVIOUS
<1>4. \A i \in 1 .. 6 : m[i][2] \in Nat
  BY <1>2, <1>3
<1>5. Ends(m)[6] <= 25
  <2>1. Ends(m)[0] = 0 /\ \A i \in 1 .. 6 : Ends(m)[i] = Ends(m)[i - 1] + m[i][2]
    BY Zenon, <1>2, <1>4, EndsAddUp
  <2> QED
    BY <1>2, <1>3, <2>1
<1>6. PICK c : c = parse_order_cancel
  OBVIOUS
<1>7. "timestamp" \in DOMAIN c /\ c["timestamp"] = "timestamp"
  BY <1>6 DEF ++, Common, parse_order_cancel
<1>8. \A f \in DOMAIN c : c[f] \in {"stock_locate", "tracking_number", "timestamp",
                                    "message_type", "order_reference_number", "cancelled_shares"}
  BY <1>6 DEF ++, Common, parse_order_cancel
<1>9. c = Conversion["X"] /\ m = Layout["X"]
  BY <1>1, <1>6 DEF Conversion, Layout
<1>10. "timestamp" \in FieldsRead("X")
  BY <1>7, <1>9 DEF FieldsRead, Zero
<1>11. FieldsRead("X") \subseteq {"stock_locate", "tracking_number", "timestamp", "message_type",
                                  "order_reference_number", "cancelled_shares"}
  BY <1>8, <1>9 DEF FieldsRead
<1>12. \A f \in FieldsRead("X") : \E i \in 1 .. 6 : m[i][1] = f
  BY <1>2, <1>3, <1>11
<1>13. Covered("X", 6, 25)
  BY Zenon, <1>2, <1>4, <1>5, <1>9, <1>10, <1>12 DEF Covered
<1>14. 6 \in Nat /\ 25 \in Nat
  OBVIOUS
<1> QED
  BY Zenon, <1>13, <1>14, LastInside

(***************************************************************************)
(* parse_order_delete reads inside the struct of its message.              *)
(***************************************************************************)
LEMMA InsideD == LastRead("D") \in 0 .. 21
<1>1. PICK m : m = OrderDeleteMessage
  OBVIOUS
<1>2. /\ DOMAIN m = 1 .. 5 /\ m[1] = <<"stock_locate", 2>> /\ m[2] = <<"tracking_number", 2>>
      /\ m[3] = <<"timestamp", 8>> /\ m[4] = <<"message_type", 1>>
      /\ m[5] = <<"order_reference_number", 8>>
  BY <1>1 DEF OrderDeleteMessage, MessageHeader
<1>3. 1 .. 5 = {1, 2, 3, 4, 5}
  OBVIOUS
<1>4. \A i \in 1 .. 5 : m[i][2] \in Nat
  BY <1>2, <1>3
<1>5. Ends(m)[5] <= 21
  <2>1. Ends(m)[0] = 0 /\ \A i \in 1 .. 5 : Ends(m)[i] = Ends(m)[i - 1] + m[i][2]
    BY Zenon, <1>2, <1>4, EndsAddUp
  <2> QED
    BY <1>2, <1>3, <2>1
<1>6. PICK c : c = parse_order_delete
  OBVIOUS
<1>7. "timestamp" \in DOMAIN c /\ c["timestamp"] = "timestamp"
  BY <1>6 DEF ++, Common, parse_order_delete
<1>8. \A f \in DOMAIN c : c[f] \in {"stock_locate", "tracking_number", "timestamp",
                                    "message_type", "order_reference_number"}
  BY <1>6 DEF ++, Common, parse_order_delete
<1>9. c = Conversion["D"] /\ m = Layout["D"]
  BY <1>1, <1>6 DEF Conversion, Layout
<1>10. "timestamp" \in FieldsRead("D")
  BY <1>7, <1>9 DEF FieldsRead, Zero
<1>11. FieldsRead("D") \subseteq {"stock_locate", "tracking_number", "timestamp", "message_type",
                                  "order_reference_number"}
  BY <1>8, <1>9 DEF FieldsRead
<1>12. \A f \in FieldsRead("D") : \E i \in 1 .. 5 : m[i][1] = f
  BY <1>2, <1>3, <1>11
<1>13. Covered("D", 5, 21)
  BY Zenon, <1>2, <1>4, <1>5, <1>9, <1>10, <1>12 DEF Covered
<1>14. 5 \in Nat /\ 21 \in Nat
  OBVIOUS
<1> QED
  BY Zenon, <1>13, <1>14, LastInside

(***************************************************************************)
(* parse_order_replace reads inside the struct of its message.             *)
(***************************************************************************)
LEMMA InsideU == LastRead("U") \in 0 .. 37
<1>1. PICK m : m = OrderReplaceMessage
  OBVIOUS
<1>2. /\ DOMAIN m = 1 .. 8 /\ m[1] = <<"stock_locate", 2>> /\ m[2] = <<"tracking_number", 2>>
      /\ m[3] = <<"timestamp", 8>> /\ m[4] = <<"message_type", 1>>
      /\ m[5] = <<"original_order_reference_number", 8>>
      /\ m[6] = <<"new_order_reference_number", 8>>
      /\ m[7] = <<"shares", 4>> /\ m[8] = <<"price", 4>>
  BY <1>1 DEF OrderReplaceMessage, MessageHeader
<1>3. 1 .. 8 = {1, 2, 3, 4, 5, 6, 7, 8}
  OBVIOUS
<1>4. \A i \in 1 .. 8 : m[i][2] \in Nat
  BY <1>2, <1>3
<1>5. Ends(m)[8] <= 37
  <2>1. Ends(m)[0] = 0 /\ \A i \in 1 .. 8 : Ends(m)[i] = Ends(m)[i - 1] + m[i][2]
    BY Zenon, <1>2, <1>4, EndsAddUp
  <2> QED
    BY <1>2, <1>3, <2>1
<1>6. PICK c : c = parse_order_replace
  OBVIOUS
<1>7. "timestamp" \in DOMAIN c /\ c["timestamp"] = "timestamp"
  BY <1>6 DEF ++, Common, parse_order_replace
<1>8. \A f \in DOMAIN c : c[f] \in {"stock_locate", "tracking_number", "timestamp",
                                    "message_type", "new_order_reference_number", "shares",
                                    "price"}
  BY <1>6 DEF ++, Common, parse_order_replace
<1>9. c = Conversion["U"] /\ m = Layout["U"]
  BY <1>1, <1>6 DEF Conversion, Layout
<1>10. "timestamp" \in FieldsRead("U")
  BY <1>7, <1>9 DEF FieldsRead, Zero
<1>11. FieldsRead("U") \subseteq {"stock_locate", "tracking_number", "timestamp", "message_type",
                                  "new_order_reference_number", "shares", "price"}
  BY <1>8, <1>9 DEF FieldsRead
<1>12. \A f \in FieldsRead("U") : \E i \in 1 .. 8 : m[i][1] = f
  BY <1>2, <1>3, <1>11
<1>13. Covered("U", 8, 37)
  BY Zenon, <1>2, <1>4, <1>5, <1>9, <1>10, <1>12 DEF Covered
<1>14. 8 \in Nat /\ 37 \in Nat
  OBVIOUS
<1> QED
  BY Zenon, <1>13, <1>14, LastInside

(***************************************************************************)
(* parse_trade reads inside the struct of its message.                     *)
(***************************************************************************)
LEMMA InsideP == LastRead("P") \in 0 .. 46
<1>1. PICK m : m = TradeMessage
  OBVIOUS
<1>2. /\ DOMAIN m = 1 .. 10 /\ m[1] = <<"stock_locate", 2>> /\ m[2] = <<"tracking_number", 2>>
      /\ m[3] = <<"timestamp", 8>> /\ m[4] = <<"message_type", 1>>
      /\ m[5] = <<"order_reference_number", 8>>
      /\ m[6] = <<"buy_sell_indicator", 1>> /\ m[7] = <<"shares", 4>>
      /\ m[8] = <<"stock", 8>> /\ m[9] = <<"price", 4>>
      /\ m[10] = <<"match_number", 8>>
  BY <1>1 DEF TradeMessage, MessageHeader
<1>3. 1 .. 10 = {1, 2, 3, 4, 5, 6, 7, 8, 9, 10}
  OBVIOUS
<1>4. \A i \in 1 .. 10 : m[i][2] \in Nat
  BY <1>2, <1>3
<1>5. Ends(m)[10] <= 46
  <2>1. Ends(m)[0] = 0 /\ \A i \in 1 .. 10 : Ends(m)[i] = Ends(m)[i - 1] + m[i][2]
    BY Zenon, <1>2, <1>4, EndsAddUp
  <2> QED
    BY <1>2, <1>3, <2>1
<1>6. PICK c : c = parse_trade
  OBVIOUS
<1>7. "timestamp" \in DOMAIN c /\ c["timestamp"] = "timestamp"
  BY <1>6 DEF ++, Common, parse_trade, parse_add_order
<1>8. \A f \in DOMAIN c : c[f] \in {"stock_locate", "tracking_number", "timestamp",
                                    "message_type", "order_reference_number",
                                    "buy_sell_indicator", "shares", "price"}
  BY <1>6 DEF ++, Common, parse_trade, parse_add_order
<1>9. c = Conversion["P"] /\ m = Layout["P"]
  BY <1>1, <1>6 DEF Conversion, Layout
<1>10. "timestamp" \in FieldsRead("P")
  BY <1>7, <1>9 DEF FieldsRead, Zero
<1>11. FieldsRead("P") \subseteq {"stock_locate", "tracking_number", "timestamp", "message_type",
                                  "order_reference_number", "buy_sell_indicator", "shares",
                                  "price"}
  BY <1>8, <1>9 DEF FieldsRead
<1>12. \A f \in FieldsRead("P") : \E i \in 1 .. 10 : m[i][1] = f
  BY <1>2, <1>3, <1>11
<1>13. Covered("P", 10, 46)
  BY Zenon, <1>2, <1>4, <1>5, <1>9, <1>10, <1>12 DEF Covered
<1>14. 10 \in Nat /\ 46 \in Nat
  OBVIOUS
<1> QED
  BY Zenon, <1>13, <1>14, LastInside

(***************************************************************************)
(* The switch of parse_message passes on a message only if it has          *)
(* get_message_size bytes, and no conversion reads behind them.            *)
(***************************************************************************)
THEOREM ConversionsFit ==
  \A t \in Supported : get_message_size[t] \in Nat /\ LastRead(t) \in 0 .. get_message_size[t]
<1>1. Supported = {"S", "R", "A", "F", "E", "C", "X", "D", "U", "P"}
  BY DEF Supported, Conversion
<1>2. /\ get_message_size["S"] = 14 /\ get_message_size["R"] = 41 /\ get_message_size["A"] = 38
      /\ get_message_size["F"] = 42 /\ get_message_size["E"] = 33 /\ get_message_size["C"] = 38
      /\ get_message_size["X"] = 25 /\ get_message_size["D"] = 21 /\ get_message_size["U"] = 37
      /\ get_message_size["P"] = 46
  BY DEF get_message_size
<1> QED
  BY <1>1, <1>2, InsideS, InsideR, InsideA, InsideF, InsideE, InsideC, InsideX, InsideD,
     InsideU, InsideP

-----------------------------------------------------------------------------
(***************************************************************************)
(* Min and Max of two numbers.                                             *)
(***************************************************************************)
LEMMA MinMax ==
  ASSUME NEW a \in Nat, NEW b \in Nat
  PROVE  /\ Min({a, b}) = IF a <= b THEN a ELSE b
         /\ Max({a, b}) = IF a >= b THEN a ELSE b
<1>1. \E x \in {a, b} : \A y \in {a, b} : x <= y
  OBVIOUS
<1>2. \E x \in {a, b} : \A y \in {a, b} : x >= y
  OBVIOUS
<1>3. Min({a, b}) \in {a, b} /\ \A y \in {a, b} : Min({a, b}) <= y
  BY <1>1 DEF Min
<1>4. Max({a, b}) \in {a, b} /\ \A y \in {a, b} : Max({a, b}) >= y
  BY <1>2 DEF Max
<1> QED
  BY <1>3, <1>4

(***************************************************************************)
(* A packet as parse sees it: its length is cut, its frames are those      *)
(* sent; a length field is a natural number; where one in range ends,      *)
(* either the next frame starts or there is no room for one, and no frame  *)
(* starts in between.                                                      *)
(***************************************************************************)
LEMMA PacketFacts ==
  ASSUME NEW p \in Packets, NEW r, r = Received(p)
  PROVE  /\ r.length \in Nat /\ DOMAIN r.frame \subseteq Nat
         /\ \A o \in DOMAIN r.frame : msg_length(r.frame[o]) \in Nat
         /\ r.length >= 3 => 0 \in DOMAIN r.frame
         /\ \A o \in DOMAIN r.frame :
              msg_length(r.frame[o]) >= 3 =>
                /\ o + msg_length(r.frame[o]) + 3 <= r.length =>
                     o + msg_length(r.frame[o]) \in DOMAIN r.frame
                /\ \A q \in DOMAIN r.frame : q > o => q >= o + msg_length(r.frame[o])
<1>1. p.length \in Nat /\ MAX_PACKET_SIZE \in Nat /\ DOMAIN p = {"length", "frame", "made"}
  BY ItchAssumption, FrameAssumption
<1>2. r.length = Min({p.length, MAX_PACKET_SIZE}) /\ r.frame = p.frame
  BY <1>1 DEF Received
<1>3. r.length \in Nat /\ r.length <= p.length
  BY <1>1, <1>2, MinMax
<1>4. DOMAIN r.frame \subseteq Nat
  BY <1>2, ItchAssumption
<1>5. \A o \in DOMAIN r.frame : msg_length(r.frame[o]) \in Nat
  <2> TAKE o \in DOMAIN r.frame
  <2>1. r.frame[o].len \in Byte \X Byte
    BY <1>2, ItchAssumption
  <2>2. PICK a \in Byte, b \in Byte : r.frame[o].len = <<a, b>>
    BY <2>1
  <2>3. a \in Nat /\ b \in Nat
    BY DEF Byte
  <2> QED
    BY <2>2, <2>3 DEF msg_length, read_u16_be
<1>6. r.length >= 3 => 0 \in DOMAIN r.frame
  BY <1>1, <1>2, <1>3, FrameAssumption
<1>7. ASSUME NEW o \in DOMAIN r.frame, msg_length(r.frame[o]) >= 3
      PROVE  /\ o + msg_length(r.frame[o]) + 3 <= r.length =>
                     o + msg_length(r.frame[o]) \in DOMAIN r.frame
             /\ \A q \in DOMAIN r.frame : q > o => q >= o + msg_length(r.frame[o])
  <2> DEFINE len == msg_length(r.frame[o])
  <2>1. o \in Nat /\ len \in Nat /\ len >= 3
    BY <1>4, <1>5, <1>7
  <2>2. o + len >= o + 3 => /\ o + len + 3 <= p.length => o + len \in DOMAIN p.frame
                            /\ \A q \in DOMAIN p.frame : q > o => q >= o + len
    BY <1>2, FrameAssumption
  <2> HIDE DEF len
  <2>3. /\ o + len + 3 <= p.length => o + len \in DOMAIN p.frame
        /\ \A q \in DOMAIN p.frame : q > o => q >= o + len
    BY <2>1, <2>2
  <2>4. /\ o + len + 3 <= r.length => o + len \in DOMAIN r.frame
        /\ \A q \in DOMAIN r.frame : q > o => q >= o + len
    BY <1>1, <1>2, <1>3, <2>1, <2>3
  <2> QED
    BY <2>4 DEF len
<1> QED
  BY <1>3, <1>4, <1>5, <1>6, <1>7

(***************************************************************************)
(* A packet has finitely many frames that fit.                             *)
(***************************************************************************)
LEMMA GoodFinite ==
  ASSUME NEW p \in Packets, NEW r, r = Received(p), NEW o
  PROVE  /\ IsFiniteSet(Good(r)) /\ Cardinality(Good(r)) \in Nat
         /\ GoodBefore(r, o) \subseteq Good(r) /\ IsFiniteSet(GoodBefore(r, o))
         /\ Cardinality(GoodBefore(r, o)) \in Nat
         /\ Cardinality(GoodBefore(r, o)) <= Cardinality(Good(r))
<1>1. r.length \in Nat /\ DOMAIN r.frame \subseteq Nat
      /\ \A q \in DOMAIN r.frame : msg_length(r.frame[q]) \in Nat
  BY PacketFacts
<1>2. Good(r) \subseteq 0 .. r.length
  <2> SUFFICES ASSUME NEW q \in Good(r) PROVE q \in 0 .. r.length
    OBVIOUS
  <2>1. q \in DOMAIN r.frame /\ q \in Nat
    BY <1>1 DEF Good, Framed
  <2>2. Fits(r, q)
    BY <2>1 DEF Good, Framed
  <2> QED
    BY <1>1, <2>1, <2>2 DEF Fits
<1>3. IsFiniteSet(0 .. r.length)
  BY <1>1, FS_Interval
<1>4. IsFiniteSet(Good(r))
  BY Zenon, <1>2, <1>3, FS_Subset
<1>5. GoodBefore(r, o) \subseteq Good(r)
  BY DEF GoodBefore
<1> QED
  BY <1>4, <1>5, FS_Subset, FS_CardinalityType

(***************************************************************************)
(* How the convertible frames in front of offset grow in one round: by the *)
(* frame at offset, if it is converted.                                    *)
(***************************************************************************)
LEMMA GoodGrows ==
  ASSUME NEW p \in Packets, NEW r, r = Received(p), NEW o \in DOMAIN r.frame,
         \A q \in DOMAIN r.frame : q < o => Fits(r, q), Fits(r, o)
  PROVE  LET end == o + msg_length(r.frame[o])
         IN  /\ \A q \in DOMAIN r.frame : q < end => Fits(r, q)
             /\ GoodBefore(r, end) = GoodBefore(r, o) \cup (IF Converted(r.frame[o]) THEN {o} ELSE {})
             /\ Cardinality(GoodBefore(r, end)) =
                  Cardinality(GoodBefore(r, o)) + (IF Converted(r.frame[o]) THEN 1 ELSE 0)
             /\ Converted(r.frame[o]) => o \in GoodBefore(r, end)
             /\ GoodBefore(r, o) \subseteq GoodBefore(r, end)
<1> DEFINE len == msg_length(r.frame[o])
           end == o + len
<1>1. /\ DOMAIN r.frame \subseteq Nat /\ o \in Nat /\ len \in Nat /\ len >= 3
      /\ \A q \in DOMAIN r.frame : q > o => q >= end
  BY PacketFacts DEF Fits
<1> HIDE DEF len
<1>2. \A q \in DOMAIN r.frame : q < end <=> q < o \/ q = o
  BY <1>1
<1> HIDE DEF end
<1>3. \A q \in DOMAIN r.frame : q < end => Fits(r, q)
  BY <1>2
<1>4. o \in Framed(r)
  <2> SUFFICES ASSUME NEW q \in DOMAIN r.frame, q <= o PROVE Fits(r, q)
    BY DEF Framed
  <2>1. q < o \/ q = o
    BY <1>1
  <2> QED
    BY <2>1
<1>5. o \in Good(r) <=> Converted(r.frame[o])
  BY <1>4 DEF Good
<1>6. Good(r) \subseteq DOMAIN r.frame
  BY DEF Good, Framed
<1>7. GoodBefore(r, end) = {q \in Good(r) : q < o \/ q = o}
  BY <1>2, <1>6 DEF GoodBefore
<1>8. GoodBefore(r, end) = GoodBefore(r, o) \cup (IF Converted(r.frame[o]) THEN {o} ELSE {})
  BY <1>5, <1>7 DEF GoodBefore
<1>9. o \notin GoodBefore(r, o)
  BY <1>1 DEF GoodBefore
<1>10. IsFiniteSet(GoodBefore(r, o)) /\ Cardinality(GoodBefore(r, o)) \in Nat
  BY GoodFinite
<1>11. Cardinality(GoodBefore(r, end)) =
         Cardinality(GoodBefore(r, o)) + (IF Converted(r.frame[o]) THEN 1 ELSE 0)
  <2>1. CASE Converted(r.frame[o])
    <3>1. GoodBefore(r, end) = GoodBefore(r, o) \cup {o}
      BY <1>8, <2>1
    <3> QED
      BY Zenon, <3>1, <1>9, <1>10, <2>1, FS_AddElement
  <2>2. CASE ~ Converted(r.frame[o])
    <3>1. GoodBefore(r, end) = GoodBefore(r, o)
      BY <1>8, <2>2
    <3> QED
      BY <3>1, <1>10, <2>2
  <2> QED
    BY <2>1, <2>2
<1>12. /\ Converted(r.frame[o]) => o \in GoodBefore(r, end)
       /\ GoodBefore(r, o) \subseteq GoodBefore(r, end)
  BY <1>8
<1> QED
  BY <1>3, <1>8, <1>11, <1>12 DEF end, len

(***************************************************************************)
(* Once no frame at offset or behind it fits, the convertible frames in    *)
(* front of offset are all that the packet has.                            *)
(***************************************************************************)
LEMMA GoodComplete ==
  ASSUME NEW p \in Packets, NEW r, r = Received(p), NEW o \in Nat,
         \/ r.length < o + 3
         \/ o \in DOMAIN r.frame /\ ~ Fits(r, o)
  PROVE  GoodBefore(r, o) = Good(r)
<1>1. /\ r.length \in Nat /\ DOMAIN r.frame \subseteq Nat
      /\ \A q \in DOMAIN r.frame : msg_length(r.frame[q]) \in Nat
  BY PacketFacts
<1>2. ASSUME NEW q \in Good(r) PROVE q < o
  <2>1. /\ q \in DOMAIN r.frame /\ q \in Nat
        /\ \A x \in DOMAIN r.frame : x <= q => Fits(r, x)
    BY <1>1, <1>2 DEF Good, Framed
  <2>2. Fits(r, q)
    BY <2>1
  <2>3. q + 3 <= r.length
    BY <1>1, <2>1, <2>2 DEF Fits
  <2>4. SUFFICES ASSUME o <= q PROVE FALSE
    BY <2>1
  <2>5. CASE r.length < o + 3
    BY <1>1, <2>1, <2>3, <2>4, <2>5
  <2>6. CASE o \in DOMAIN r.frame /\ ~ Fits(r, o)
    BY <2>1, <2>4, <2>6
  <2> QED
    BY <2>5, <2>6
<1> QED
  BY <1>2 DEF GoodBefore

(***************************************************************************)
(* Two convertible frames never have the same rank.                        *)
(***************************************************************************)
LEMMA RankUnique ==
  ASSUME NEW p \in Packets, NEW r, r = Received(p), NEW x \in Good(r), NEW y \in Good(r),
         Cardinality(GoodBefore(r, x)) = Cardinality(GoodBefore(r, y))
  PROVE  x = y
<1>1. x \in Nat /\ y \in Nat /\ Good(r) \subseteq Nat
  BY PacketFacts DEF Good, Framed
<1>2. ASSUME NEW a \in Good(r), NEW b \in Good(r), a < b
      PROVE  Cardinality(GoodBefore(r, a)) # Cardinality(GoodBefore(r, b))
  <2>1. a \in Nat /\ b \in Nat /\ Good(r) \subseteq Nat
    BY <1>1
  <2>2. GoodBefore(r, a) \subseteq GoodBefore(r, b)
    BY <2>1, <1>2 DEF GoodBefore
  <2>3. a \in GoodBefore(r, b) /\ a \notin GoodBefore(r, a)
    BY <2>1, <1>2 DEF GoodBefore
  <2>4. IsFiniteSet(GoodBefore(r, b)) /\ GoodBefore(r, a) # GoodBefore(r, b)
    BY <2>3, GoodFinite
  <2> QED
    BY <2>2, <2>4, FS_Subset
<1>3. x < y \/ y < x \/ x = y
  BY <1>1
<1> QED
  BY <1>2, <1>3

(***************************************************************************)
(* parse_message reads no byte behind the message, whatever its length     *)
(* field declares and whatever its type is.                                *)
(***************************************************************************)
LEMMA ReadsInside ==
  ASSUME NEW frame, msg_length(frame) \in Nat, msg_length(frame) >= 3
  PROVE  ReadTo(frame) \in Nat /\ 2 + ReadTo(frame) <= msg_length(frame)
<1>1. CASE TooShort(msg_length(frame))
  BY <1>1 DEF ReadTo
<1>2. CASE ~ TooShort(msg_length(frame)) /\ Converted(frame)
  <2>1. frame.type \in Supported /\ msg_length(frame) - 2 >= get_message_size[frame.type]
    BY <1>2 DEF Converted
  <2>2. get_message_size[frame.type] \in Nat /\ LastRead(frame.type) \in 0 .. get_message_size[frame.type]
    BY <2>1, ConversionsFit
  <2>3. ReadTo(frame) = LastRead(frame.type)
    BY <1>2 DEF ReadTo
  <2> QED
    BY <2>1, <2>2, <2>3
<1>3. CASE ~ TooShort(msg_length(frame)) /\ ~ Converted(frame)
  BY <1>3 DEF ReadTo, TooShort
<1> QED
  BY <1>1, <1>2, <1>3

(***************************************************************************)
(* The state in which a round of the loop starts: offset is at a frame.    *)
(***************************************************************************)
LEMMA RoundFacts ==
  ASSUME Inv, pc = "loop", MoreRoom
  PROVE  \E p \in Packets :
           /\ pkt = Received(p)
           /\ offset \in DOMAIN pkt.frame
           /\ msg_length(pkt.frame[offset]) \in Nat
           /\ GoodLength(msg_length(pkt.frame[offset])) <=> Fits(pkt, offset)
<1>1. PICK p \in Packets : pkt = Received(p)
  BY DEF Inv, AtWork
<1>2. offset \in DOMAIN pkt.frame /\ offset + remaining = pkt.length
      /\ offset \in Nat /\ remaining \in Nat
  BY DEF Inv, InLoop, MoreRoom, TypeOK
<1>3. msg_length(pkt.frame[offset]) \in Nat /\ pkt.length \in Nat
  BY <1>1, <1>2, PacketFacts
<1>4. GoodLength(msg_length(pkt.frame[offset])) <=> Fits(pkt, offset)
  BY <1>2, <1>3 DEF GoodLength, Fits
<1> QED
  BY <1>1, <1>2, <1>3, <1>4

(***************************************************************************)
(* The fields that each conversion assigns.                                *)
(***************************************************************************)
LEMMA AssignedFields ==
  /\ DOMAIN parse_system_event = {"type", "instrument_id", "timestamp", "sequence"}
  /\ DOMAIN parse_stock_directory = {"type", "instrument_id", "timestamp", "sequence"}
  /\ DOMAIN parse_add_order = {"type", "instrument_id", "timestamp", "sequence",
                               "order_id", "side", "quantity", "price"}
  /\ DOMAIN parse_order_executed = {"type", "instrument_id", "timestamp", "sequence",
                                    "order_id", "quantity"}
  /\ DOMAIN parse_order_executed_with_price = {"type", "instrument_id", "timestamp", "sequence",
                                               "order_id", "quantity", "price"}
  /\ DOMAIN parse_order_cancel = {"type", "instrument_id", "timestamp", "sequence",
                                  "order_id", "quantity"}
  /\ DOMAIN parse_order_delete = {"type", "instrument_id", "timestamp", "sequence", "order_id"}
  /\ DOMAIN parse_order_replace = {"type", "instrument_id", "timestamp", "sequence",
                                   "order_id", "quantity", "price"}
<1>1. DOMAIN Common = {"type", "instrument_id", "timestamp", "sequence"}
  BY DEF Common
<1> QED
  BY <1>1 DEF ++, parse_system_event, parse_stock_directory, parse_add_order, parse_order_executed,
         parse_order_executed_with_price, parse_order_cancel, parse_order_delete, parse_order_replace

(***************************************************************************)
(* They are fields of NormalizedMessage.                                   *)
(***************************************************************************)
LEMMA AssignedInside ==
  ASSUME NEW t \in Supported
  PROVE  Assigned(t) \subseteq NormalizedFields
<1>1. t \in {"S", "R", "A", "F", "E", "C", "X", "D", "U", "P"}
  BY DEF Supported, Conversion
<1> QED
  BY <1>1, AssignedFields DEF Assigned, Conversion, parse_add_order_mpid, parse_trade, NormalizedFields

(***************************************************************************)
(* The output slot that a conversion has written: every field it assigns   *)
(* is that of the message.                                                 *)
(***************************************************************************)
LEMMA SlotWritten ==
  ASSUME TypeOK, NEW slot \in [NormalizedFields -> Nat \X Nat], NEW frame, Converted(frame)
  PROVE  /\ Written(slot, frame) \in [NormalizedFields -> Nat \X Nat]
         /\ \A f \in Assigned(frame.type) : Written(slot, frame)[f] = <<calls, offset>>
<1>1. calls \in Nat /\ offset \in Nat
  BY DEF TypeOK
<1>2. Assigned(frame.type) \subseteq NormalizedFields
  BY AssignedInside DEF Converted
<1>4. <<calls, offset>> \in Nat \X Nat
  BY <1>1
<1>5. Written(slot, frame) \in [NormalizedFields -> Nat \X Nat]
  BY <1>4 DEF Written
<1>6. \A f \in Assigned(frame.type) : Written(slot, frame)[f] = <<calls, offset>>
  BY <1>2 DEF Written
<1> QED
  BY <1>5, <1>6

-----------------------------------------------------------------------------
(***************************************************************************)
(* Every step keeps the types, the array bound of messages_parsed among    *)
(* them.                                                                   *)
(***************************************************************************)
LEMMA TypeStep ==
  ASSUME Inv, [Next]_vars
  PROVE  TypeOK'
<1> USE ItchAssumption
<1> DEFINE Slots == [NormalizedFields -> Nat \X Nat]
<1>1. TypeOK
  BY DEF Inv
<1>2. ASSUME NEW p \in Packets, Call(p) PROVE TypeOK'
  <2>1. pkt'.length \in Nat
    BY <1>2, PacketFacts DEF Call
  <2> QED
    BY <1>1, <1>2, <2>1 DEF Call, TypeOK
<1>3. CASE NextMessage
  <2> DEFINE frame == pkt.frame[offset]
  <2>1. msg_length(frame) \in Nat /\ msg_length(frame) >= 3 /\ msg_length(frame) <= remaining
        /\ messages_parsed < max_messages
    BY <1>3, RoundFacts DEF NextMessage, GoodLength, MoreRoom
  <2>2. ReadTo(frame) \in Nat
    BY <2>1, ReadsInside
  <2>3. messages' = IF Converted(frame) THEN [messages EXCEPT ![messages_parsed] = Written(@, frame)]
                    ELSE messages
    BY <1>3 DEF NextMessage
  <2>4. /\ messages_parsed' = messages_parsed + IF Converted(frame) THEN 1 ELSE 0
        /\ parse_errors_' = IF TooShort(msg_length(frame)) THEN parse_errors_ + 1 ELSE parse_errors_
        /\ reach' = Max({reach, offset + 2 + ReadTo(frame)})
        /\ offset' = offset + msg_length(frame)
        /\ remaining' = remaining - msg_length(frame)
        /\ UNCHANGED <<pc, messages_parsed_, e_stats, calls>>
    BY <1>3 DEF NextMessage
  <2> HIDE DEF frame
  <2>5. messages_parsed \in 0 .. max_messages - 1 /\ offset \in Nat /\ remaining \in Nat /\ reach \in Nat
    BY <1>1, <2>1 DEF TypeOK
  <2>6. messages' \in [0 .. max_messages - 1 -> Slots]
    <3>1. messages \in [0 .. max_messages - 1 -> Slots]
      BY <1>1 DEF TypeOK
    <3>2. CASE Converted(frame)
      <4>1. messages[messages_parsed] \in Slots
        BY <3>1, <2>5
      <4>2. Written(messages[messages_parsed], frame) \in Slots
        BY <4>1, <3>2, <1>1, SlotWritten
      <4> HIDE DEF Slots
      <4> QED
        BY Zenon, <2>3, <3>1, <3>2, <4>2
    <3> QED
      BY <2>3, <3>1, <3>2
  <2>7. reach' \in Nat
    <3>1. offset + 2 + ReadTo(frame) \in Nat
      BY <2>2, <2>5
    <3> QED
      BY Zenon, <2>4, <2>5, <3>1, MinMax
  <2>8. offset' \in Nat /\ remaining' \in Nat
    BY <2>1, <2>4, <2>5
  <2>9. messages_parsed' \in 0 .. max_messages
    BY <2>4, <2>5
  <2>10. parse_errors_' \in Nat
    BY <1>1, <2>4 DEF TypeOK
  <2> QED
    BY Zenon, <1>1, <2>4, <2>6, <2>7, <2>8, <2>9, <2>10 DEF TypeOK
<1>4. CASE BadLength
  <2>1. offset + 2 \in Nat /\ reach \in Nat /\ reach' = Max({reach, offset + 2})
    BY <1>1, <1>4 DEF BadLength, TypeOK
  <2>2. reach' \in Nat
    BY <2>1, MinMax
  <2>3. messages_parsed_ + messages_parsed \in Nat /\ parse_errors_ + 1 \in Nat
    BY <1>1 DEF TypeOK
  <2> QED
    BY <1>1, <1>4, <2>2, <2>3 DEF BadLength, LeaveLoop, TypeOK
<1>5. CASE LoopEnds
  <2>1. messages_parsed_ + messages_parsed \in Nat
    BY <1>1 DEF TypeOK
  <2> QED
    BY <1>1, <1>5, <2>1 DEF LoopEnds, LeaveLoop, TypeOK
<1>6. ASSUME NEW ns \in Latencies, Account(ns) PROVE TypeOK'
  <2>1. ns \in Nat /\ messages_parsed \in Nat
    BY <1>1 DEF TypeOK
  <2>2. e_stats' \in [messages_parsed : Nat, messages_dispatched : Nat, parse_errors : Nat,
                      min_latency_ns : Nat, max_latency_ns : Nat, total_latency_ns : Nat]
    <3> DEFINE E == [messages_parsed : Nat, messages_dispatched : Nat, parse_errors : Nat,
                     min_latency_ns : Nat, max_latency_ns : Nat, total_latency_ns : Nat]
    <3>1. e_stats \in E
      BY <1>1 DEF TypeOK
    <3>2. PICK s : s = [e_stats EXCEPT
                    !.messages_parsed = @ + messages_parsed,
                    !.messages_dispatched = @ + messages_parsed,
                    !.parse_errors = @ + IF messages_parsed = 0 THEN 1 ELSE 0]
      OBVIOUS
    <3>3. s \in E
      <4>1. /\ e_stats.messages_parsed + messages_parsed \in Nat
            /\ e_stats.messages_dispatched + messages_parsed \in Nat
            /\ e_stats.parse_errors + (IF messages_parsed = 0 THEN 1 ELSE 0) \in Nat
        BY <2>1, <3>1
      <4>2. PICK x \in Nat, y \in Nat, z \in Nat :
              s = [e_stats EXCEPT !.messages_parsed = x, !.messages_dispatched = y, !.parse_errors = z]
        BY Zenon, <3>2, <4>1
      <4> QED
        BY Zenon, <3>1, <4>2
    <3>4. e_stats' = update_latency(s, ns)
      BY <1>6, <3>2 DEF Account
    <3> QED
      <4>1. /\ (IF ns < s.min_latency_ns THEN ns ELSE s.min_latency_ns) \in Nat
            /\ (IF ns > s.max_latency_ns THEN ns ELSE s.max_latency_ns) \in Nat
            /\ s.total_latency_ns + ns \in Nat
        BY <2>1, <3>3
      <4>2. PICK x \in Nat, y \in Nat, z \in Nat :
              e_stats' = [s EXCEPT !.min_latency_ns = x, !.max_latency_ns = y, !.total_latency_ns = z]
        BY Zenon, <3>4, <4>1 DEF update_latency
      <4> QED
        BY Zenon, <3>3, <4>2
  <2> QED
    BY <1>1, <1>6, <2>2 DEF Account, TypeOK
<1>7. CASE reset
  BY <1>1, <1>7 DEF reset, TypeOK, Default
<1>8. CASE UNCHANGED vars
  BY <1>1, <1>8 DEF vars, TypeOK
<1> QED
  BY <1>2, <1>3, <1>4, <1>5, <1>6, <1>7, <1>8 DEF Next, parse

(***************************************************************************)
(* A round that passes a message by or converts it: what was written stays *)
(* and a converted message comes into the next slot.                       *)
(***************************************************************************)
LEMMA RoundStep ==
  ASSUME Inv, NextMessage
  PROVE  InLoop'
<1> DEFINE frame == pkt.frame[offset]
           len == msg_length(frame)
<1>1. TypeOK /\ pc = "loop" /\ MoreRoom
  BY DEF Inv, NextMessage
<1>2. PICK p \in Packets : /\ pkt = Received(p) /\ offset \in DOMAIN pkt.frame /\ len \in Nat
                           /\ GoodLength(len) <=> Fits(pkt, offset)
  BY <1>1, RoundFacts
<1>3. /\ offset + remaining = pkt.length /\ reach <= offset
      /\ \A q \in DOMAIN pkt.frame : q < offset => Fits(pkt, q)
      /\ messages_parsed = Cardinality(GoodBefore(pkt, offset))
      /\ \A j \in 0 .. messages_parsed - 1 : \E o \in GoodBefore(pkt, offset) : InSlot(j, o)
  BY <1>1 DEF Inv, InLoop
<1>4. /\ GoodLength(len)
      /\ messages' = IF Converted(frame) THEN [messages EXCEPT ![messages_parsed] = Written(@, frame)]
                     ELSE messages
      /\ messages_parsed' = messages_parsed + IF Converted(frame) THEN 1 ELSE 0
      /\ reach' = Max({reach, offset + 2 + ReadTo(frame)})
      /\ offset' = offset + len /\ remaining' = remaining - len
      /\ pkt' = pkt /\ calls' = calls
  BY DEF NextMessage
<1>5. PICK e : e = offset + len
  BY SMTT(30)
<1>6. /\ \A q \in DOMAIN pkt.frame : q < e => Fits(pkt, q)
      /\ Cardinality(GoodBefore(pkt, e)) =
           Cardinality(GoodBefore(pkt, offset)) + (IF Converted(frame) THEN 1 ELSE 0)
      /\ Converted(frame) => offset \in GoodBefore(pkt, e)
      /\ GoodBefore(pkt, offset) \subseteq GoodBefore(pkt, e)
  <2>1. /\ pkt = Received(p) /\ offset \in DOMAIN pkt.frame /\ Fits(pkt, offset)
        /\ \A q \in DOMAIN pkt.frame : q < offset => Fits(pkt, q)
    BY Zenon, <1>2, <1>3, <1>4
  <2>2. e = offset + msg_length(pkt.frame[offset])
    BY Zenon, <1>5
  <2> QED BY Zenon, <2>1, <2>2, GoodGrows
<1>7. /\ pkt.length \in Nat
      /\ e + 3 <= pkt.length => e \in DOMAIN pkt.frame
  BY <1>2, <1>4, <1>5, PacketFacts DEF GoodLength
<1>8. len >= 3 /\ len <= remaining /\ messages_parsed \in 0 .. max_messages - 1 /\ max_messages \in Nat
      /\ offset \in Nat /\ remaining \in Nat /\ reach \in Nat
  BY <1>1, <1>4, ItchAssumption DEF GoodLength, MoreRoom, TypeOK
<1>9. ReadTo(frame) \in Nat /\ 2 + ReadTo(frame) <= len
  BY <1>2, <1>8, ReadsInside
<1>10. messages \in [0 .. max_messages - 1 -> [NormalizedFields -> Nat \X Nat]]
  BY <1>1 DEF TypeOK
<1>11. Converted(frame) => \A f \in Assigned(frame.type) :
                               Written(messages[messages_parsed], frame)[f] = <<calls, offset>>
  BY <1>1, <1>8, <1>10, SlotWritten
<1> HIDE DEF len, frame
<1>12. offset' + remaining' = pkt'.length
  BY <1>2, <1>3, <1>4, <1>7, <1>8
<1>13. reach' <= offset'
  <2>1. offset + 2 + ReadTo(frame) \in Nat
    BY <1>8, <1>9
  <2>2. reach' = reach \/ reach' = offset + 2 + ReadTo(frame)
    BY Zenon, <1>4, <1>8, <2>1, MinMax
  <2>3. reach <= offset + len /\ offset + 2 + ReadTo(frame) <= offset + len
    BY SMTT(30), <1>2, <1>3, <1>8, <1>9
  <2> QED
    BY <2>2, <2>3, <1>4
<1>14. remaining' >= 3 => offset' \in DOMAIN pkt'.frame
  <2>1. remaining' >= 3 => e + 3 <= pkt.length
    <3>1. offset + remaining = pkt.length /\ remaining' = remaining - len /\ e = offset + len
      BY Zenon, <1>3, <1>4, <1>5 DEF len, frame
    <3>2. offset \in Nat /\ remaining \in Nat /\ len \in Nat
      BY Zenon, <1>2, <1>8 DEF len, frame
    <3> QED
      BY ONLY <3>1, <3>2
  <2> QED
    BY Zenon, <2>1, <1>4, <1>5, <1>7
<1>15. \A q \in DOMAIN pkt'.frame : q < offset' => Fits(pkt', q)
  BY <1>4, <1>5, <1>6
<1>16. messages_parsed' = Cardinality(GoodBefore(pkt', offset'))
  BY <1>3, <1>4, <1>5, <1>6
<1>17. ASSUME NEW j \in 0 .. messages_parsed' - 1
       PROVE  \E o \in GoodBefore(pkt', offset') : InSlot(j, o)'
  <2>1. CASE j \in 0 .. messages_parsed - 1
    <3>1. PICK o \in GoodBefore(pkt, offset) : InSlot(j, o)
      BY <1>3, <2>1
    <3>2. j # messages_parsed
      BY <1>8, <2>1
    <3>3. messages'[j] = messages[j]
      BY <1>4, <1>8, <1>10, <2>1, <3>2
    <3>4. InSlot(j, o)'
      BY <3>1, <3>3, <1>4 DEF InSlot
    <3> QED
      BY <3>1, <3>4, <1>4, <1>5, <1>6
  <2>2. CASE j \notin 0 .. messages_parsed - 1
    <3>1. Converted(frame) /\ j = messages_parsed
      BY <1>4, <1>8, <2>2
    <3>2. messages'[j] = Written(messages[messages_parsed], frame)
      BY <1>4, <1>8, <1>10, <3>1
    <3>3. PICK o : o = offset
      OBVIOUS
    <3>4. InSlot(j, o)'
      BY <3>1, <3>2, <3>3, <1>3, <1>4, <1>11 DEF InSlot, frame
    <3> QED
      BY <3>1, <3>3, <3>4, <1>4, <1>5, <1>6
  <2> QED
    BY Zenon, <2>1, <2>2
<1> QED
  BY <1>12, <1>13, <1>14, <1>15, <1>16, <1>17 DEF InLoop

(***************************************************************************)
(* Leaving the loop, by a bad length field, for want of bytes or of room:  *)
(* the output is complete.                                                 *)
(***************************************************************************)
LEMMA LeaveStep ==
  ASSUME Inv, BadLength \/ LoopEnds
  PROVE  AtReturn'
<1>1. TypeOK /\ pc = "loop" /\ offset \in Nat /\ remaining \in Nat /\ reach \in Nat
      /\ messages_parsed \in 0 .. max_messages /\ max_messages \in Nat
  BY ItchAssumption DEF Inv, BadLength, LoopEnds, TypeOK
<1>2. PICK p \in Packets : pkt = Received(p)
  BY <1>1 DEF Inv, AtWork
<1>3. /\ offset + remaining = pkt.length /\ reach <= offset
      /\ messages_parsed = Cardinality(GoodBefore(pkt, offset))
      /\ \A j \in 0 .. messages_parsed - 1 : \E o \in GoodBefore(pkt, offset) : InSlot(j, o)
  BY <1>1 DEF Inv, InLoop
<1>4. pkt.length \in Nat
  BY <1>2, PacketFacts
<1>5. UNCHANGED <<pkt, messages_parsed, messages, calls>>
  BY DEF BadLength, LoopEnds, LeaveLoop
<1>6. /\ GoodBefore(pkt, offset) \subseteq Good(pkt)
      /\ Cardinality(Good(pkt)) \in Nat
      /\ Cardinality(GoodBefore(pkt, offset)) <= Cardinality(Good(pkt))
  BY <1>2, GoodFinite
<1>7. \/ messages_parsed = max_messages
      \/ pkt.length < offset + 3
      \/ offset \in DOMAIN pkt.frame /\ ~ Fits(pkt, offset)
  <2>1. CASE BadLength
    BY <1>1, <2>1, RoundFacts DEF BadLength
  <2>2. CASE LoopEnds
    <3>1. ~ (remaining >= 3) \/ ~ (messages_parsed < max_messages)
      BY <2>2 DEF LoopEnds, MoreRoom
    <3> QED
      BY <3>1, <1>1, <1>3, <1>4
  <2> QED
    BY <2>1, <2>2
<1>8. messages_parsed = Min({Cardinality(Good(pkt)), max_messages})
  <2>1. CASE messages_parsed = max_messages
    BY <2>1, <1>1, <1>3, <1>6, MinMax
  <2>2. CASE messages_parsed # max_messages
    <3>1. GoodBefore(pkt, offset) = Good(pkt)
      BY <1>1, <1>2, <1>7, <2>2, GoodComplete
    <3>2. messages_parsed = Cardinality(Good(pkt))
      BY <3>1, <1>3
    <3> QED
      BY <3>2, <1>1, <1>6, MinMax
  <2> QED
    BY <2>1, <2>2
<1>9. reach' <= pkt'.length
  <2>1. CASE BadLength
    <3>1. remaining >= 3 /\ reach' = Max({reach, offset + 2})
      BY <2>1 DEF BadLength, MoreRoom
    <3>2. reach' = reach \/ reach' = offset + 2
      BY <3>1, <1>1, MinMax
    <3> QED
      BY <3>1, <3>2, <1>1, <1>3, <1>4, <1>5
  <2>2. CASE LoopEnds
    <3>1. reach' = reach
      BY <2>2 DEF LoopEnds
    <3> QED
      BY <3>1, <1>1, <1>3, <1>4, <1>5
  <2> QED
    BY <2>1, <2>2
<1>10. ASSUME NEW j \in 0 .. messages_parsed' - 1
       PROVE  \E o \in Good(pkt') : InSlot(j, o)'
  <2>1. PICK o \in GoodBefore(pkt, offset) : InSlot(j, o)
    BY <1>3, <1>5
  <2>2. InSlot(j, o)'
    BY <2>1, <1>5 DEF InSlot
  <2> QED
    BY <2>1, <2>2, <1>5, <1>6
<1> QED
  BY <1>5, <1>8, <1>9, <1>10 DEF AtReturn

(***************************************************************************)
(* parse is called: it enters the loop at offset 0, in front of which      *)
(* there is no frame, or returns at once, and then nothing was to be done. *)
(***************************************************************************)
LEMMA CallStep ==
  ASSUME NEW p \in Packets, Call(p)
  PROVE  InLoop' /\ AtReturn'
<1>1. PICK r : r = Received(p)
  OBVIOUS
<1>2. /\ pkt' = r /\ offset' = 0 /\ remaining' = r.length /\ messages_parsed' = 0 /\ reach' = 0
      /\ pc' = IF r.length > 0 /\ max_messages > 0 THEN "loop" ELSE "return"
  BY <1>1 DEF Call
<1>3. /\ r.length \in Nat /\ DOMAIN r.frame \subseteq Nat
      /\ r.length >= 3 => 0 \in DOMAIN r.frame
  BY <1>1, PacketFacts
<1>4. Good(r) \subseteq Nat
  BY <1>3 DEF Good, Framed
<1>5. GoodBefore(r, 0) = {}
  BY <1>4 DEF GoodBefore
<1>6. Cardinality({}) = 0
  BY FS_EmptySet
<1>7. InLoop'
  <2>1. \A q \in DOMAIN r.frame : ~ (q < 0)
    BY <1>3
  <2>2. 0 + r.length = r.length /\ 0 <= 0 /\ 0 .. 0 - 1 = {}
    BY <1>3
  <2> QED
    BY <1>2, <1>3, <1>5, <1>6, <2>1, <2>2 DEF InLoop
<1>8. AtReturn'
  <2> SUFFICES ASSUME pc' = "return" PROVE AtReturn'
    BY DEF AtReturn
  <2>1. Cardinality(Good(r)) \in Nat /\ max_messages \in Nat
    BY <1>1, GoodFinite, ItchAssumption
  <2>2. r.length = 0 \/ max_messages = 0
    BY <1>2, <1>3, <2>1
  <2>3. r.length = 0 => Cardinality(Good(r)) = 0
    <3>1. r.length = 0 => r.length < 0 + 3
      OBVIOUS
    <3> QED
      BY <1>1, <1>5, <1>6, <3>1, GoodComplete
  <2>4. Min({Cardinality(Good(r)), max_messages}) = 0
    BY <2>1, <2>2, <2>3, MinMax
  <2>5. 0 <= r.length /\ 0 .. 0 - 1 = {}
    BY <1>3
  <2> QED
    BY <1>2, <2>4, <2>5 DEF AtReturn
<1> QED
  BY <1>7, <1>8

(***************************************************************************)
(* The invariant holds when no packet has come and every step keeps it.    *)
(***************************************************************************)
LEMMA InvStep ==
  ASSUME Inv, [Next]_vars
  PROVE  Inv'
<1>1. TypeOK'
  BY TypeStep
<1>2. ASSUME NEW p \in Packets, Call(p) PROVE Inv'
  <2>1. pkt' = Received(p) /\ pc' # "idle"
    BY <1>2 DEF Call
  <2>2. AtWork' /\ AtRest'
    BY Zenon, <2>1 DEF AtWork, AtRest, Received
  <2> QED
    BY <1>1, <1>2, <2>2, CallStep DEF Inv
<1>3. CASE NextMessage
  <2>1. pc = "loop" /\ pc' = "loop" /\ pkt' = pkt
    BY <1>3 DEF NextMessage
  <2>2. AtWork' /\ AtRest' /\ AtReturn'
    BY <2>1 DEF Inv, AtWork, AtRest, AtReturn, Received
  <2> QED
    BY <1>1, <1>3, <2>2, RoundStep DEF Inv
<1>4. CASE BadLength \/ LoopEnds
  <2>1. pc = "loop" /\ pc' = "return" /\ pkt' = pkt
    BY <1>4 DEF BadLength, LoopEnds, LeaveLoop
  <2>2. AtWork' /\ AtRest' /\ InLoop'
    BY Zenon, <2>1 DEF Inv, AtWork, AtRest, InLoop, Received
  <2> QED
    BY <1>1, <1>4, <2>2, LeaveStep DEF Inv
<1>5. ASSUME NEW ns \in Latencies, Account(ns) PROVE Inv'
  <2>1. pc' = "idle" /\ pkt' = NoPacket /\ reach' = 0
    BY <1>5 DEF Account
  <2> QED
    BY <1>1, <2>1 DEF Inv, AtWork, AtRest, InLoop, AtReturn, NoPacket
<1>6. CASE reset
  <2>1. pc' = "idle" /\ pc = "idle" /\ pkt' = pkt /\ reach' = reach
    BY <1>6 DEF reset
  <2> QED
    BY <1>1, <2>1 DEF Inv, AtWork, AtRest, InLoop, AtReturn, NoPacket
<1>7. CASE UNCHANGED vars
  <2>1. UNCHANGED <<pc, pkt, offset, remaining, messages_parsed, reach, messages, calls>>
    BY <1>7 DEF vars
  <2>2. AtWork' /\ AtRest'
    BY Zenon, <2>1 DEF Inv, AtWork, AtRest, NoPacket, Received
  <2>3. \A j, o : InSlot(j, o) => InSlot(j, o)'
    BY Zenon, <2>1 DEF InSlot
  <2>4. InLoop'
    BY <2>1, <2>3 DEF Inv, InLoop
  <2>5. AtReturn'
    BY <2>1, <2>3 DEF Inv, AtReturn
  <2> QED
    BY <1>1, <2>2, <2>4, <2>5 DEF Inv
<1> QED
  BY <1>2, <1>3, <1>4, <1>5, <1>6, <1>7 DEF Next, parse

(***************************************************************************)
(* The invariant of the framing loop: the frames in front of offset fit,   *)
(* and the slots written so far hold the convertible ones in their order.  *)
(***************************************************************************)
THEOREM Invariance == Spec => []Inv
<1>1. Init => Inv
  <2> SUFFICES ASSUME Init PROVE Inv
    BY Zenon
  <2>1. TypeOK
    <3>1. Unset \in Nat
      BY DEF Unset
    <3> QED
      BY <3>1, ItchAssumption DEF Init, TypeOK, Default
  <2> QED
    BY <2>1 DEF Init, Inv, AtWork, AtRest, InLoop, AtReturn
<1>2. Inv /\ [Next]_vars => Inv'
  BY InvStep
<1> QED
  BY <1>1, <1>2, PTL DEF Spec

(***************************************************************************)
(* The variables of parse keep their types; in particular the count it     *)
(* returns is never larger than the output array it was given.             *)
(***************************************************************************)
THEOREM TypeCorrect == Spec => []TypeOK
<1>1. Inv => TypeOK
  BY DEF Inv
<1> QED
  BY <1>1, Invariance, PTL

(***************************************************************************)
(* parse reads no byte outside the packet, and no conversion reads a byte  *)
(* of the message behind its own, whatever lengths a packet declares.      *)
(***************************************************************************)
THEOREM NoReadOutside == Spec => []ReadsStayInMessage
<1>1. Inv => ReadsStayInMessage
  <2> SUFFICES ASSUME Inv PROVE ReadsStayInMessage
    OBVIOUS
  <2>1. CASE pc = "idle"
    BY <2>1 DEF Inv, AtRest, NoPacket, ReadsStayInMessage
  <2>2. CASE pc = "loop"
    <3>1. offset + remaining = pkt.length /\ reach <= offset
          /\ offset \in Nat /\ remaining \in Nat /\ reach \in Nat
      BY <2>2 DEF Inv, InLoop, TypeOK
    <3>2. reach <= pkt.length
      BY <3>1
    <3> QED
      BY <2>2, <3>1, <3>2 DEF ReadsStayInMessage
  <2>3. CASE pc = "return"
    BY <2>3 DEF Inv, AtReturn, ReadsStayInMessage
  <2> QED
    BY <2>1, <2>2, <2>3 DEF Inv, TypeOK
<1> QED
  BY <1>1, Invariance, PTL

(***************************************************************************)
(* When parse returns, the output is what the packet holds: its            *)
(* convertible messages up to the first bad length field, in order, each   *)
(* once, as many as the array has room for, and none of an earlier packet. *)
(***************************************************************************)
THEOREM ParsedAsSent == Spec => []OutputIsThePacket
<1>1. Inv => OutputIsThePacket
  <2> SUFFICES ASSUME Inv, pc = "return" PROVE OutputIsThePacket
    BY DEF OutputIsThePacket
  <2>1. PICK p \in Packets : pkt = Received(p)
    BY DEF Inv, AtWork
  <2>2. /\ messages_parsed = Min({Cardinality(Good(pkt)), max_messages})
        /\ \A j \in 0 .. messages_parsed - 1 : \E o \in Good(pkt) : InSlot(j, o)
    BY DEF Inv, AtReturn
  <2>3. messages_parsed \in Nat
    BY ItchAssumption DEF Inv, TypeOK
  <2>4. DOMAIN Expected(pkt) = 0 .. messages_parsed - 1
    BY <2>2 DEF Expected
  <2>5. Cardinality(0 .. messages_parsed - 1) = messages_parsed
    <3>1. 0 \in Int /\ messages_parsed - 1 \in Int
      BY <2>3
    <3>2. Cardinality(0 .. messages_parsed - 1) =
            IF 0 > messages_parsed - 1 THEN 0 ELSE messages_parsed - 1 - 0 + 1
      BY <3>1, FS_Interval
    <3> QED
      BY <2>3, <3>2
  <2>6. ASSUME NEW j \in 0 .. messages_parsed - 1
        PROVE  LET o == Expected(pkt)[j]
               IN  \A f \in Assigned(pkt.frame[o].type) : messages[j][f] = <<calls, o>>
    <3>1. PICK o \in Good(pkt) :
            /\ Cardinality(GoodBefore(pkt, o)) = j
            /\ \A f \in Assigned(pkt.frame[o].type) : messages[j][f] = <<calls, o>>
      BY Zenon, <2>2 DEF InSlot
    <3>2. \A x \in Good(pkt) : Cardinality(GoodBefore(pkt, x)) = j => x = o
      BY <2>1, <3>1, RankUnique
    <3>3. (CHOOSE x \in Good(pkt) : Cardinality(GoodBefore(pkt, x)) = j) = o
      BY <3>1, <3>2
    <3>4. Expected(pkt)[j] = o
      BY <2>2, <3>3 DEF Expected
    <3> QED
      BY <3>1, <3>4
  <2> QED
    BY <2>4, <2>5, <2>6 DEF OutputIsThePacket
<1> QED
  BY <1>1, Invariance, PTL

(***************************************************************************)
(* Every round of parse that stays in the loop moves offset forward,       *)
(* whatever lengths a packet declares.                                     *)
(***************************************************************************)
THEOREM Advancing == Spec => EveryRoundAdvances
<1>1. Inv /\ [Next]_vars => [pc = "loop" /\ pc' = "loop" => offset' > offset]_vars
  <2> SUFFICES ASSUME Inv, Next, pc = "loop", pc' = "loop" PROVE offset' > offset
    OBVIOUS
  <2>1. NextMessage
    BY ZenonT(30) DEF Next, parse, Call, BadLength, LoopEnds, LeaveLoop, Account, reset
  <2>2. msg_length(pkt.frame[offset]) \in Nat /\ msg_length(pkt.frame[offset]) >= 3 /\ offset \in Nat
        /\ offset' = offset + msg_length(pkt.frame[offset])
    BY <2>1, RoundFacts DEF NextMessage, GoodLength, Inv, TypeOK
  <2> QED
    BY <2>2
<1> QED
  BY <1>1, Invariance, PTL DEF Spec, EveryRoundAdvances
-----------------------------------------------------------------------------
(***************************************************************************)
(* A number is its upper part shifted back plus its low byte; both are     *)
(* natural numbers and the low part is a byte.                             *)
(***************************************************************************)
LEMMA SplitByte ==
  ASSUME NEW v \in Nat
  PROVE  /\ Shifted(v) \in Nat
         /\ LowByte(v) \in Byte
         /\ v = 256 * Shifted(v) + LowByte(v)
BY DEF Shifted, LowByte, Byte

(***************************************************************************)
(* What is left after the shifts that the highest byte needs is itself a   *)
(* byte: a shift divides the bound by 256.                                 *)
(***************************************************************************)
LEMMA ShiftBound ==
  ASSUME NEW v \in Nat, NEW b \in Nat, v < 256 * b
  PROVE  Shifted(v) \in Nat /\ Shifted(v) < b
<1>1. Shifted(v) \in Nat /\ LowByte(v) \in 0 .. 255 /\ v = 256 * Shifted(v) + LowByte(v)
  BY SplitByte DEF Byte
<1>2. 256 * Shifted(v) < 256 * b
  BY <1>1
<1> QED
  BY <1>1, <1>2

(***************************************************************************)
(* A value below 256 is its own low byte.                                  *)
(***************************************************************************)
LEMMA ByteIsItsLowByte ==
  ASSUME NEW v \in Nat, v < 256
  PROVE  LowByte(v) = v
BY DEF LowByte

(***************************************************************************)
(* read_u16_be undoes write_u16_be for every uint16_t, and what is written *)
(* are bytes: the length field of a frame arrives as it was built.         *)
(***************************************************************************)
THEOREM RoundTrip16 ==
  ASSUME NEW v \in Nat, v < 256 * 256
  PROVE  /\ write_u16_be(v) \in Byte \X Byte
         /\ read_u16_be(write_u16_be(v)) = v
<1>1. Shifted(v) \in Nat /\ Shifted(v) < 256
  BY ShiftBound
<1>2. LowByte(Shifted(v)) = Shifted(v)
  BY <1>1, ByteIsItsLowByte
<1>3. v = 256 * Shifted(v) + LowByte(v) /\ LowByte(v) \in Byte
  BY SplitByte
<1>4. write_u16_be(v) = <<Shifted(v), LowByte(v)>>
  BY <1>2 DEF write_u16_be
<1>5. Shifted(v) \in Byte
  BY <1>1 DEF Byte
<1>6. read_u16_be(write_u16_be(v)) = 256 * Shifted(v) + LowByte(v)
  BY <1>4 DEF read_u16_be
<1> QED
  BY <1>3, <1>4, <1>5, <1>6

(***************************************************************************)
(* read_u32_be undoes write_u32_be for every uint32_t: shares and prices.  *)
(***************************************************************************)
THEOREM RoundTrip32 ==
  ASSUME NEW v \in Nat, v < 256 * (256 * (256 * 256))
  PROVE  read_u32_be(write_u32_be(v)) = v
<1> DEFINE a == Shifted(v)
           b == Shifted(a)
           c == Shifted(b)
<1>1. a \in Nat /\ a < 256 * (256 * 256)
  BY ShiftBound
<1>2. b \in Nat /\ b < 256 * 256
  BY <1>1, ShiftBound
<1>3. c \in Nat /\ c < 256
  BY <1>2, ShiftBound
<1>4. LowByte(c) = c
  BY <1>3, ByteIsItsLowByte
<1>5. /\ v = 256 * a + LowByte(v)
      /\ a = 256 * b + LowByte(a)
      /\ b = 256 * c + LowByte(b)
  BY <1>1, <1>2, SplitByte
<1>6. write_u32_be(v) = <<LowByte(c), LowByte(b), LowByte(a), LowByte(v)>>
  BY DEF write_u32_be
<1>7. read_u32_be(write_u32_be(v))
        = 256 * (256 * (256 * LowByte(c) + LowByte(b)) + LowByte(a)) + LowByte(v)
  BY <1>6 DEF read_u32_be
<1> HIDE DEF a, b, c
<1>8. 256 * LowByte(c) + LowByte(b) = b
  BY Zenon, <1>4, <1>5
<1>9. 256 * (256 * LowByte(c) + LowByte(b)) + LowByte(a) = a
  BY ZenonT(30), <1>5, <1>8
<1> QED
  BY ZenonT(30), <1>5, <1>7, <1>9

(***************************************************************************)
(* read_u64_be undoes write_u64_be for every uint64_t: timestamps and      *)
(* order references.                                                       *)
(***************************************************************************)
THEOREM RoundTrip64 ==
  ASSUME NEW v \in Nat,
         v < 256 * (256 * (256 * (256 * (256 * (256 * (256 * 256))))))
  PROVE  read_u64_be(write_u64_be(v)) = v
<1> DEFINE a == Shifted(v)
           b == Shifted(a)
           c == Shifted(b)
           h == Shifted(c)
           u == <<LowByte(Shifted(Shifted(Shifted(h)))), LowByte(Shifted(Shifted(h))),
                  LowByte(Shifted(h)), LowByte(h)>>
<1>1. a \in Nat /\ a < 256 * (256 * (256 * (256 * (256 * (256 * 256)))))
  BY ShiftBound
<1>2. b \in Nat /\ b < 256 * (256 * (256 * (256 * (256 * 256))))
  BY <1>1, ShiftBound
<1>3. c \in Nat /\ c < 256 * (256 * (256 * (256 * 256)))
  BY <1>2, ShiftBound
<1>4. h \in Nat /\ h < 256 * (256 * (256 * 256))
  BY <1>3, ShiftBound
<1>5. read_u32_be(write_u32_be(h)) = h
  BY <1>4, RoundTrip32
<1>6. write_u32_be(h) = u
  BY DEF write_u32_be
<1>7. /\ v = 256 * a + LowByte(v)
      /\ a = 256 * b + LowByte(a)
      /\ b = 256 * c + LowByte(b)
      /\ c = 256 * h + LowByte(c)
  BY SMTT(30), <1>1, <1>2, <1>3, SplitByte
<1>8. write_u64_be(v) = <<u[1], u[2], u[3], u[4], LowByte(c), LowByte(b), LowByte(a), LowByte(v)>>
  BY SMTT(30) DEF write_u64_be
<1> HIDE DEF a, b, c, h, u
<1>9. read_u32_be(write_u64_be(v)) = h
  <2>1. read_u32_be(u) = h
    BY Zenon, <1>5, <1>6
  <2> QED
    BY ONLY <1>8, <2>1 DEF read_u32_be
<1>10. read_u64_be(write_u64_be(v))
         = 256 * (256 * (256 * (256 * h + LowByte(c)) + LowByte(b)) + LowByte(a)) + LowByte(v)
  BY ONLY <1>8, <1>9 DEF read_u64_be
<1> QED
  BY <1>7, <1>10

-----------------------------------------------------------------------------
(***************************************************************************)
(* Lengths of the generator's frames: each is the size its message must    *)
(* have for the parser, and two more.                                      *)
(***************************************************************************)
LEMMA BuiltFacts ==
  ASSUME NEW t \in DOMAIN Built
  PROVE  /\ BuiltSize[t] \in Nat /\ BuiltSize[t] >= 13 /\ BuiltSize[t] <= 253 /\ t \in Supported
         /\ get_message_size[t] = BuiltSize[t]
<1>1. t \in {"A", "E", "P"}
  BY Zenon DEF Built
<1>2. BuiltSize["A"] = 38 /\ get_message_size["A"] = 38
  BY Zenon DEF BuiltSize, get_message_size
<1>3. BuiltSize["E"] = 33 /\ get_message_size["E"] = 33
  BY Zenon DEF BuiltSize, get_message_size
<1>4. BuiltSize["P"] = 46 /\ get_message_size["P"] = 46
  BY DEF BuiltSize, get_message_size
<1>5. "A" \in Supported /\ "E" \in Supported /\ "P" \in Supported
  BY Zenon DEF Supported, Conversion
<1> QED
  BY <1>1, <1>2, <1>3, <1>4, <1>5

(***************************************************************************)
(* So is each entry of FrameLengths, for any list of message types.        *)
(***************************************************************************)
LEMMA FrameLengthFacts ==
  ASSUME NEW T \in Seq(DOMAIN Built)
  PROVE  /\ FrameLengths(T) \in Seq(Nat) /\ Len(FrameLengths(T)) = Len(T)
         /\ \A i \in 1 .. Len(T) : /\ FrameLengths(T)[i] = BuiltSize[T[i]] + 2
                                   /\ FrameLengths(T)[i] \in Nat
                                   /\ FrameLengths(T)[i] >= 15 /\ FrameLengths(T)[i] <= 255
                                   /\ T[i] \in DOMAIN Built
<1>1. Len(T) \in Nat /\ DOMAIN T = 1 .. Len(T) /\ \A i \in 1 .. Len(T) : T[i] \in DOMAIN Built
  OBVIOUS
<1>2. \A i \in 1 .. Len(T) : BuiltSize[T[i]] \in Nat /\ BuiltSize[T[i]] >= 13 /\ BuiltSize[T[i]] <= 253
  BY <1>1, BuiltFacts
<1>3. FrameLengths(T) = [i \in 1 .. Len(T) |-> BuiltSize[T[i]] + 2]
  BY <1>1 DEF FrameLengths
<1>4. ASSUME NEW i \in 1 .. Len(T)
      PROVE  /\ FrameLengths(T)[i] = BuiltSize[T[i]] + 2 /\ FrameLengths(T)[i] \in Nat
             /\ FrameLengths(T)[i] >= 15 /\ FrameLengths(T)[i] <= 255
  <2>1. FrameLengths(T)[i] = BuiltSize[T[i]] + 2
    BY <1>3
  <2>2. BuiltSize[T[i]] \in Nat /\ BuiltSize[T[i]] >= 13 /\ BuiltSize[T[i]] <= 253
    BY <1>2
  <2> QED
    BY <2>1, <2>2
<1>5. FrameLengths(T) \in [1 .. Len(T) -> Nat]
  BY <1>3, <1>4
<1> QED
  BY <1>1, <1>4, <1>5

(***************************************************************************)
(* Where the frames of a packet of the generator start: each behind the    *)
(* one before it, by the length of that one.                               *)
(***************************************************************************)
LEMMA StartFacts ==
  ASSUME NEW T \in Seq(DOMAIN Built), NEW S, S = Starts(FrameLengths(T)),
         NEW n, n = Len(T)
  PROVE  /\ n \in Nat /\ S \in [1 .. n + 1 -> Nat]
         /\ \A i \in 1 .. n : S[i + 1] = S[i] + FrameLengths(T)[i]
         /\ \A i \in 1 .. n + 1 : \A j \in 1 .. n + 1 : i < j <=> S[i] < S[j]
<1>1. PICK w : w = FrameLengths(T)
  OBVIOUS
<1>2. /\ w \in Seq(Nat) /\ Len(w) = n /\ n \in Nat
      /\ \A i \in 1 .. n : w[i] \in Nat /\ w[i] >= 15
  BY <1>1, FrameLengthFacts
<1>3. PICK at : at = Offsets(w)
  OBVIOUS
<1>4. at \in [0 .. n -> Nat] /\ \A i \in 1 .. n : at[i] = at[i - 1] + w[i]
  BY <1>2, <1>3, OffsetsAddUp
<1>5. S = [i \in 1 .. n + 1 |-> at[i - 1]]
  BY <1>1, <1>2, <1>3 DEF Starts
<1>6. S \in [1 .. n + 1 -> Nat]
  BY <1>2, <1>4, <1>5
<1>7. \A i \in 1 .. n : S[i + 1] = S[i] + w[i]
  BY <1>2, <1>4, <1>5
<1>8. ASSUME NEW i \in 1 .. n + 1, NEW j \in 1 .. n + 1, i < j PROVE S[i] < S[j]
  <2>1. i \in 1 .. n /\ i \in 0 .. n /\ j - 1 \in i .. n
    BY <1>2, <1>8
  <2>2. at[i] <= at[j - 1]
    BY Zenon, <1>2, <1>3, <2>1, OffsetsGrow
  <2>3. S[i + 1] <= S[j]
    BY <1>2, <1>5, <2>1, <2>2
  <2>4. S[i + 1] = S[i] + w[i] /\ w[i] \in Nat /\ w[i] >= 15
    BY <1>2, <1>7, <2>1
  <2>5. S[i] \in Nat /\ S[j] \in Nat
    BY <1>6
  <2> QED
    BY <2>3, <2>4, <2>5
<1>9. ASSUME NEW i \in 1 .. n + 1, NEW j \in 1 .. n + 1, S[i] < S[j] PROVE i < j
  <2>1. S[i] \in Nat /\ S[j] \in Nat
    BY <1>6
  <2>2. ~ (j < i) /\ j # i
    BY SMTT(30), <1>8, <1>9, <2>1
  <2> QED
    BY <1>2, <2>2
<1> QED
  BY <1>1, <1>2, <1>6, <1>7, <1>8, <1>9

(***************************************************************************)
(* A packet of the generator as parse meets it: a frame at each start, of  *)
(* the type that was built, whose length field, read back, leads to the    *)
(* next start, and which is long enough for its conversion.                *)
(***************************************************************************)
LaidOut(frame, T, S) ==
  /\ DOMAIN frame = {S[i] : i \in 1 .. Len(T)}
  /\ \A i \in 1 .. Len(T) : /\ frame[S[i]].type = T[i]
                            /\ msg_length(frame[S[i]]) \in Nat /\ msg_length(frame[S[i]]) >= 15
                            /\ S[i] + msg_length(frame[S[i]]) = S[i + 1]
                            /\ Converted(frame[S[i]])

(***************************************************************************)
(* A packet the generator built is laid out so.                            *)
(***************************************************************************)
LEMMA BuiltPacket ==
  ASSUME NEW T \in Seq(DOMAIN Built), NEW p, p = build_packet(T)
  PROVE  LaidOut(p.frame, T, Starts(FrameLengths(T)))
<1>1. PICK n, S : n = Len(T) /\ S = Starts(FrameLengths(T))
  OBVIOUS
<1>2. PICK w : w = FrameLengths(T)
  OBVIOUS
<1>3. /\ DOMAIN T = 1 .. n /\ n \in Nat /\ S \in [1 .. n + 1 -> Nat]
      /\ \A i \in 1 .. n : S[i + 1] = S[i] + w[i]
      /\ \A i \in 1 .. n + 1 : \A j \in 1 .. n + 1 : i < j <=> S[i] < S[j]
  BY <1>1, <1>2, StartFacts
<1>4. \A i \in 1 .. n : /\ w[i] = BuiltSize[T[i]] + 2 /\ T[i] \in DOMAIN Built
                        /\ w[i] \in Nat /\ w[i] >= 15 /\ w[i] <= 255
  BY <1>1, <1>2, FrameLengthFacts
<1> DEFINE at(o) == CHOOSE i \in 1 .. n : S[i] = o
           F(o) == [type |-> T[at(o)], len |-> write_u16_be(w[at(o)]), locate |-> 1]
<1>5. p.frame = [o \in {S[i] : i \in 1 .. n} |-> F(o)]
  <2>1. DOMAIN T = 1 .. n
    BY Zenon, <1>3
  <2>2. p.frame = [o \in {S[i] : i \in DOMAIN T} |->
                     [type |-> T[CHOOSE i \in DOMAIN T : S[i] = o],
                      len |-> write_u16_be(w[CHOOSE i \in DOMAIN T : S[i] = o]), locate |-> 1]]
    BY ONLY Zenon, <1>1, <1>2, p = build_packet(T) DEF build_packet
  <2> QED
    BY ONLY <2>1, <2>2
<1>6. ASSUME NEW i \in 1 .. n
      PROVE  /\ p.frame[S[i]].type = T[i]
             /\ msg_length(p.frame[S[i]]) \in Nat /\ msg_length(p.frame[S[i]]) >= 15
             /\ S[i] + msg_length(p.frame[S[i]]) = S[i + 1]
             /\ Converted(p.frame[S[i]])
  <2>1. \A k \in 1 .. n : S[k] = S[i] => k = i
    <3> TAKE k \in 1 .. n
    <3>1. S[k] \in Nat /\ S[i] \in Nat /\ (k < i <=> S[k] < S[i]) /\ (i < k <=> S[i] < S[k])
      BY SMTT(30), <1>3
    <3> QED
      BY <3>1
  <2>2. at(S[i]) = i
    BY <2>1
  <2>3. PICK fr : fr = p.frame[S[i]]
    OBVIOUS
  <2> HIDE DEF at
  <2>4. fr = [type |-> T[i], len |-> write_u16_be(w[i]), locate |-> 1]
    BY <1>5, <2>2, <2>3
  <2>5. w[i] \in Nat /\ w[i] >= 15 /\ w[i] <= 255 /\ w[i] = BuiltSize[T[i]] + 2
    BY <1>4
  <2>6. msg_length(fr) = w[i] /\ fr.type = T[i]
    <3>1. w[i] < 256 * 256
      BY <2>5
    <3>2. read_u16_be(write_u16_be(w[i])) = w[i]
      BY <2>5, <3>1, RoundTrip16
    <3> QED
      BY <2>4, <3>2 DEF msg_length
  <2>7. T[i] \in Supported /\ get_message_size[T[i]] = BuiltSize[T[i]] /\ BuiltSize[T[i]] \in Nat
    BY <1>4, BuiltFacts
  <2>8. Converted(fr)
    <3>1. ~ (w[i] - 2 < 13) /\ w[i] - 2 >= get_message_size[T[i]]
      BY <2>5, <2>7
    <3> QED
      BY <2>6, <2>7, <3>1 DEF Converted, TooShort
  <2>9. S[i] + w[i] = S[i + 1]
    BY <1>3
  <2> QED
    BY <2>3, <2>5, <2>6, <2>8, <2>9
<1>7. DOMAIN p.frame = {S[i] : i \in 1 .. n}
  BY <1>5
<1>8. n = Len(T)
  BY <1>1
<1>9. LaidOut(p.frame, T, S)
  BY Zenon, <1>6, <1>7, <1>8 DEF LaidOut
<1> QED
  BY Zenon, <1>1, <1>9

(***************************************************************************)
(* As many values as arguments, where no value is taken twice.             *)
(***************************************************************************)
LEMMA ImageSize ==
  ASSUME NEW I, IsFiniteSet(I), NEW f, \A i \in I : \A j \in I : f[i] = f[j] => i = j
  PROVE  Cardinality({f[i] : i \in I}) = Cardinality(I)
<1> DEFINE V == {f[i] : i \in I}
           g == [i \in I |-> f[i]]
<1>1. g \in [I -> V] /\ \A i \in I : \A j \in I : g[i] = g[j] => i = j
  OBVIOUS
<1>2. \A v \in V : \E i \in I : g[i] = v
  OBVIOUS
<1> HIDE DEF g, V
<1>3. g \in Bijection(I, V)
  BY <1>1, <1>2 DEF Bijection, Injection, Surjection, IsInjective
<1>4. ExistsBijection(I, V)
  BY <1>3 DEF ExistsBijection
<1>5. Cardinality(V) = Cardinality(I)
  BY <1>4, FS_Bijection
<1> QED
  BY <1>5 DEF V

(***************************************************************************)
(* What of the generator's packet arrived whole is what parse finds good,  *)
(* and the rank of a message is its place in the packet.                   *)
(***************************************************************************)
Ranked(r, T, S, W) ==
  /\ Cardinality(Good(r)) = Cardinality(W)
  /\ \A o \in Good(r) : \E i \in W : /\ o = S[i] /\ Cardinality(GoodBefore(r, o)) = i - 1
                                     /\ r.frame[o].type = T[i]

(***************************************************************************)
(* So they do in what recvfrom received of it: the messages that arrived   *)
(* whole are the good frames, and their order is their rank.               *)
(***************************************************************************)
LEMMA WholeIsGood ==
  ASSUME NEW p \in Packets, NEW r, r = Received(p), NEW T, T = p.made, T # << >>,
         NEW S, S = Starts(FrameLengths(T)),
         NEW W, W = {i \in DOMAIN T : S[i + 1] <= r.length}
  PROVE  Ranked(r, T, S, W)
<1>1. T \in Seq(DOMAIN Built) /\ p = build_packet(T)
  BY GeneratorAssumption
<1>2. DOMAIN p = {"length", "frame", "made"}
  BY FrameAssumption
<1>3. r.frame = p.frame
  BY <1>2 DEF Received
<1>4. r.length \in Nat
  BY PacketFacts
<1>5. PICK n : n = Len(T)
  BY Zenon
<1>6. /\ n \in Nat /\ DOMAIN T = 1 .. n /\ S \in [1 .. n + 1 -> Nat]
      /\ \A i \in 1 .. n + 1 : \A j \in 1 .. n + 1 : i < j <=> S[i] < S[j]
  <2>1. \A X \in Seq(DOMAIN Built) : DOMAIN X = 1 .. Len(X)
    OBVIOUS
  <2> QED
    BY ZenonT(30), <1>1, <1>5, <2>1, StartFacts
<1>7. /\ DOMAIN r.frame = {S[i] : i \in 1 .. n}
      /\ \A i \in 1 .. n : /\ r.frame[S[i]].type = T[i]
                           /\ msg_length(r.frame[S[i]]) \in Nat /\ msg_length(r.frame[S[i]]) >= 15
                           /\ S[i] + msg_length(r.frame[S[i]]) = S[i + 1]
                           /\ Converted(r.frame[S[i]])
  <2>1. LaidOut(p.frame, T, S)
    BY <1>1, BuiltPacket, Zenon
  <2>2. LaidOut(r.frame, T, S)
    BY <1>3, <2>1, Zenon
  <2> QED
    BY <1>5, <2>2, Zenon DEF LaidOut
<1>8. \A i \in 1 .. n : Fits(r, S[i]) <=> S[i + 1] <= r.length
  <2> TAKE i \in 1 .. n
  <2>1. msg_length(r.frame[S[i]]) \in Nat /\ msg_length(r.frame[S[i]]) >= 15
        /\ S[i] + msg_length(r.frame[S[i]]) = S[i + 1]
    BY <1>7
  <2> QED
    BY <2>1 DEF Fits
<1>9. W = {i \in 1 .. n : Fits(r, S[i])} /\ W \subseteq 1 .. n
  BY SMTT(30), <1>6, <1>8
<1>10. ASSUME NEW i \in W, NEW k \in 1 .. n, k <= i PROVE k \in W
  <2>1. S[i + 1] <= r.length /\ i \in 1 .. n /\ i + 1 \in 1 .. n + 1 /\ k + 1 \in 1 .. n + 1
    BY <1>6, <1>9
  <2>2. S[i + 1] \in Nat /\ S[k + 1] \in Nat /\ (i + 1 < k + 1 <=> S[i + 1] < S[k + 1])
    BY <1>6, <2>1
  <2>3. S[k + 1] <= S[i + 1]
    BY <1>6, <1>10, <2>1, <2>2
  <2>4. S[k + 1] <= r.length
    BY SMTT(30), <1>4, <2>1, <2>2, <2>3
  <2> QED
    BY <1>6, <2>4
<1>11. \A i \in 1 .. n : \A j \in 1 .. n : /\ S[i] \in Nat /\ S[j] \in Nat
                                           /\ i < j <=> S[i] < S[j]
                                           /\ i <= j <=> S[i] <= S[j]
                                           /\ S[i] = S[j] => i = j
  <2> TAKE i \in 1 .. n
  <2> TAKE j \in 1 .. n
  <2>1. i \in 1 .. n + 1 /\ j \in 1 .. n + 1
    BY <1>6
  <2>2. S[i] \in Nat /\ S[j] \in Nat /\ (i < j <=> S[i] < S[j]) /\ (j < i <=> S[j] < S[i])
    BY Zenon, <1>6, <2>1
  <2> QED
    BY <1>6, <2>2
<1>12. Good(r) = {S[i] : i \in W}
  <2>1. ASSUME NEW o \in Good(r) PROVE \E i \in W : o = S[i]
    <3>1. o \in DOMAIN r.frame /\ o \in Framed(r)
      BY Zenon DEF Good, Framed
    <3>2. PICK i \in 1 .. n : o = S[i]
      BY Zenon, <1>7, <3>1
    <3>3. Fits(r, o)
      BY <1>11, <3>1, <3>2 DEF Framed
    <3> QED
      BY Zenon, <1>9, <3>2, <3>3
  <2>2. ASSUME NEW i \in W PROVE S[i] \in Good(r)
    <3>1. i \in 1 .. n /\ S[i] \in DOMAIN r.frame /\ Converted(r.frame[S[i]])
      BY Zenon, <1>7, <1>9
    <3>2. ASSUME NEW q \in DOMAIN r.frame, q <= S[i] PROVE Fits(r, q)
      <4>1. PICK k \in 1 .. n : q = S[k]
        BY Zenon, <1>7
      <4>2. k <= i
        BY Zenon, <1>11, <3>1, <3>2, <4>1
      <4> QED
        BY Zenon, <1>9, <1>10, <4>1, <4>2
    <3> QED
      BY Zenon, <3>1, <3>2 DEF Good, Framed
  <2> QED
    BY <2>1, <2>2
<1>13. IsFiniteSet(1 .. n) /\ IsFiniteSet(W)
  <2>1. 1 \in Int /\ n \in Int
    BY <1>6
  <2>2. IsFiniteSet(1 .. n)
    BY Zenon, <2>1, FS_Interval
  <2> QED
    BY Zenon, <1>9, <2>2, FS_Subset
<1>14. Cardinality(Good(r)) = Cardinality(W)
  <2>1. \A i \in W : \A j \in W : S[i] = S[j] => i = j
    BY Zenon, <1>9, <1>11
  <2>2. Cardinality({S[i] : i \in W}) = Cardinality(W)
    BY SMTT(30), <1>13, <2>1, ImageSize
  <2> QED
    BY Zenon, <1>12, <2>2
<1>15. ASSUME NEW i \in W PROVE Cardinality(GoodBefore(r, S[i])) = i - 1
  <2>1. i \in 1 .. n /\ i - 1 \in Nat
    BY <1>6, <1>9
  <2> DEFINE I == 1 .. i - 1
  <2>2. I \subseteq W /\ I \subseteq 1 .. n /\ \A k \in 1 .. n : k \in I <=> k < i
    BY <1>6, <1>10, <2>1
  <2>3. IsFiniteSet(I) /\ Cardinality(I) = i - 1
    <3>1. 1 \in Int /\ i - 1 \in Int
      BY <2>1
    <3>2. IsFiniteSet(I) /\ Cardinality(I) = IF 1 > i - 1 THEN 0 ELSE i - 1 - 1 + 1
      BY <3>1, FS_Interval
    <3> QED
      BY <2>1, <3>2
  <2> HIDE DEF I
  <2>4. GoodBefore(r, S[i]) = {S[k] : k \in I}
    <3>1. GoodBefore(r, S[i]) = {o \in {S[k] : k \in W} : o < S[i]}
      BY Zenon, <1>12 DEF GoodBefore
    <3>2. \A k \in W : S[k] < S[i] <=> k \in I
      BY <1>9, <1>11, <2>1, <2>2
    <3>3. ASSUME NEW o PROVE o \in GoodBefore(r, S[i]) <=> o \in {S[k] : k \in I}
      BY ZenonT(30), <2>2, <3>1, <3>2
    <3> QED
      BY <3>3, Zenon
  <2>5. \A k \in I : \A j \in I : S[k] = S[j] => k = j
    BY Zenon, <1>11, <2>2
  <2> QED
    BY <2>3, <2>4, <2>5, ImageSize
<1>16. \A i \in W : r.frame[S[i]].type = T[i]
  BY Zenon, <1>7, <1>9
<1>17. ASSUME NEW o \in Good(r)
       PROVE  \E i \in W : /\ o = S[i] /\ Cardinality(GoodBefore(r, o)) = i - 1
                           /\ r.frame[o].type = T[i]
  <2>1. PICK i \in W : o = S[i]
    BY <1>12
  <2>2. Cardinality(GoodBefore(r, o)) = i - 1
    BY Zenon, <1>15, <2>1
  <2>3. r.frame[o].type = T[i]
    BY <1>16, <2>1
  <2> QED
    BY <2>1, <2>2, <2>3, Zenon
<1> QED
  BY <1>14, <1>17, Zenon DEF Ranked

(***************************************************************************)
(* The place of a field in a packed struct, where no other field has its   *)
(* name: behind the widths of the fields in front of it.                   *)
(***************************************************************************)
Placed(m, n, e) ==
  /\ e[0] = 0
  /\ \A i \in 1 .. n : e[i] = e[i - 1] + m[i][2] /\ FieldPlace(m, m[i][1]) = <<e[i - 1], m[i][2]>>

(***************************************************************************)
(* It is so for every struct whose fields have different names.            *)
(***************************************************************************)
LEMMA FieldsInOrder ==
  ASSUME NEW n \in Nat, NEW m, DOMAIN m = 1 .. n, \A i \in 1 .. n : m[i][2] \in Nat,
         \A i \in 1 .. n : \A k \in 1 .. n : m[i][1] = m[k][1] => i = k
  PROVE  \E e : Placed(m, n, e)
<1>1. PICK e : e = Ends(m)
  OBVIOUS
<1>2. e[0] = 0 /\ \A i \in 1 .. n : e[i] = e[i - 1] + m[i][2]
  BY Zenon, <1>1, EndsAddUp
<1>3. ASSUME NEW i \in 1 .. n PROVE FieldPlace(m, m[i][1]) = <<e[i - 1], m[i][2]>>
  <2>1. (CHOOSE k \in DOMAIN m : m[k][1] = m[i][1]) = i
    <3>1. \A k \in 1 .. n : m[k][1] = m[i][1] => k = i
      OBVIOUS
    <3> QED
      BY <3>1
  <2> QED
    BY Zenon, <1>1, <2>1 DEF FieldPlace
<1> QED
  BY Zenon, <1>2, <1>3 DEF Placed

(***************************************************************************)
(* The fields that the parser reads of the messages the generator builds,  *)
(* byte for byte.                                                          *)
(***************************************************************************)
LEMMA AddOrderPlaces ==
  LET P(f) == FieldPlace(AddOrderMessage, f)
  IN  /\ P("stock_locate") = <<0, 2>> /\ P("tracking_number") = <<2, 2>>
      /\ P("timestamp") = <<4, 8>> /\ P("message_type") = <<12, 1>>
      /\ P("order_reference_number") = <<13, 8>> /\ P("buy_sell_indicator") = <<21, 1>>
      /\ P("shares") = <<22, 4>> /\ P("price") = <<34, 4>>
<1>1. PICK m : m = AddOrderMessage
  OBVIOUS
<1>2. /\ DOMAIN m = 1 .. 9 /\ m[1] = <<"stock_locate", 2>> /\ m[2] = <<"tracking_number", 2>>
      /\ m[3] = <<"timestamp", 8>> /\ m[4] = <<"message_type", 1>>
      /\ m[5] = <<"order_reference_number", 8>> /\ m[6] = <<"buy_sell_indicator", 1>>
      /\ m[7] = <<"shares", 4>> /\ m[8] = <<"stock", 8>> /\ m[9] = <<"price", 4>>
  BY <1>1 DEF AddOrderMessage, MessageHeader
<1>3. 1 .. 9 = {1, 2, 3, 4, 5, 6, 7, 8, 9}
  OBVIOUS
<1>4. /\ \A i \in 1 .. 9 : m[i][2] \in Nat
      /\ \A i \in 1 .. 9 : \A k \in 1 .. 9 : m[i][1] = m[k][1] => i = k
  BY <1>2, <1>3
<1>5. PICK e : Placed(m, 9, e)
  <2>1. 9 \in Nat /\ DOMAIN m = 1 .. 9
    BY <1>2
  <2> QED
    BY <1>4, <2>1, FieldsInOrder, Zenon
<1>6. /\ e[1] = 2 /\ e[2] = 4 /\ e[3] = 12 /\ e[4] = 13 /\ e[5] = 21 /\ e[6] = 22 /\ e[7] = 26
      /\ e[8] = 34
  BY <1>2, <1>5 DEF Placed
<1> QED
  BY <1>1, <1>2, <1>5, <1>6 DEF Placed

(***************************************************************************)
(* An execution.                                                           *)
(***************************************************************************)
LEMMA OrderExecutedPlaces ==
  LET P(f) == FieldPlace(OrderExecutedMessage, f)
  IN  /\ P("stock_locate") = <<0, 2>> /\ P("tracking_number") = <<2, 2>>
      /\ P("timestamp") = <<4, 8>> /\ P("message_type") = <<12, 1>>
      /\ P("order_reference_number") = <<13, 8>> /\ P("executed_shares") = <<21, 4>>
<1>1. PICK m : m = OrderExecutedMessage
  OBVIOUS
<1>2. /\ DOMAIN m = 1 .. 7 /\ m[1] = <<"stock_locate", 2>> /\ m[2] = <<"tracking_number", 2>>
      /\ m[3] = <<"timestamp", 8>> /\ m[4] = <<"message_type", 1>>
      /\ m[5] = <<"order_reference_number", 8>> /\ m[6] = <<"executed_shares", 4>>
      /\ m[7] = <<"match_number", 8>>
  BY <1>1 DEF OrderExecutedMessage, MessageHeader
<1>3. 1 .. 7 = {1, 2, 3, 4, 5, 6, 7}
  OBVIOUS
<1>4. /\ \A i \in 1 .. 7 : m[i][2] \in Nat
      /\ \A i \in 1 .. 7 : \A k \in 1 .. 7 : m[i][1] = m[k][1] => i = k
  BY <1>2, <1>3
<1>5. PICK e : Placed(m, 7, e)
  <2>1. 7 \in Nat /\ DOMAIN m = 1 .. 7
    BY <1>2
  <2> QED
    BY <1>4, <2>1, FieldsInOrder, Zenon
<1>6. /\ e[1] = 2 /\ e[2] = 4 /\ e[3] = 12 /\ e[4] = 13 /\ e[5] = 21 /\ e[6] = 25
  BY SMTT(30), <1>2, <1>5 DEF Placed
<1> QED
  BY <1>1, <1>2, <1>5, <1>6 DEF Placed

(***************************************************************************)
(* A trade.                                                                *)
(***************************************************************************)
LEMMA TradePlaces ==
  LET P(f) == FieldPlace(TradeMessage, f)
  IN  /\ P("stock_locate") = <<0, 2>> /\ P("tracking_number") = <<2, 2>>
      /\ P("timestamp") = <<4, 8>> /\ P("message_type") = <<12, 1>>
      /\ P("order_reference_number") = <<13, 8>> /\ P("buy_sell_indicator") = <<21, 1>>
      /\ P("shares") = <<22, 4>> /\ P("price") = <<34, 4>>
<1>1. PICK m : m = TradeMessage
  OBVIOUS
<1>2. /\ DOMAIN m = 1 .. 10 /\ m[1] = <<"stock_locate", 2>> /\ m[2] = <<"tracking_number", 2>>
      /\ m[3] = <<"timestamp", 8>> /\ m[4] = <<"message_type", 1>>
      /\ m[5] = <<"order_reference_number", 8>> /\ m[6] = <<"buy_sell_indicator", 1>>
      /\ m[7] = <<"shares", 4>> /\ m[8] = <<"stock", 8>> /\ m[9] = <<"price", 4>>
      /\ m[10] = <<"match_number", 8>>
  BY <1>1 DEF TradeMessage, MessageHeader
<1>3. 1 .. 10 = {1, 2, 3, 4, 5, 6, 7, 8, 9, 10}
  OBVIOUS
<1>4. /\ \A i \in 1 .. 10 : m[i][2] \in Nat
      /\ \A i \in 1 .. 10 : \A k \in 1 .. 10 : m[i][1] = m[k][1] => i = k
  BY <1>2, <1>3
<1>5. PICK e : Placed(m, 10, e)
  <2>1. 10 \in Nat /\ DOMAIN m = 1 .. 10
    BY <1>2
  <2> QED
    BY <1>4, <2>1, FieldsInOrder, Zenon
<1>6. /\ e[1] = 2 /\ e[2] = 4 /\ e[3] = 12 /\ e[4] = 13 /\ e[5] = 21 /\ e[6] = 22 /\ e[7] = 26
      /\ e[8] = 34 /\ e[9] = 38
  BY <1>2, <1>5 DEF Placed
<1> QED
  BY <1>1, <1>2, <1>5, <1>6 DEF Placed

(***************************************************************************)
(* Each field of a message the generator built is read from the bytes that *)
(* the builder wrote the matching argument to.                             *)
(***************************************************************************)
LEMMA ReadWhereBuilt ==
  ASSUME NEW t \in DOMAIN Built, NEW f \in DOMAIN Conversion[t]
  PROVE  FieldPlace(Layout[t], Conversion[t][f]) = Built[t][Meaning[f]]
<1>1. t \in {"A", "E", "P"}
  BY DEF Built
<1>2. /\ Common["type"] = "message_type" /\ Common["instrument_id"] = "stock_locate"
      /\ Common["timestamp"] = "timestamp" /\ Common["sequence"] = "tracking_number"
      /\ DOMAIN Common = {"type", "instrument_id", "timestamp", "sequence"}
  BY DEF Common
<1>3. /\ Meaning["type"] = "type" /\ Meaning["instrument_id"] = "stock_locate"
      /\ Meaning["order_id"] = "order_ref" /\ Meaning["price"] = "price"
      /\ Meaning["quantity"] = "shares" /\ Meaning["side"] = "side"
      /\ Meaning["timestamp"] = "timestamp" /\ Meaning["sequence"] = "tracking"
  BY DEF Meaning
<1>4. /\ BuiltHeader["stock_locate"] = <<0, 2>> /\ BuiltHeader["tracking"] = <<2, 2>>
      /\ BuiltHeader["timestamp"] = <<4, 8>> /\ BuiltHeader["type"] = <<12, 1>>
      /\ BuiltHeader["order_ref"] = <<13, 8>>
      /\ DOMAIN BuiltHeader = {"stock_locate", "tracking", "timestamp", "type", "order_ref"}
  BY DEF BuiltHeader
<1> DEFINE c == Conversion[t]
<1>5. CASE t = "E"
  <2>1. Layout[t] = OrderExecutedMessage /\ c = parse_order_executed /\ Built[t] = build_order_executed
    BY Zenon, <1>5 DEF Layout, Conversion, Built
  <2>2. f \in {"type", "instrument_id", "timestamp", "sequence", "order_id", "quantity"}
    BY Zenon, <2>1, AssignedFields
  <2>3. /\ c["type"] = "message_type" /\ c["instrument_id"] = "stock_locate"
        /\ c["timestamp"] = "timestamp" /\ c["sequence"] = "tracking_number"
        /\ c["order_id"] = "order_reference_number" /\ c["quantity"] = "executed_shares"
    BY Zenon, <1>2, <2>1 DEF parse_order_executed, ++
  <2>4. /\ Built[t]["stock_locate"] = <<0, 2>> /\ Built[t]["tracking"] = <<2, 2>>
        /\ Built[t]["timestamp"] = <<4, 8>> /\ Built[t]["type"] = <<12, 1>>
        /\ Built[t]["order_ref"] = <<13, 8>> /\ Built[t]["shares"] = <<21, 4>>
    BY Zenon, <1>4, <2>1 DEF build_order_executed, ++
  <2> HIDE DEF c
  <2>5. FieldPlace(Layout[t], c[f]) = Built[t][Meaning[f]]
    BY <1>3, <2>1, <2>2, <2>3, <2>4, OrderExecutedPlaces
  <2> QED
    BY Zenon, <2>5 DEF c
<1>6. CASE t = "A" \/ t = "P"
  <2>1. /\ c = parse_add_order
        /\ \/ Layout[t] = AddOrderMessage /\ Built[t] = build_add_order
           \/ Layout[t] = TradeMessage /\ Built[t] = build_trade
    <3>1. CASE t = "A"
      BY Zenon, <3>1 DEF Layout, Conversion, Built
    <3>2. CASE t = "P"
      BY Zenon, <3>2 DEF Layout, Conversion, Built, parse_trade
    <3> QED
      BY Zenon, <1>6, <3>1, <3>2
  <2>2. f \in {"type", "instrument_id", "timestamp", "sequence", "order_id", "side", "quantity", "price"}
    BY Zenon, <2>1, AssignedFields
  <2>3. /\ c["type"] = "message_type" /\ c["instrument_id"] = "stock_locate"
        /\ c["timestamp"] = "timestamp" /\ c["sequence"] = "tracking_number"
        /\ c["order_id"] = "order_reference_number" /\ c["side"] = "buy_sell_indicator"
        /\ c["quantity"] = "shares" /\ c["price"] = "price"
    BY Zenon, <1>2, <2>1 DEF parse_add_order, ++
  <2>4. \A b \in {build_add_order, build_trade} :
          /\ b["stock_locate"] = <<0, 2>> /\ b["tracking"] = <<2, 2>>
          /\ b["timestamp"] = <<4, 8>> /\ b["type"] = <<12, 1>>
          /\ b["order_ref"] = <<13, 8>> /\ b["side"] = <<21, 1>>
          /\ b["shares"] = <<22, 4>> /\ b["price"] = <<34, 4>>
    BY <1>4 DEF build_add_order, build_trade, ++
  <2> HIDE DEF c
  <2>5. PICK b, m : b = Built[t] /\ m = Layout[t]
    OBVIOUS
  <2>6. /\ b["stock_locate"] = <<0, 2>> /\ b["tracking"] = <<2, 2>>
        /\ b["timestamp"] = <<4, 8>> /\ b["type"] = <<12, 1>>
        /\ b["order_ref"] = <<13, 8>> /\ b["side"] = <<21, 1>>
        /\ b["shares"] = <<22, 4>> /\ b["price"] = <<34, 4>>
    BY <2>1, <2>4, <2>5, Zenon
  <2>7. /\ FieldPlace(m, "stock_locate") = <<0, 2>> /\ FieldPlace(m, "tracking_number") = <<2, 2>>
        /\ FieldPlace(m, "timestamp") = <<4, 8>> /\ FieldPlace(m, "message_type") = <<12, 1>>
        /\ FieldPlace(m, "order_reference_number") = <<13, 8>>
        /\ FieldPlace(m, "buy_sell_indicator") = <<21, 1>>
        /\ FieldPlace(m, "shares") = <<22, 4>> /\ FieldPlace(m, "price") = <<34, 4>>
    BY <2>1, <2>5, AddOrderPlaces, TradePlaces, Zenon
  <2>8. FieldPlace(m, c[f]) = b[Meaning[f]]
    BY <1>3, <2>2, <2>3, <2>6, <2>7
  <2> QED
    BY Zenon, <2>5, <2>8 DEF c
<1> QED
  BY Zenon, <1>1, <1>5, <1>6

(***************************************************************************)
(* The generator's messages "match parser": of every packet it builds, of  *)
(* any number of messages, every message that arrived whole comes out, in  *)
(* order and up to max_messages, also when recvfrom cut the packet, and    *)
(* each field is read from the bytes its argument was written to.          *)
(***************************************************************************)
THEOREM ParserMatchesGenerator == Spec => []GeneratorUnderstood
<1>1. Inv => GeneratorUnderstood
  <2> SUFFICES ASSUME Inv, pc = "return", pkt.made # << >> PROVE GeneratorUnderstood
    BY Zenon DEF GeneratorUnderstood
  <2>1. PICK p \in Packets : pkt = Received(p)
    BY DEF Inv, AtWork
  <2>2. /\ messages_parsed = Min({Cardinality(Good(pkt)), max_messages})
        /\ \A j \in 0 .. messages_parsed - 1 : \E o \in Good(pkt) : InSlot(j, o)
        /\ messages_parsed \in Nat
    <3>1. messages_parsed \in Nat
      BY ItchAssumption DEF Inv, TypeOK
    <3> QED
      BY Zenon, <3>1 DEF Inv, AtReturn
  <2>3. PICK T, S, W : /\ T = pkt.made /\ S = Starts(FrameLengths(T))
                       /\ W = {i \in DOMAIN T : S[i + 1] <= pkt.length}
    BY Zenon
  <2>4. p.made = T /\ T # << >>
    <3>1. DOMAIN p = {"length", "frame", "made"}
      BY FrameAssumption
    <3> QED
      BY <2>1, <2>3, <3>1 DEF Received
  <2>5. Ranked(pkt, T, S, W)
    BY <2>1, <2>3, <2>4, WholeIsGood, Zenon
  <2>6. messages_parsed = Min({Cardinality(W), max_messages})
    BY <2>2, <2>5 DEF Ranked
  <2>7. T \in Seq(DOMAIN Built)
    BY SMTT(30), <2>4, GeneratorAssumption
  <2>8. ASSUME NEW j \in 1 .. messages_parsed
        PROVE  /\ \A f \in Assigned(T[j]) : messages[j - 1][f] = <<calls, S[j]>>
               /\ \A f \in DOMAIN Conversion[T[j]] :
                    FieldPlace(Layout[T[j]], Conversion[T[j]][f]) = Built[T[j]][Meaning[f]]
    <3>1. j - 1 \in 0 .. messages_parsed - 1
      BY <2>2
    <3>2. PICK o \in Good(pkt) : InSlot(j - 1, o)
      BY Zenon, <2>2, <3>1
    <3>3. PICK i \in W : /\ o = S[i] /\ Cardinality(GoodBefore(pkt, o)) = i - 1
                         /\ pkt.frame[o].type = T[i]
      BY <2>5 DEF Ranked
    <3>4. i \in DOMAIN T /\ i \in Int
      BY <2>3, <2>7
    <3>5. i = j
      <4>1. i - 1 = j - 1
        BY Zenon, <3>2, <3>3 DEF InSlot
      <4> QED
        BY <3>4, <4>1, <2>2
    <3>6. \A f \in Assigned(T[j]) : messages[j - 1][f] = <<calls, S[j]>>
      BY <3>2, <3>3, <3>5 DEF InSlot
    <3>7. T[j] \in DOMAIN Built
      BY <2>7, <3>4, <3>5
    <3> QED
      BY Zenon, <3>6, <3>7, ReadWhereBuilt
  <2> QED
    BY Zenon, <2>3, <2>6, <2>8 DEF GeneratorUnderstood
<1> QED
  BY <1>1, Invariance, PTL
=============================================================================
