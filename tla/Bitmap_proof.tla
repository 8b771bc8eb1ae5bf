---------------------------- MODULE Bitmap_proof ----------------------------
(***************************************************************************)
(* Proofs about Bitmap, for every word length, every volume and every      *)
(* number that callers pass.                                               *)
(*                                                                         *)
(* The code reaches a bit through its word and its place in it; the        *)
(* properties speak of numbers.  The first lemmas go from one to the other *)
(* and hold all multiplication and division.  The queries are right in     *)
(* every state of the right type.  The ranges need CallInv, which follows  *)
(* a call through the rounds of its loop.                                  *)
(***************************************************************************)
EXTENDS Bitmap, FiniteSetTheorems, TLAPS

-----------------------------------------------------------------------------
(* Numbers and their places.                                                *)
LEMMA WordLength == W \in Nat /\ W >= 1
BY BitmapAssumption

LEMMA Place ==
  ASSUME NEW n \in Nat
  PROVE  /\ bit_index(n) \in Nat /\ bit_pos(n) \in Full
         /\ n = bit_index(n) * W + bit_pos(n)
BY WordLength DEF bit_index, bit_pos, Full

LEMMA PlaceOf ==
  ASSUME NEW i \in Nat, NEW j \in Full
  PROVE  i * W + j \in Nat /\ bit_index(i * W + j) = i /\ bit_pos(i * W + j) = j
BY WordLength DEF bit_index, bit_pos, Full

LEMMA Times ==
  ASSUME NEW i \in Nat, NEW k \in Nat, i <= k
  PROVE  i * W \in Nat /\ k * W \in Nat /\ i * W <= k * W /\ (i + 1) * W = i * W + W
BY WordLength

LEMMA Before ==
  ASSUME NEW n \in Nat, NEW k \in Nat
  PROVE  n < k * W <=> bit_index(n) < k
<1>1. /\ bit_index(n) \in Nat /\ bit_pos(n) \in 0..(W - 1)
      /\ n = bit_index(n) * W + bit_pos(n)
  BY Place DEF Full
<1> DEFINE i == bit_index(n)
           j == bit_pos(n)
<1> HIDE DEF i, j
<1>2. i \in Nat /\ j \in 0..(W - 1) /\ n = i * W + j
  BY <1>1 DEF i, j
<1>3. ASSUME i < k PROVE n < k * W
  <2>1. i + 1 \in Nat /\ i + 1 <= k
    BY <1>2, <1>3
  <2>2. (i + 1) * W <= k * W /\ k * W \in Nat
    BY <1>2, <2>1, Times
  <2>3. (i + 1) * W = i * W + W /\ i * W \in Nat
    BY <1>2, <2>1, Times
  <2>4. QED BY <1>2, <2>2, <2>3, WordLength
<1>4. ASSUME ~(i < k) PROVE ~(n < k * W)
  <2>1. k * W <= i * W /\ k * W \in Nat /\ i * W \in Nat
    BY <1>2, <1>4, Times
  <2>2. QED BY <1>2, <2>1, WordLength
<1>5. QED BY <1>3, <1>4 DEF i

(* Two numbers in order are in words in order.                              *)
LEMMA InOrder ==
  ASSUME NEW n \in Nat, NEW m \in Nat
  PROVE  n < m <=> \/ bit_index(n) < bit_index(m)
                   \/ bit_index(n) = bit_index(m) /\ bit_pos(n) < bit_pos(m)
<1>1. \A p \in Nat : /\ bit_index(p) \in Nat /\ bit_pos(p) \in Nat /\ bit_pos(p) < W
                     /\ p = bit_index(p) * W + bit_pos(p)
  BY Place, WordLength DEF Full
<1>2. CASE bit_index(n) < bit_index(m)
  <2>1. n < bit_index(m) * W
    BY <1>1, <1>2, Before
  <2>2. bit_index(m) * W <= m /\ bit_index(m) * W \in Nat
    BY <1>1, Times
  <2>3. QED BY <1>2, <2>1, <2>2
<1>3. CASE bit_index(m) < bit_index(n)
  <2>1. m < bit_index(n) * W
    BY <1>1, <1>3, Before
  <2>2. bit_index(n) * W <= n /\ bit_index(n) * W \in Nat
    BY <1>1, Times
  <2>3. bit_index(n) \in Nat /\ bit_index(m) \in Nat
    BY <1>1
  <2>4. QED BY <1>3, <2>1, <2>2, <2>3
<1>4. CASE bit_index(n) = bit_index(m)
  <2> DEFINE k == bit_index(m) * W
  <2>1. n = k + bit_pos(n) /\ m = k + bit_pos(m) /\ k \in Nat
    BY <1>1, <1>4, Times
  <2> HIDE DEF k
  <2>2. n < m <=> bit_pos(n) < bit_pos(m)
    BY <1>1, <2>1
  <2>3. QED BY <1>1, <1>4, <2>2
<1>5. bit_index(n) \in Nat /\ bit_index(m) \in Nat
  BY <1>1
<1>6. QED BY <1>2, <1>3, <1>4, <1>5

(* The word of a single bit.                                                *)
LEMMA BitIsPlace ==
  ASSUME NEW n \in Nat
  PROVE  Bit(n) = {bit_pos(n)}
<1>1. bit_pos(n) \in Full /\ bit_pos(n) \in Nat
  BY Place DEF Full
<1>2. Bit(n) = {0 + bit_pos(n)} \cap Full
  BY DEF Bit, rhs
<1>3. 0 + bit_pos(n) = bit_pos(n)
  BY <1>1
<1>4. QED BY <1>1, <1>2, <1>3

-----------------------------------------------------------------------------
(* The type of the state.                                                   *)
LEMMA SomeCall ==
  ASSUME call \in Calls
  PROVE  /\ Idle \/ call.op \in {"set", "clear"}
         /\ ~Idle => /\ call \in [op : {"set", "clear"}, index : Nat, bits : 1..W,
                                  mask : SUBSET Full, length : Nat, end : Nat,
                                  before : Seq(SUBSET Full)]
BY DEF Calls, Idle, NoCall

LEMMA ReplaceTyped ==
  ASSUME TypeOK, NEW n \in Nat, NEW word, Replace(n, word),
         bit_index(n) + 1 <= size => word \in SUBSET Full
  PROVE  TypeOK'
<1>0. bit_index(n) \in Nat
  BY Place
<1>1. bit_index(n) + 1 \in Nat \ {0} /\ data \in Seq(SUBSET Full)
  BY <1>0 DEF TypeOK
<1>2. result' \in {"Ok", "Err"} /\ call' = call
  BY DEF Replace
<1>3. CASE bit_index(n) + 1 <= size
  <2>1. data' = [data EXCEPT ![bit_index(n) + 1] = word] /\ word \in SUBSET Full
    BY <1>3 DEF Replace
  <2>2. data' \in Seq(SUBSET Full)
    BY <1>1, <1>3, <2>1 DEF size
  <2>3. QED BY <1>2, <2>2 DEF TypeOK, Calls, NoCall
<1>4. CASE ~(bit_index(n) + 1 <= size)
  BY <1>2, <1>4 DEF Replace, TypeOK, Calls, NoCall
<1>5. QED BY <1>3, <1>4

LEMMA WordOfTyped ==
  ASSUME TypeOK, NEW n \in Nat, bit_index(n) + 1 <= size
  PROVE  WordOf(n) \in SUBSET Full
<1>1. bit_index(n) \in Nat
  BY Place
<1>2. data \in Seq(SUBSET Full)
  BY DEF TypeOK
<1>3. bit_index(n) + 1 \in 1..Len(data)
  BY <1>1, <1>2 DEF size
<1>4. QED BY <1>2, <1>3 DEF WordOf

LEMMA ShiftTyped ==
  ASSUME NEW w, NEW n
  PROVE  rhs(w, n) \in SUBSET Full /\ lhs(w, n) \in SUBSET Full
BY DEF rhs, lhs

(* What the loop writes.                                                    *)
LEMMA ApplyTyped ==
  ASSUME TypeOK, ~Idle, call.index < size, NEW mask \in SUBSET Full, Apply(mask)
  PROVE  data' \in Seq(SUBSET Full) /\ Len(data') = Len(data)
<1>1. data \in Seq(SUBSET Full) /\ call.index + 1 \in 1..Len(data)
  BY SomeCall DEF TypeOK, size
<1>2. Masked(data[call.index + 1], mask) \in SUBSET Full
  BY <1>1 DEF Masked
<1>3. data' = [data EXCEPT ![call.index + 1] = Masked(data[call.index + 1], mask)]
  BY DEF Apply
<1>4. QED BY <1>1, <1>2, <1>3

LEMMA StartTyped ==
  ASSUME TypeOK, NEW op \in {"set", "clear"}, NEW start \in Nat, NEW len \in Nat,
         range(op, start, len)
  PROVE  TypeOK'
<1>1. CASE len = 0
  BY <1>1 DEF range, TypeOK, Calls, NoCall
<1>2. CASE len # 0
  <2>0. bit_index(start) \in Nat /\ bit_pos(start) \in 0..(W - 1)
    BY Place DEF Full
  <2>1. bit_index(start) \in Nat /\ W - bit_pos(start) \in 1..W /\ start + len \in Nat
    BY <2>0, WordLength
  <2>2. rhs(Full, bit_pos(start)) \in SUBSET Full
    BY ShiftTyped
  <2>3. call' = [op |-> op, index |-> bit_index(start), bits |-> W - bit_pos(start),
                 mask |-> rhs(Full, bit_pos(start)), length |-> len,
                 end |-> start + len, before |-> data]
        /\ data' = data /\ result' = result
    BY <1>2 DEF range
  <2>4. call' \in Calls
    BY <2>1, <2>2, <2>3 DEF TypeOK, Calls
  <2>5. QED BY <2>3, <2>4 DEF TypeOK, Calls, Full, NoCall
<1>3. QED BY <1>1, <1>2

LEMMA WholeWordTyped ==
  ASSUME TypeOK, WholeWord
  PROVE  TypeOK'
<1>1. ~Idle /\ call.length >= call.bits
  BY DEF WholeWord
<1>2. call \in [op : {"set", "clear"}, index : Nat, bits : 1..W, mask : SUBSET Full,
                length : Nat, end : Nat, before : Seq(SUBSET Full)]
  BY <1>1, SomeCall DEF TypeOK
<1>3. CASE call.index >= size
  BY <1>3 DEF WholeWord, OutOfBound, Finish, TypeOK, Calls, NoCall
<1>4. CASE ~(call.index >= size)
  <2>1. Apply(call.mask) /\ result' = result
        /\ call' = [call EXCEPT !.length = @ - call.bits, !.bits = W, !.mask = Full,
                                !.index = @ + 1]
    BY <1>4 DEF WholeWord
  <2>2. call.index < size
    BY <1>2, <1>4 DEF TypeOK, size
  <2>3. data' \in Seq(SUBSET Full)
    BY <1>1, <1>2, <2>1, <2>2, ApplyTyped
  <2>4. call.length - call.bits \in Nat /\ W \in 1..W /\ call.index + 1 \in Nat
    BY <1>1, <1>2, WordLength
  <2>5. call' \in Calls
    BY <1>2, <2>1, <2>4 DEF Calls
  <2>6. QED BY <2>1, <2>3, <2>5 DEF TypeOK, Calls, Full, NoCall
<1>5. QED BY <1>3, <1>4

LEMMA LastWordTyped ==
  ASSUME TypeOK, LastWord
  PROVE  TypeOK'
<1>1. ~Idle
  BY DEF LastWord
<1>2. call' = NoCall /\ result' \in {"Ok", "Err"}
  BY DEF LastWord, OutOfBound, Finish
<1>3. CASE call.length = 0 \/ call.index >= size
  <2>1. data' = data
    BY <1>3 DEF LastWord, OutOfBound
  <2>2. QED BY <1>2, <2>1 DEF TypeOK, Calls, NoCall
<1>4. CASE ~(call.length = 0 \/ call.index >= size)
  <2>1. Apply(call.mask \cap EndMask)
    BY <1>4 DEF LastWord
  <2>2. call.index < size /\ call.mask \cap EndMask \in SUBSET Full
    BY <1>1, <1>4, SomeCall, ShiftTyped DEF TypeOK, size, EndMask
  <2>3. data' \in Seq(SUBSET Full)
    BY <1>1, <2>1, <2>2, ApplyTyped
  <2>4. QED BY <1>2, <2>3 DEF TypeOK, Calls, NoCall
<1>5. QED BY <1>3, <1>4

LEMMA TypeInit == Init => TypeOK
<1> SUFFICES ASSUME Init PROVE TypeOK
  OBVIOUS
<1>1. data = [i \in 1..Size |-> {}] /\ call = NoCall /\ result = "Ok"
  BY DEF Init
<1>2. data \in Seq(SUBSET Full)
  BY <1>1, BitmapAssumption
<1>3. QED BY <1>1, <1>2 DEF TypeOK, Calls

LEMMA TypeInductive == TypeOK /\ [Next]_vars => TypeOK'
<1> SUFFICES ASSUME TypeOK, [Next]_vars PROVE TypeOK'
  OBVIOUS
<1>0. Numbers \subseteq Nat
  BY BitmapAssumption DEF Numbers
<1>1. ASSUME NEW num \in Numbers, set(num) \/ clear(num) \/ change(num)
      PROVE  TypeOK'
  <2>1. num \in Nat /\ Bit(num) \in SUBSET Full
    BY <1>0, ShiftTyped DEF Bit
  <2>2. bit_index(num) + 1 <= size => WordOf(num) \in SUBSET Full
    BY <2>1, WordOfTyped
  <2>3. CASE set(num)
    BY <2>1, <2>2, <2>3, ReplaceTyped DEF set
  <2>4. CASE clear(num)
    BY <2>1, <2>2, <2>4, ReplaceTyped DEF clear
  <2>5. CASE change(num)
    BY <2>1, <2>2, <2>5, ReplaceTyped DEF change
  <2>6. QED BY <1>1, <2>3, <2>4, <2>5
<1>2. ASSUME NEW op \in {"set", "clear"}, NEW start \in Numbers, NEW len \in Numbers,
             range(op, start, len)
      PROVE  TypeOK'
  BY <1>0, <1>2, StartTyped
<1>3. CASE clear_all
  <2>1. data' = [i \in 1..size |-> {}] /\ size \in Nat /\ call' = call /\ result' = result
    BY <1>3 DEF clear_all, TypeOK, size
  <2>2. data' \in Seq(SUBSET Full)
    BY <2>1
  <2>3. QED BY <2>1, <2>2 DEF TypeOK, Calls, NoCall
<1>4. CASE get_data
  BY <1>4 DEF get_data, TypeOK, Calls, NoCall
<1>5. CASE UNCHANGED vars
  BY <1>5 DEF vars, TypeOK, Calls, NoCall
<1>6. QED
  BY <1>1, <1>2, <1>3, <1>4, <1>5, WholeWordTyped, LastWordTyped DEF Next

LEMMA TypeHolds == Spec => []TypeOK
BY TypeInit, TypeInductive, PTL DEF Spec

(* TypeOK: every word keeps within its bits, and so do the locals of a      *)
(* range call, whatever is shifted and wherever the range ends.             *)
THEOREM TypeCorrect == Spec => []TypeOK
BY TypeHolds

-----------------------------------------------------------------------------
(* The members of a bitmap, by their places.                                *)
LEMMA Members ==
  ASSUME NEW words \in Seq(SUBSET Full), NEW n
  PROVE  n \in BitsOf(words) <=> /\ n \in Nat /\ bit_index(n) < Len(words)
                                 /\ bit_pos(n) \in words[bit_index(n) + 1]
<1>1. Len(words) \in Nat /\ Len(words) * W \in Nat
  BY WordLength
<1>2. n \in BitsOf(words) <=> /\ n \in Nat /\ n < Len(words) * W
                              /\ bit_pos(n) \in words[bit_index(n) + 1]
  BY <1>1 DEF BitsOf
<1>3. n \in Nat => (n < Len(words) * W <=> bit_index(n) < Len(words))
  BY <1>1, Before
<1>4. QED BY <1>2, <1>3

LEMMA InVolume ==
  ASSUME TypeOK, NEW n \in Nat
  PROVE  /\ size \in Nat /\ vol \in Nat /\ (n < vol <=> bit_index(n) < size)
         /\ n \in Ones <=> n < vol /\ bit_pos(n) \in WordOf(n)
         /\ n \in Zeros <=> n < vol /\ bit_pos(n) \notin WordOf(n)
<1>1. data \in Seq(SUBSET Full) /\ size \in Nat
  BY DEF TypeOK, size
<1>2. vol \in Nat /\ (n < vol <=> bit_index(n) < size)
  BY <1>1, WordLength, Before DEF vol
<1>3. n \in Ones <=> bit_index(n) < size /\ bit_pos(n) \in WordOf(n)
  BY <1>1, Members DEF Ones, WordOf, size
<1>4. n \in Zeros <=> n < vol /\ n \notin Ones
  BY <1>2 DEF Zeros
<1>5. QED BY <1>1, <1>2, <1>3, <1>4

LEMMA OnesAndZeros ==
  ASSUME TypeOK
  PROVE  Ones \subseteq Nat /\ Zeros \subseteq Nat
<1>1. data \in Seq(SUBSET Full)
  BY DEF TypeOK
<1>2. Ones \subseteq Nat
  BY <1>1, Members DEF Ones
<1>3. vol \in Nat
  BY <1>1, WordLength DEF vol, size
<1>4. QED BY <1>2, <1>3 DEF Zeros

LEMMA ContainIsRight == TypeOK => ContainsWhatIsSet
<1> SUFFICES ASSUME TypeOK, NEW num \in Numbers
             PROVE  contain(num) = IF num < vol THEN (IF num \in Ones THEN "true" ELSE "false")
                                   ELSE IF num = vol THEN "Panic" ELSE "Err"
  BY DEF ContainsWhatIsSet
<1>1. num \in Nat
  BY BitmapAssumption DEF Numbers
<1>2. Bit(num) = {bit_pos(num)}
  BY <1>1, BitIsPlace
<1>3. /\ size \in Nat /\ vol \in Nat /\ (num < vol <=> bit_index(num) < size)
      /\ num \in Ones <=> num < vol /\ bit_pos(num) \in WordOf(num)
  BY <1>1, InVolume
<1>4. bit_index(num) \in Nat
  BY <1>1, Place
<1>5. bit_index(num) >= size <=> ~(num < vol)
  BY <1>3, <1>4
<1>6. (Bit(num) \cap WordOf(num) # {}) <=> bit_pos(num) \in WordOf(num)
  BY <1>2
<1>7. CASE num < vol
  <2>1. ~(num > vol)
    BY <1>1, <1>3, <1>7
  <2>2. contain(num) = IF bit_pos(num) \in WordOf(num) THEN "true" ELSE "false"
    BY <1>5, <1>6, <1>7, <2>1 DEF contain
  <2>3. QED BY <1>3, <1>7, <2>2
<1>8. CASE num = vol
  <2>1. ~(num > vol) /\ ~(num < vol)
    BY <1>1, <1>3, <1>8
  <2>2. QED BY <1>5, <1>8, <2>1 DEF contain
<1>9. CASE num > vol
  <2>1. ~(num = vol) /\ ~(num < vol)
    BY <1>1, <1>3, <1>9
  <2>2. QED BY <1>9, <2>1 DEF contain
<1>10. QED BY <1>1, <1>3, <1>7, <1>8, <1>9

(* The bits that count_front_bits counts are as many as the members before  *)
(* offset: a bit and its number are one to one.                             *)
LEMMA CountIsRight == TypeOK => CountsBitsBefore
<1> SUFFICES ASSUME TypeOK, NEW offset \in Numbers, ~(offset > vol)
             PROVE  count_front_bits(offset) =
                      Answer("Ok", Cardinality({n \in Ones : n < offset}))
  BY DEF CountsBitsBefore, count_front_bits
<1> DEFINE Counted == {v \in Visited(offset) : v[2] \in data[v[1] + 1]}
           Below   == {n \in Ones : n < offset}
           place   == [n \in Below |-> <<bit_index(n), bit_pos(n)>>]
<1>1. offset \in Nat /\ bit_index(offset) \in Nat /\ bit_pos(offset) \in Full
  BY BitmapAssumption, Place DEF Numbers
<1>2. Below \in SUBSET Nat /\ \A n \in Below : n <= offset
  BY <1>1, OnesAndZeros
<1>3. IsFiniteSet(Below)
  BY <1>1, <1>2, FS_BoundedSetOfNaturals
<1>4. \A n \in Nat : n < offset <=>
        \/ bit_index(n) < bit_index(offset)
        \/ bit_index(n) = bit_index(offset) /\ bit_pos(n) < bit_pos(offset)
  BY <1>1, InOrder
<1>5. \A v : v \in Counted <=>
        /\ v \in (0..bit_index(offset)) \X Full
        /\ v[1] < bit_index(offset) \/ v[2] < bit_pos(offset)
        /\ v[2] \in data[v[1] + 1]
  BY DEF Visited
<1>6. \A n : n \in Below <=> /\ n \in Nat /\ n < offset /\ bit_index(n) < size
                             /\ bit_pos(n) \in data[bit_index(n) + 1]
  BY <1>1, InVolume, OnesAndZeros DEF WordOf
<1>a. ASSUME NEW v \in Visited(offset) PROVE v[1] < size
  <2>1. v[1] \in 0..bit_index(offset) /\ v[2] \in Full
        /\ (v[1] < bit_index(offset) \/ v[2] < bit_pos(offset))
    BY DEF Visited
  <2>2. v[1] \in Nat
    BY <1>1, <2>1
  <2>3. PICK n \in Nat : bit_index(n) = v[1] /\ bit_pos(n) = v[2]
    BY <2>1, <2>2, PlaceOf
  <2>4. n < offset
    BY <1>1, <1>4, <2>1, <2>3
  <2>5. vol \in Nat /\ (n < vol => bit_index(n) < size)
    BY InVolume, OnesAndZeros
  <2>6. n < vol
    BY <1>1, <2>4, <2>5
  <2>7. QED BY <2>3, <2>5, <2>6
<1> HIDE DEF Counted, Below
<1>7. ASSUME NEW n \in Below PROVE place[n] \in Counted
  <2>1. n \in Nat /\ bit_index(n) \in Nat /\ bit_pos(n) \in Full /\ n < offset
    BY <1>6, Place
  <2>2. \/ bit_index(n) < bit_index(offset)
        \/ bit_index(n) = bit_index(offset) /\ bit_pos(n) < bit_pos(offset)
    BY <1>4, <2>1
  <2>3. bit_index(n) \in 0..bit_index(offset)
    BY <1>1, <2>1, <2>2
  <2>4. <<bit_index(n), bit_pos(n)>> \in Counted
    BY <1>5, <1>6, <2>1, <2>2, <2>3
  <2>5. QED BY <2>4
<1>8. ASSUME NEW n \in Below, NEW m \in Below, place[n] = place[m] PROVE n = m
  <2>1. bit_index(n) = bit_index(m) /\ bit_pos(n) = bit_pos(m)
    BY <1>8
  <2>2. n \in Nat /\ m \in Nat
    BY <1>6
  <2>3. n = bit_index(n) * W + bit_pos(n) /\ m = bit_index(m) * W + bit_pos(m)
    BY <2>2, Place
  <2>4. QED BY <2>1, <2>3
<1>9. ASSUME NEW v \in Counted PROVE \E n \in Below : place[n] = v
  <2>1. v = <<v[1], v[2]>> /\ v[1] \in 0..bit_index(offset) /\ v[2] \in Full
        /\ (v[1] < bit_index(offset) \/ v[2] < bit_pos(offset))
        /\ v[1] < size /\ v[2] \in data[v[1] + 1] /\ v \in Visited(offset)
    BY <1>5, <1>a DEF Counted
  <2>2. v[1] \in Nat
    BY <1>1, <2>1
  <2>3. PICK n \in Nat : bit_index(n) = v[1] /\ bit_pos(n) = v[2]
    BY <2>1, <2>2, PlaceOf
  <2>4. v[1] < bit_index(offset) \/ (v[1] = bit_index(offset) /\ v[2] < bit_pos(offset))
    BY <1>1, <2>1
  <2>5. n \in Below
    BY <1>4, <1>6, <2>1, <2>3, <2>4
  <2>6. QED BY <2>1, <2>3, <2>5
<1>10. place \in Bijection(Below, Counted)
  <2>1. place \in [Below -> Counted]
    BY <1>7
  <2>2. place \in Injection(Below, Counted)
    BY <1>8, <2>1 DEF Injection, IsInjective
  <2>3. place \in Surjection(Below, Counted)
    BY <1>9, <2>1 DEF Surjection
  <2>4. QED BY <2>2, <2>3 DEF Bijection
<1>11. Cardinality(Counted) = Cardinality(Below)
  BY <1>3, <1>10, FS_Bijection DEF ExistsBijection
<1>12. ~(\E v \in Visited(offset) : v[1] >= size)
  <2>1. size \in Nat
    BY InVolume, OnesAndZeros
  <2>2. \A v \in Visited(offset) : v[1] \in Nat
    BY <1>1 DEF Visited
  <2>3. QED BY <1>a, <2>1, <2>2
<1>13. count_front_bits(offset) = Answer("Ok", Cardinality(Counted))
  BY <1>12 DEF Counted, count_front_bits
<1>14. QED BY <1>11, <1>13 DEF Below

-----------------------------------------------------------------------------
(* The searches.                                                            *)
LEMMA LeastNumber ==
  ASSUME NEW S \in SUBSET Nat, S # {}
  PROVE  \E n \in S : \A m \in S : n <= m
<1> DEFINE R == OpToRel(<, Nat)
<1>1. IsWellFoundedOn(R, Nat)
  BY NatLessThanWellFounded
<1>2. \A x, y \in Nat : y < x => <<y, x>> \in R
  BY DEF OpToRel
<1> HIDE DEF R
<1>3. PICK n \in S : \A m \in S : <<m, n>> \notin R
  BY <1>1, WFMin
<1>4. ASSUME NEW m \in S PROVE n <= m
  <2>1. ~(m < n)
    BY <1>2, <1>3
  <2>2. QED BY <2>1
<1>5. QED BY <1>4

LEMMA LeastIsNext ==
  ASSUME NEW S \in SUBSET Nat, NEW offset \in Nat
  PROVE  NextFrom(S, offset, Least({n \in S : n >= offset}))
<1> DEFINE T == {n \in S : n >= offset}
<1>1. T \in SUBSET Nat /\ \A n : n \in T <=> n \in S /\ n >= offset
  OBVIOUS
<1> HIDE DEF T
<1>2. CASE T = {}
  <2>1. Least(T) = vol /\ ~(\E m \in S : m >= offset)
    BY <1>1, <1>2 DEF Least
  <2>2. QED BY <2>1 DEF NextFrom, T
<1>3. CASE T # {}
  <2>1. \E n \in T : \A m \in T : n <= m
    BY <1>1, <1>3, LeastNumber
  <2>2. Least(T) \in T /\ \A m \in T : Least(T) <= m
    BY <1>3, <2>1 DEF Least
  <2>3. \E m \in S : m >= offset
    BY <1>1, <1>3
  <2>4. Least(T) \in S /\ Least(T) >= offset /\ \A m \in S : m >= offset => Least(T) <= m
    BY <1>1, <2>2
  <2>5. QED BY <2>3, <2>4 DEF NextFrom, T
<1>4. QED BY <1>2, <1>3

(* Where no word was skipped, the place in its word is reset behind the     *)
(* first one, and what is found are the zeros from offset on.               *)
LEMMA FoundFrom ==
  ASSUME NEW words \in Seq(SUBSET Full), NEW offset \in Nat,
         \/ bit_pos(offset) = 0
         \/ bit_index(offset) < Len(words) /\ words[bit_index(offset) + 1] # Full
  PROVE  \A n : n \in Found(words, offset) <=>
                  /\ n \in Nat /\ n >= offset /\ bit_index(n) < Len(words)
                  /\ bit_pos(n) \notin words[bit_index(n) + 1]
<1> DEFINE b == bit_index(offset)
           p == bit_pos(offset)
<1>1. b \in Nat /\ p \in Full /\ Len(words) \in Nat
  BY Place
<1> DEFINE Skipped(i) == \A k \in b..(i - 1) : words[k + 1] = Full
<1>2. \A i \in Nat : From(words, offset, i) = IF Skipped(i) THEN p ELSE 0
  BY DEF From
<1>3. ASSUME NEW i \in Nat, i >= b
      PROVE  From(words, offset, i) = IF i = b THEN p ELSE 0
  <2>1. CASE i = b
    <3>1. Skipped(i)
      BY <1>1, <2>1
    <3>2. QED BY <1>2, <2>1, <3>1
  <2>2. CASE i # b
    <3>1. CASE p = 0
      BY <1>2, <2>2, <3>1
    <3>2. CASE words[b + 1] # Full
      <4>1. b \in b..(i - 1)
        BY <1>1, <1>3, <2>2
      <4>2. ~Skipped(i)
        BY <3>2, <4>1
      <4>3. QED BY <1>2, <2>2, <4>2
    <3>3. QED BY <3>1, <3>2
  <2>3. QED BY <2>1, <2>2
<1>4. \A n : n \in Found(words, offset) <=>
        \E v \in (b..(Len(words) - 1)) \X Full :
          /\ v[2] >= From(words, offset, v[1]) /\ v[2] \notin words[v[1] + 1]
          /\ n = v[1] * W + v[2]
  BY DEF Found
<1>5. \A n \in Nat : /\ bit_index(n) \in Nat /\ bit_pos(n) \in Full
                     /\ n = bit_index(n) * W + bit_pos(n)
                     /\ ~(n < offset) <=> ~(\/ bit_index(n) < b
                                            \/ bit_index(n) = b /\ bit_pos(n) < p)
  BY Place, InOrder
<1>6. \A i \in Nat, j \in Full :
        i * W + j \in Nat /\ bit_index(i * W + j) = i /\ bit_pos(i * W + j) = j
  BY PlaceOf
<1> HIDE DEF b, p, Skipped
<1>7. ASSUME NEW n \in Nat
      PROVE  n >= offset <=> /\ bit_index(n) >= b
                             /\ bit_pos(n) >= From(words, offset, bit_index(n))
  <2>0. Full \subseteq Nat
    BY DEF Full
  <2>1. /\ bit_index(n) \in Nat /\ bit_pos(n) \in Nat
        /\ ~(n < offset) <=> ~(\/ bit_index(n) < b
                               \/ bit_index(n) = b /\ bit_pos(n) < p)
    BY <1>5, <2>0
  <2>2. n >= offset <=> ~(n < offset)
    OBVIOUS
  <2>3. bit_index(n) >= b =>
          From(words, offset, bit_index(n)) = IF bit_index(n) = b THEN p ELSE 0
    BY <1>3, <2>1
  <2>4. p \in Nat
    BY <1>1 DEF Full
  <2>5. QED BY <1>1, <2>1, <2>2, <2>3, <2>4
<1>8. ASSUME NEW n, n \in Found(words, offset)
      PROVE  /\ n \in Nat /\ n >= offset /\ bit_index(n) < Len(words)
             /\ bit_pos(n) \notin words[bit_index(n) + 1]
  <2>1. PICK v \in (b..(Len(words) - 1)) \X Full :
          /\ v[2] >= From(words, offset, v[1]) /\ v[2] \notin words[v[1] + 1]
          /\ n = v[1] * W + v[2]
    BY <1>4, <1>8
  <2>2. v[1] \in Nat /\ v[1] >= b /\ v[1] < Len(words) /\ v[2] \in Full
    BY <1>1, <2>1
  <2>3. n \in Nat /\ bit_index(n) = v[1] /\ bit_pos(n) = v[2]
    BY <1>6, <2>1, <2>2
  <2>4. QED BY <1>7, <2>1, <2>2, <2>3
<1>9. ASSUME NEW n, /\ n \in Nat /\ n >= offset /\ bit_index(n) < Len(words)
                    /\ bit_pos(n) \notin words[bit_index(n) + 1]
      PROVE  n \in Found(words, offset)
  <2>1. bit_index(n) \in Nat /\ bit_pos(n) \in Full
        /\ n = bit_index(n) * W + bit_pos(n)
    BY <1>5, <1>9
  <2>2. bit_index(n) >= b /\ bit_pos(n) >= From(words, offset, bit_index(n))
    BY <1>7, <1>9
  <2>3. bit_index(n) \in b..(Len(words) - 1)
    BY <1>1, <1>9, <2>1, <2>2
  <2> DEFINE v == <<bit_index(n), bit_pos(n)>>
  <2>4. v \in (b..(Len(words) - 1)) \X Full /\ v[1] = bit_index(n) /\ v[2] = bit_pos(n)
    BY <2>1, <2>3
  <2>5. QED BY <1>4, <1>9, <2>1, <2>2, <2>4
<1>10. QED BY <1>8, <1>9

LEMMA FindsRight == TypeOK => FindsFirst
<1> DEFINE searched(offset, skipped) ==
             \/ bit_pos(offset) = 0
             \/ offset < vol /\ WordOf(offset) # skipped
<1> SUFFICES ASSUME TypeOK, NEW offset \in Numbers
             PROVE  /\ searched(offset, Full) => NextFrom(Zeros, offset, find_next_zero(offset))
                    /\ searched(offset, {}) => NextFrom(Ones, offset, find_next_bit(offset))
  BY DEF FindsFirst
<1>1. offset \in Nat /\ data \in Seq(SUBSET Full) /\ size = Len(data) /\ size \in Nat
  BY BitmapAssumption DEF Numbers, TypeOK, size
<1>2. \A n \in Nat : /\ n < vol <=> bit_index(n) < size
                     /\ n \in Ones <=> n < vol /\ bit_pos(n) \in WordOf(n)
                     /\ n \in Zeros <=> n < vol /\ bit_pos(n) \notin WordOf(n)
                     /\ bit_index(n) \in Nat /\ bit_pos(n) \in Full
  BY InVolume, Place
<1>3. Ones \in SUBSET Nat /\ Zeros \in SUBSET Nat
  BY OnesAndZeros
<1>4. ASSUME searched(offset, Full)
      PROVE  NextFrom(Zeros, offset, find_next_zero(offset))
  <2>1. \/ bit_pos(offset) = 0
        \/ bit_index(offset) < Len(data) /\ data[bit_index(offset) + 1] # Full
    BY <1>1, <1>2, <1>4 DEF WordOf
  <2>2. \A n : n \in Found(data, offset) <=>
                 /\ n \in Nat /\ n >= offset /\ bit_index(n) < Len(data)
                 /\ bit_pos(n) \notin data[bit_index(n) + 1]
    BY <1>1, <2>1, FoundFrom
  <2>3. \A n : n \in Found(data, offset) <=> n \in Zeros /\ n >= offset
    BY <1>1, <1>2, <1>3, <2>2 DEF WordOf
  <2>4. Found(data, offset) = {n \in Zeros : n >= offset}
    BY <2>3
  <2>5. QED BY <1>1, <1>3, <2>4, LeastIsNext DEF find_next_zero
<1>5. ASSUME searched(offset, {})
      PROVE  NextFrom(Ones, offset, find_next_bit(offset))
  <2> DEFINE words == [i \in 1..size |-> Full \ data[i]]
  <2>1. words \in Seq(SUBSET Full) /\ Len(words) = size
        /\ \A i \in 1..size : words[i] = Full \ data[i] /\ data[i] \in SUBSET Full
    BY <1>1
  <2> HIDE DEF words
  <2>2. ASSUME NEW n \in Nat, bit_index(n) < size PROVE bit_index(n) + 1 \in 1..size
    <3>1. bit_index(n) \in Nat
      BY Place
    <3>2. QED BY <1>1, <2>2, <3>1
  <2>3. \/ bit_pos(offset) = 0
        \/ bit_index(offset) < Len(words) /\ words[bit_index(offset) + 1] # Full
    <3>1. CASE bit_pos(offset) = 0
      BY <3>1
    <3>2. CASE offset < vol /\ WordOf(offset) # {}
      <4>1. bit_index(offset) < size /\ bit_index(offset) + 1 \in 1..size
        BY <1>1, <1>2, <2>2, <3>2
      <4>2. data[bit_index(offset) + 1] # {} /\ data[bit_index(offset) + 1] \in SUBSET Full
        BY <2>1, <3>2, <4>1 DEF WordOf
      <4>3. words[bit_index(offset) + 1] # Full
        BY <2>1, <4>1, <4>2
      <4>4. QED BY <2>1, <4>1, <4>3
    <3>3. QED BY <1>5, <3>1, <3>2
  <2>4. \A n : n \in Found(words, offset) <=>
                 /\ n \in Nat /\ n >= offset /\ bit_index(n) < Len(words)
                 /\ bit_pos(n) \notin words[bit_index(n) + 1]
    BY <1>1, <2>1, <2>3, FoundFrom
  <2>5. ASSUME NEW n PROVE n \in Found(words, offset) <=> n \in Ones /\ n >= offset
    <3>1. CASE n \notin Nat
      BY <1>3, <2>4, <3>1
    <3>2. CASE n \in Nat /\ ~(bit_index(n) < size)
      BY <1>2, <2>1, <2>4, <3>2
    <3>3. CASE n \in Nat /\ bit_index(n) < size
      <4>1. words[bit_index(n) + 1] = Full \ data[bit_index(n) + 1]
        BY <2>1, <2>2, <3>3
      <4>2. bit_pos(n) \notin words[bit_index(n) + 1] <=> bit_pos(n) \in WordOf(n)
        BY <1>2, <3>3, <4>1 DEF WordOf
      <4>3. QED BY <1>2, <2>1, <2>4, <3>3, <4>2
    <3>4. QED BY <3>1, <3>2, <3>3
  <2>6. Found(words, offset) = {n \in Ones : n >= offset}
    BY <2>5
  <2>7. QED BY <1>1, <1>3, <2>6, LeastIsNext DEF find_next_bit, words
<1>6. QED BY <1>4, <1>5

LEMMA FromZero == TypeOK => find_next_zero(0) = Least(Zeros)
<1> SUFFICES ASSUME TypeOK PROVE find_next_zero(0) = Least(Zeros)
  OBVIOUS
<1>1. data \in Seq(SUBSET Full) /\ bit_pos(0) = 0
  BY WordLength DEF TypeOK, bit_pos
<1>2. \A n : n \in Found(data, 0) <=> /\ n \in Nat /\ n >= 0 /\ bit_index(n) < Len(data)
                                      /\ bit_pos(n) \notin data[bit_index(n) + 1]
  BY <1>1, FoundFrom
<1>3. \A n \in Nat : /\ n < vol <=> bit_index(n) < size
                     /\ n \in Zeros <=> n < vol /\ bit_pos(n) \notin WordOf(n)
  BY InVolume
<1>4. \A n : n \in Found(data, 0) <=> n \in Zeros
  BY <1>2, <1>3, OnesAndZeros DEF WordOf, size
<1>5. Found(data, 0) = Zeros
  BY <1>4
<1>6. QED BY <1>5 DEF find_next_zero

(* ContainsWhatIsSet: contain tells members from others, refuses what is    *)
(* beyond the volume, and panics at the volume itself.                      *)
THEOREM ContainTellsMembers == Spec => []ContainsWhatIsSet
BY TypeHolds, ContainIsRight, PTL

(* CountsBitsBefore: count_front_bits counts the members before offset.     *)
THEOREM CountIsOfMembers == Spec => []CountsBitsBefore
BY TypeHolds, CountIsRight, PTL

(* FindsFirst: from the start of a word, and from inside a word that is not *)
(* skipped, a search returns the first zero, or one, that there is.         *)
THEOREM SearchFindsFirst == Spec => []FindsFirst
BY TypeHolds, FindsRight, PTL

(* A search from zero is never one that begins inside a word: it finds the  *)
(* least zero, or the volume if there is none.  allocate_gsi of the         *)
(* interrupt table searches from zero, so that it is not touched by what    *)
(* the search does elsewhere.                                               *)
THEOREM SearchFromZero == Spec => [](find_next_zero(0) = Least(Zeros))
BY TypeHolds, FromZero, PTL

-----------------------------------------------------------------------------
(* The ranges.  A call that is under way was made for some start and len;   *)
(* it has touched the numbers from start up to its position, none of them   *)
(* beyond the volume, and is at the bits of the word at index that begin at *)
(* that position.                                                           *)
Position     == call.end - call.length
Ranged(S, R) == IF call.op = "set" THEN S \cup R ELSE S \ R

Underway(start, len) ==
  /\ len > 0 /\ call.end = start + len
  /\ Position >= start
  /\ Position + call.bits = (call.index + 1) * W
  /\ call.mask = {j \in Full : j >= W - call.bits}
  /\ Len(call.before) = size
  /\ Position > start => Position <= vol
  /\ Ones = Ranged(BitsOf(call.before), start..(Position - 1))

CallInv == ~Idle => \E start, len \in Numbers : Underway(start, len)

RInv == TypeOK /\ CallInv

Mapped == BitsOf(IF Idle THEN data ELSE call.before)

(* The numbers of the bits from a to before b of word i.                    *)
LEMMA WordInterval ==
  ASSUME NEW i \in Nat, NEW a \in 0..W, NEW b \in 0..W, NEW n \in Nat
  PROVE  n \in (i * W + a)..(i * W + b - 1) <=>
           bit_index(n) = i /\ a <= bit_pos(n) /\ bit_pos(n) < b
<1>1. bit_index(n) \in Nat /\ bit_pos(n) \in 0..(W - 1)
  BY Place DEF Full
<1>2. (n < i * W <=> bit_index(n) < i) /\ (n < (i + 1) * W <=> bit_index(n) < i + 1)
  BY Before
<1> DEFINE k == i * W
<1>3. k \in Nat /\ (i + 1) * W = k + W
  BY Times
<1>4. bit_index(n) = i => n = k + bit_pos(n)
  BY Place
<1> HIDE DEF k
<1>5. (n < k <=> bit_index(n) < i) /\ (n < k + W <=> bit_index(n) < i + 1)
  BY <1>2, <1>3 DEF k
<1>6. n \in (k + a)..(k + b - 1) => bit_index(n) = i
  <2>1. SUFFICES ASSUME n \in (k + a)..(k + b - 1) PROVE bit_index(n) = i
    OBVIOUS
  <2>2. ~(n < k) /\ n < k + W
    BY <1>3, <2>1, WordLength
  <2>3. QED BY <1>1, <1>5, <2>2
<1>7. bit_index(n) = i =>
        (n \in (k + a)..(k + b - 1) <=> a <= bit_pos(n) /\ bit_pos(n) < b)
  BY <1>1, <1>3, <1>4, WordLength
<1>8. QED BY <1>6, <1>7 DEF k

Put(words, i, word) == [words EXCEPT ![i + 1] = word]

(* The members once a word was replaced.                                    *)
LEMMA WordReplaced ==
  ASSUME NEW words \in Seq(SUBSET Full), NEW i \in Nat, i < Len(words),
         NEW word \in SUBSET Full
  PROVE  \A n : n \in BitsOf(Put(words, i, word)) <=>
           /\ n \in Nat /\ bit_index(n) < Len(words)
           /\ bit_pos(n) \in IF bit_index(n) = i THEN word ELSE words[bit_index(n) + 1]
<1> DEFINE new == Put(words, i, word)
<1>0. new = [words EXCEPT ![i + 1] = word]
  BY DEF Put
<1> HIDE DEF new
<1>1. new \in Seq(SUBSET Full) /\ Len(new) = Len(words) /\ Len(words) \in Nat
  BY <1>0
<1>2. ASSUME NEW n \in Nat, bit_index(n) < Len(words)
      PROVE  new[bit_index(n) + 1] = IF bit_index(n) = i THEN word ELSE words[bit_index(n) + 1]
  <2>1. bit_index(n) \in Nat
    BY Place
  <2>2. bit_index(n) + 1 \in 1..Len(words) /\ DOMAIN words = 1..Len(words)
    BY <1>1, <1>2, <2>1
  <2>3. bit_index(n) + 1 = i + 1 <=> bit_index(n) = i
    BY <2>1
  <2>4. QED BY <1>0, <2>2, <2>3
<1>3. \A n : n \in BitsOf(new) <=> /\ n \in Nat /\ bit_index(n) < Len(new)
                                   /\ bit_pos(n) \in new[bit_index(n) + 1]
  BY <1>1, Members
<1>4. QED BY <1>1, <1>2, <1>3 DEF new

(* The members once the loop has applied a mask to the word at index.       *)
LEMMA Masking ==
  ASSUME TypeOK, ~Idle, call.index < size, NEW mask \in SUBSET Full, Apply(mask),
         NEW R \in SUBSET Nat,
         \A n \in Nat : n \in R <=> bit_index(n) = call.index /\ bit_pos(n) \in mask
  PROVE  BitsOf(data') = Ranged(Ones, R)
<1>1. data \in Seq(SUBSET Full) /\ call.index \in Nat /\ call.index < Len(data)
  BY SomeCall DEF TypeOK, size
<1> DEFINE i == call.index
           word == data[i + 1]
<1>2. word \in SUBSET Full /\ Masked(word, mask) \in SUBSET Full
  BY <1>1 DEF Masked
<1>3. data' = [data EXCEPT ![i + 1] = Masked(word, mask)]
  BY DEF Apply
<1> HIDE DEF i, word
<1>4. i \in Nat /\ i < Len(data)
  BY <1>1 DEF i
<1> DEFINE w == Masked(word, mask)
<1>a. w \in SUBSET Full
  BY <1>2
<1> HIDE DEF w
<1>b. \A n : n \in BitsOf(Put(data, i, w)) <=>
        /\ n \in Nat /\ bit_index(n) < Len(data)
        /\ bit_pos(n) \in IF bit_index(n) = i THEN w ELSE data[bit_index(n) + 1]
  BY <1>1, <1>4, <1>a, WordReplaced
<1>5. \A n : n \in BitsOf(data') <=>
        /\ n \in Nat /\ bit_index(n) < Len(data)
        /\ bit_pos(n) \in IF bit_index(n) = i THEN Masked(word, mask)
                                              ELSE data[bit_index(n) + 1]
  BY <1>3, <1>b DEF w, Put
<1>6. \A n : n \in Ones <=> /\ n \in Nat /\ bit_index(n) < Len(data)
                            /\ bit_pos(n) \in data[bit_index(n) + 1]
  BY <1>1, Members DEF Ones
<1>7. \A n \in Nat : n \in R <=> bit_index(n) = i /\ bit_pos(n) \in mask
  BY DEF i
<1>8. \A n \in Nat : bit_index(n) = i => data[bit_index(n) + 1] = word
  BY DEF word
<1>9. CASE call.op = "set"
  <2>1. Masked(word, mask) = word \cup mask /\ Ranged(Ones, R) = Ones \cup R
    BY <1>9 DEF Masked, Ranged
  <2>2. \A n : n \in BitsOf(data') <=> n \in Ones \/ (n \in Nat /\ n \in R)
    BY <1>4, <1>5, <1>6, <1>7, <1>8, <2>1
  <2>3. QED BY <2>1, <2>2
<1>10. CASE call.op # "set"
  <2>1. Masked(word, mask) = word \ mask /\ Ranged(Ones, R) = Ones \ R
    BY <1>10 DEF Masked, Ranged
  <2>2. \A n : n \in BitsOf(data') <=> n \in Ones /\ n \notin R
    BY <1>4, <1>5, <1>6, <1>7, <1>8, <2>1
  <2>3. QED BY <2>1, <2>2
<1>11. QED BY <1>9, <1>10

LEMMA UnderwayTyped ==
  ASSUME TypeOK, ~Idle, NEW start \in Numbers, NEW len \in Numbers, Underway(start, len)
  PROVE  /\ start \in Nat /\ len \in Nat /\ len > 0 /\ call.end = start + len
         /\ call.length \in Nat /\ call.bits \in 1..W /\ call.index \in Nat
         /\ size \in Nat /\ vol = size * W /\ vol \in Nat
         /\ Position \in Nat /\ Position >= start /\ Position + call.length = start + len
         /\ Position = call.index * W + (W - call.bits)
         /\ Position + call.bits = (call.index + 1) * W
         /\ (call.index + 1) * W \in Nat /\ call.index * W \in Nat
<1>1. start \in Nat /\ len \in Nat
  BY BitmapAssumption DEF Numbers
<1>2. call.length \in Nat /\ call.bits \in 1..W /\ call.index \in Nat
  BY SomeCall DEF TypeOK
<1>3. size \in Nat /\ vol = size * W /\ vol \in Nat
  BY WordLength DEF TypeOK, size, vol
<1>4. len > 0 /\ call.end = start + len /\ Position >= start /\ Position = call.end - call.length
      /\ Position + call.bits = (call.index + 1) * W
  BY DEF Underway, Position
<1>5. Position \in Nat /\ Position + call.length = start + len
  BY <1>1, <1>2, <1>4
<1>6. (call.index + 1) * W = call.index * W + W /\ call.index * W \in Nat
  BY <1>2, Times
<1>7. (call.index + 1) * W \in Nat
  BY <1>6, WordLength
<1>8. Position = call.index * W + (W - call.bits)
  <2> DEFINE k == call.index * W
             q == (call.index + 1) * W
  <2>1. Position + call.bits = q /\ q = k + W /\ k \in Nat
    BY <1>4, <1>6
  <2> HIDE DEF k, q
  <2>2. Position = k + (W - call.bits)
    BY <1>2, <1>5, <2>1, WordLength
  <2>3. QED BY <2>2 DEF k
<1>9. QED BY <1>1, <1>2, <1>3, <1>4, <1>5, <1>6, <1>7, <1>8

(* The bits that remain of the word of a call.                              *)
LEMMA RestOfWord ==
  ASSUME NEW k \in Nat, k < W
  PROVE  /\ rhs(Full, k) = {j \in Full : j >= k}
         /\ k > 0 => lhs(Full, W - k) = {j \in Full : j < k}
<1>1. ASSUME NEW j \in Full PROVE j \in rhs(Full, k) <=> j >= k
  <2>1. j >= k => j - k \in Full /\ (j - k) + k = j
    BY <1>1, WordLength DEF Full
  <2>2. \A i \in Full : i + k = j => j >= k
    BY <1>1, WordLength DEF Full
  <2>3. QED BY <1>1, <2>1, <2>2 DEF rhs
<1>2. ASSUME NEW j \in Full, k > 0 PROVE j \in lhs(Full, W - k) <=> j < k
  <2>1. j < k => j + (W - k) \in Full /\ (j + (W - k)) - (W - k) = j
    BY <1>2, WordLength DEF Full
  <2>2. \A i \in Full : i - (W - k) = j => j < k
    BY <1>2, WordLength DEF Full
  <2>3. QED BY <1>2, <2>1, <2>2 DEF lhs
<1>3. QED BY <1>1, <1>2, ShiftTyped

(* A call begins before it has touched anything.                            *)
LEMMA StartUnderway ==
  ASSUME TypeOK, NEW op \in {"set", "clear"}, NEW start \in Numbers, NEW len \in Numbers,
         len # 0, range(op, start, len)
  PROVE  ~Idle' /\ Underway(start, len)'
<1>1. start \in Nat /\ len \in Nat /\ len > 0
  BY BitmapAssumption DEF Numbers
<1> DEFINE i == bit_index(start)
           k == bit_pos(start)
<1>2. call' = [op |-> op, index |-> i, bits |-> W - k, mask |-> rhs(Full, k),
               length |-> len, end |-> start + len, before |-> data]
      /\ data' = data
  BY DEF range
<1>3. i \in Nat /\ k \in Nat /\ k < W /\ start = i * W + k
  BY <1>1, Place, WordLength DEF Full
<1> HIDE DEF i, k
<1>4. Position' = start
  BY <1>1, <1>2 DEF Position
<1>5. start + (W - k) = (i + 1) * W
  <2>1. (i + 1) * W = i * W + W /\ i * W \in Nat
    BY <1>3, Times
  <2>2. QED BY <1>3, <2>1, WordLength
<1>6. rhs(Full, k) = {j \in Full : j >= k} /\ W - (W - k) = k
  BY <1>3, RestOfWord, WordLength
<1>7. ~Idle'
  BY <1>2 DEF Idle, NoCall
<1>8. Ones' = Ranged(BitsOf(call.before), start..(Position - 1))'
  <2>1. Ones' = BitsOf(data) /\ call'.before = data
    BY <1>2 DEF Ones
  <2>2. start..(start - 1) = {}
    BY <1>1
  <2>3. Ranged(BitsOf(call.before), start..(Position - 1))' = BitsOf(data)
    BY <1>4, <2>1, <2>2 DEF Ranged
  <2>4. QED BY <2>1, <2>3
<1>9. /\ len > 0 /\ call'.end = start + len
      /\ Position' >= start
      /\ Position' + call'.bits = (call'.index + 1) * W
      /\ call'.mask = {j \in Full : j >= W - call'.bits}
      /\ Len(call'.before) = size'
      /\ ~(Position' > start)
  BY <1>1, <1>2, <1>4, <1>5, <1>6 DEF size
<1>10. Underway(start, len)'
  BY <1>8, <1>9 DEF Underway, Full
<1>11. QED BY <1>7, <1>10

(* The rest of a word: the numbers from the position to its end.            *)
LEMMA WordUnderway ==
  ASSUME TypeOK, NEW start \in Numbers, NEW len \in Numbers, Underway(start, len),
         WholeWord, call.index < size
  PROVE  ~Idle' /\ Underway(start, len)' /\ call'.before = call.before /\ result' = result
<1> DEFINE p == Position
           q == (call.index + 1) * W
           i == call.index
           b == call.bits
<1>0. ~Idle /\ call.length >= b
  BY DEF WholeWord
<1>1. /\ start \in Nat /\ len \in Nat /\ len > 0 /\ call.end = start + len
      /\ call.length \in Nat /\ b \in 1..W /\ i \in Nat
      /\ size \in Nat /\ vol = size * W /\ vol \in Nat
      /\ p \in Nat /\ p >= start /\ p = i * W + (W - b) /\ p + b = q /\ q \in Nat
      /\ i * W \in Nat
  BY <1>0, UnderwayTyped
<1>2. call \in [op : {"set", "clear"}, index : Nat, bits : 1..W, mask : SUBSET Full,
                length : Nat, end : Nat, before : Seq(SUBSET Full)]
  BY <1>0, SomeCall DEF TypeOK
<1>3. /\ Apply(call.mask) /\ result' = result
      /\ call' = [call EXCEPT !.length = @ - call.bits, !.bits = W, !.mask = Full,
                              !.index = @ + 1]
  BY <1>1 DEF WholeWord
<1>4. /\ call'.op = call.op /\ call'.end = call.end /\ call'.before = call.before
      /\ call'.length = call.length - b /\ call'.bits = W /\ call'.mask = Full
      /\ call'.index = i + 1
  BY <1>2, <1>3
<1>5. ~Idle'
  <2>1. call' # NoCall
    BY <1>2, <1>4 DEF NoCall
  <2>2. QED BY <2>1 DEF Idle, NoCall
<1>6. Position' = q
  <2>1. Position' = call.end - (call.length - b) /\ p = call.end - call.length
    BY <1>4 DEF Position
  <2>2. QED BY <1>1, <2>1
<1>7. call.mask = {j \in Full : j >= W - b}
  BY DEF Underway
<1>8. data' \in Seq(SUBSET Full) /\ size' = size /\ vol' = vol
  BY <1>0, <1>2, <1>3, ApplyTyped DEF size, vol
<1>9. \A n \in Nat : n \in p..(q - 1) <=> bit_index(n) = i /\ bit_pos(n) \in call.mask
  <2>1. TAKE n \in Nat
  <2>2. q = i * W + W
    BY <1>1, Times
  <2>3. W - b \in 0..W /\ W \in 0..W
    BY <1>1, WordLength
  <2>4. n \in p..(q - 1) <=> bit_index(n) = i /\ W - b <= bit_pos(n) /\ bit_pos(n) < W
    BY <1>1, <2>2, <2>3, WordInterval
  <2>5. bit_pos(n) \in Full
    BY Place
  <2>6. QED BY <1>1, <1>7, <2>4, <2>5, WordLength DEF Full
<1> HIDE DEF p, q, i, b
<1>10. Ones' = Ranged(Ones, p..(q - 1))
  <2>1. p..(q - 1) \in SUBSET Nat
    BY <1>1
  <2>2. BitsOf(data') = Ranged(Ones, p..(q - 1))
    BY <1>0, <1>2, <1>3, <1>9, <2>1, Masking DEF i
  <2>3. QED BY <2>2 DEF Ones, BitsOf, bit_index, bit_pos
<1>11. Ones = Ranged(BitsOf(call.before), start..(p - 1)) /\ Len(call.before) = size
  BY DEF Underway, p
<1>12. start..(q - 1) = start..(p - 1) \cup p..(q - 1)
  BY <1>1
<1>13. Ones' = Ranged(BitsOf(call.before), start..(q - 1))
  BY <1>10, <1>11, <1>12 DEF Ranged
<1>14. Ones' = Ranged(BitsOf(call.before), start..(Position - 1))'
  BY <1>4, <1>6, <1>13 DEF Ranged, BitsOf, bit_index, bit_pos
<1>15. q <= vol
  BY <1>1, Times DEF i, q
<1>16. q + W = (call'.index + 1) * W
  <2>1. ((i + 1) + 1) * W = (i + 1) * W + W
    BY <1>1, Times
  <2>2. QED BY <1>4, <2>1 DEF q, i
<1>17. Full = {j \in Full : j >= W - W}
  BY WordLength DEF Full
<1>18. /\ len > 0 /\ call'.end = start + len
       /\ Position' >= start
       /\ Position' + call'.bits = (call'.index + 1) * W
       /\ call'.mask = {j \in Full : j >= W - call'.bits}
       /\ Len(call'.before) = size'
       /\ Position' > start => Position' <= vol'
  <2>1. len > 0 /\ call'.end = start + len /\ Len(call'.before) = size'
    BY <1>1, <1>4, <1>8, <1>11
  <2>2. Position' >= start /\ Position' <= vol'
    BY <1>1, <1>6, <1>8, <1>15
  <2>3. Position' + call'.bits = (call'.index + 1) * W
    BY <1>4, <1>6, <1>16
  <2>4. call'.mask = {j \in Full : j >= W - call'.bits}
    BY <1>4, <1>17
  <2>5. QED BY <2>1, <2>2, <2>3, <2>4
<1>19. Underway(start, len)'
  BY <1>14, <1>18 DEF Underway, Full
<1>20. QED BY <1>3, <1>4, <1>5, <1>19

-----------------------------------------------------------------------------
(* The steps of the set of numbers.                                         *)
LEMMA MappedBits ==
  /\ Idle => Mapped = Ones
  /\ ~Idle => Mapped = BitsOf(call.before)
  /\ Idle' => Mapped' = BitsOf(data')
  /\ ~Idle' => Mapped' = BitsOf(call'.before)
BY DEF Mapped, Ones, BitsOf, bit_index, bit_pos

LEMMA NumberStep ==
  ASSUME NEW num \in Numbers, NEW new, vol' = vol,
         Mapped' = IF num < vol THEN new ELSE Mapped,
         result' = IF num < vol THEN "Ok" ELSE "Err",
         new \in {Mapped \cup {num}, Mapped \ {num}, (Mapped \ {num}) \cup ({num} \ Mapped)}
  PROVE  Set!Next
<1>1. Set!ToOne(num, new)
  BY DEF Set!ToOne, Set!Return, Mapped
<1>2. Set!Set(num) \/ Set!Clear(num) \/ Set!Change(num)
  BY <1>1 DEF Set!Set, Set!Clear, Set!Change, Mapped
<1>3. QED BY <1>2 DEF Set!Next

LEMMA RangeStep ==
  ASSUME NEW start \in Numbers, NEW len \in Numbers, NEW R, vol' = vol,
         R = start..(start + len - 1) \cap 0..(vol - 1),
         Mapped' = Mapped \cup R \/ Mapped' = Mapped \ R,
         result' = IF len = 0 \/ start + len <= vol THEN "Ok" ELSE "Err"
  PROVE  Set!Next
<1>1. Set!Range(start, len) = R
  BY DEF Set!Range
<1>2. Set!SetRange(start, len) \/ Set!ClearRange(start, len)
  BY <1>1 DEF Set!SetRange, Set!ClearRange, Set!ToRange, Set!Return, Mapped
<1>3. QED BY <1>2 DEF Set!Next

(* set, clear and change.                                                   *)
LEMMA ReplaceImplements ==
  ASSUME TypeOK, NEW num \in Numbers, set(num) \/ clear(num) \/ change(num)
  PROVE  Set!Next
<1> DEFINE i == bit_index(num)
           w == WordOf(num)
           b == Bit(num)
<1>1. /\ num \in Nat /\ i \in Nat /\ b = {bit_pos(num)} /\ bit_pos(num) \in Full
      /\ data \in Seq(SUBSET Full) /\ size \in Nat /\ (num < vol <=> i < size)
      /\ size = Len(data)
  <2>1. num \in Nat
    BY BitmapAssumption DEF Numbers
  <2>2. data \in Seq(SUBSET Full) /\ size = Len(data)
    BY DEF TypeOK, size
  <2>3. i \in Nat /\ bit_pos(num) \in Full /\ b = {bit_pos(num)}
    BY <2>1, Place, BitIsPlace
  <2>4. size \in Nat /\ (num < vol <=> i < size)
    BY <2>1, InVolume
  <2>5. QED BY <2>1, <2>2, <2>3, <2>4
<1>2. PICK word \in {w \cup b, w \ b, (w \ b) \cup (b \ w)} : Replace(num, word)
  BY DEF set, clear, change
<1> DEFINE new == IF word = w \cup b THEN Mapped \cup {num}
                  ELSE IF word = w \ b THEN Mapped \ {num}
                  ELSE (Mapped \ {num}) \cup ({num} \ Mapped)
<1>3. Idle /\ call' = call
  BY <1>2 DEF Replace
<1>4. Mapped = Ones /\ Mapped' = BitsOf(data')
  BY <1>3, MappedBits DEF Idle, NoCall
<1>5. CASE num < vol
  <2>1. data' = Put(data, i, word) /\ result' = "Ok"
    <3>1. i + 1 <= size
      BY <1>1, <1>5
    <3>2. QED BY <1>2, <3>1 DEF Replace, Put
  <2>2. w \in SUBSET Full /\ word \in SUBSET Full
    <3>1. w \in SUBSET Full
      BY <1>1, <1>5 DEF WordOf
    <3>2. QED BY <1>1, <1>2, <3>1
  <2>3. \A n \in Nat : /\ bit_index(n) = i => data[bit_index(n) + 1] = w
                       /\ bit_index(n) = i /\ bit_pos(n) \in b <=> n = num
    <3>1. TAKE n \in Nat
    <3>2. n = bit_index(n) * W + bit_pos(n) /\ num = i * W + bit_pos(num)
      BY <1>1, Place
    <3>3. QED BY <1>1, <3>2 DEF WordOf
  <2>4. \A n : n \in Ones <=> /\ n \in Nat /\ bit_index(n) < Len(data)
                              /\ bit_pos(n) \in data[bit_index(n) + 1]
    BY <1>1, Members DEF Ones
  <2> HIDE DEF i, w, b
  <2>5. \A n : n \in BitsOf(Put(data, i, word)) <=>
           /\ n \in Nat /\ bit_index(n) < Len(data)
           /\ bit_pos(n) \in IF bit_index(n) = i THEN word ELSE data[bit_index(n) + 1]
    BY <1>1, <1>5, <2>2, WordReplaced
  <2>6. \A n : n \in BitsOf(data') <=>
           IF n \in Nat /\ bit_index(n) = i THEN bit_pos(n) \in word ELSE n \in Ones
    BY <1>1, <1>5, <2>1, <2>4, <2>5
  <2>7. \A n \in Nat : bit_index(n) = i => (n \in Ones <=> bit_pos(n) \in w)
    BY <1>1, <1>5, <2>3, <2>4
  <2>8. Ones \subseteq Nat
    BY <2>4
  <2>9. new \in {Mapped \cup {num}, Mapped \ {num}, (Mapped \ {num}) \cup ({num} \ Mapped)}
    OBVIOUS
  <2>10. BitsOf(data') = new
    <3>1. CASE word = w \cup b
      <4>1. \A n : n \in BitsOf(data') <=> n \in Ones \cup {num}
        BY <1>1, <2>3, <2>6, <2>7, <2>8, <3>1
      <4>2. QED BY <1>4, <3>1, <4>1
    <3>2. CASE word # w \cup b /\ word = w \ b
      <4>1. \A n : n \in BitsOf(data') <=> n \in Ones \ {num}
        BY <1>1, <2>3, <2>6, <2>7, <2>8, <3>2
      <4>2. QED BY <1>4, <3>2, <4>1
    <3>3. CASE word # w \cup b /\ word # w \ b
      <4>1. word = (w \ b) \cup (b \ w)
        BY <1>2, <3>3 DEF w, b
      <4>2. \A n : n \in BitsOf(data') <=> n \in (Ones \ {num}) \cup ({num} \ Ones)
        BY <1>1, <2>3, <2>6, <2>7, <2>8, <4>1
      <4>3. QED BY <1>4, <3>3, <4>2
    <3>4. QED BY <3>1, <3>2, <3>3
  <2>11. vol' = vol
    BY <1>1, <2>1 DEF vol, size, Put
  <2> HIDE DEF new
  <2>12. Mapped' = IF num < vol THEN new ELSE Mapped
    BY <1>4, <1>5, <2>10
  <2>13. result' = IF num < vol THEN "Ok" ELSE "Err"
    BY <1>5, <2>1
  <2>14. QED BY <2>9, <2>11, <2>12, <2>13, NumberStep
<1>6. CASE ~(num < vol)
  <2>1. data' = data /\ result' = "Err"
    <3>1. ~(i + 1 <= size)
      BY <1>1, <1>6
    <3>2. QED BY <1>2, <3>1 DEF Replace
  <2>2. vol' = vol /\ Mapped' = Mapped
    BY <1>3, <2>1 DEF vol, size, Mapped, Idle, NoCall, BitsOf, bit_index, bit_pos
  <2> DEFINE one == Mapped \cup {num}
  <2>3. Mapped' = IF num < vol THEN one ELSE Mapped
    BY <1>6, <2>2
  <2>4. result' = IF num < vol THEN "Ok" ELSE "Err"
    BY <1>6, <2>1
  <2>5. one \in {Mapped \cup {num}, Mapped \ {num}, (Mapped \ {num}) \cup ({num} \ Mapped)}
    OBVIOUS
  <2> HIDE DEF one
  <2>6. QED BY <2>2, <2>3, <2>4, <2>5, NumberStep
<1>7. QED BY <1>5, <1>6

(* A call returns: what it has touched is what there is of its range.       *)
LEMMA ReturnImplements ==
  ASSUME TypeOK, ~Idle, NEW start \in Numbers, NEW len \in Numbers, NEW R,
         call' = NoCall, vol' = vol, R = start..(start + len - 1) \cap 0..(vol - 1),
         BitsOf(data') = Ranged(BitsOf(call.before), R),
         result' = IF len = 0 \/ start + len <= vol THEN "Ok" ELSE "Err"
  PROVE  Set!Next
<1>1. Idle'
  BY DEF Idle, NoCall
<1>2. Mapped' = BitsOf(data') /\ Mapped = BitsOf(call.before)
  BY <1>1, MappedBits
<1>3. Mapped' = Mapped \cup R \/ Mapped' = Mapped \ R
  BY <1>2 DEF Ranged
<1>4. QED BY <1>3, RangeStep

LEMMA OutOfBoundImplements ==
  ASSUME TypeOK, ~Idle, NEW start \in Numbers, NEW len \in Numbers, Underway(start, len),
         call.length > 0, call.index >= size, OutOfBound
  PROVE  Set!Next
<1> DEFINE p == Position
           k == call.index * W
           R == start..(start + len - 1) \cap 0..(vol - 1)
<1>1. /\ start \in Nat /\ len \in Nat /\ len > 0 /\ call.length \in Nat /\ call.bits \in 1..W
      /\ call.index \in Nat /\ size \in Nat /\ vol = size * W /\ vol \in Nat
      /\ p \in Nat /\ p >= start /\ p + call.length = start + len
      /\ p = k + (W - call.bits) /\ k \in Nat
  BY UnderwayTyped
<1>2. Ones = Ranged(BitsOf(call.before), start..(p - 1)) /\ (p > start => p <= vol)
  BY DEF Underway
<1>3. size * W <= k
  BY <1>1, Times
<1>4. data' = data /\ call' = NoCall /\ result' = "Err"
  BY DEF OutOfBound, Finish
<1> HIDE DEF p, k, R
<1>5. vol <= p
  <2>1. vol <= k
    BY <1>1, <1>3
  <2>2. QED BY <1>1, <2>1, WordLength
<1>6. R = start..(p - 1)
  <2>1. CASE p = start
    BY <1>1, <1>5, <2>1 DEF R
  <2>2. CASE p = vol /\ p > start
    BY <1>1, <2>2 DEF R
  <2>3. QED BY <1>1, <1>2, <1>5, <2>1, <2>2
<1>7. BitsOf(data') = Ranged(BitsOf(call.before), R)
  BY <1>2, <1>4, <1>6 DEF Ones
<1>8. ~(len = 0 \/ start + len <= vol)
  BY <1>1, <1>5
<1>9. vol' = vol
  BY <1>4 DEF vol, size
<1>10. QED BY <1>4, <1>7, <1>8, <1>9, ReturnImplements DEF R

LEMMA LastWordImplements ==
  ASSUME TypeOK, NEW start \in Numbers, NEW len \in Numbers, Underway(start, len), LastWord
  PROVE  Set!Next
<1> DEFINE p == Position
           i == call.index
           R == start..(start + len - 1) \cap 0..(vol - 1)
<1>0. ~Idle /\ call.length < call.bits
  BY DEF LastWord
<1>1. /\ start \in Nat /\ len \in Nat /\ len > 0 /\ call.length \in Nat /\ call.bits \in 1..W
      /\ i \in Nat /\ size \in Nat /\ vol = size * W /\ vol \in Nat
      /\ p \in Nat /\ p >= start /\ p + call.length = start + len
      /\ p = i * W + (W - call.bits) /\ i * W \in Nat /\ call.end = start + len
      /\ p + call.bits = (i + 1) * W /\ (i + 1) * W \in Nat
  BY <1>0, UnderwayTyped
<1>2. Ones = Ranged(BitsOf(call.before), start..(p - 1)) /\ (p > start => p <= vol)
  BY DEF Underway
<1>3. CASE call.length = 0
  <2>1. data' = data /\ call' = NoCall /\ result' = "Ok"
    BY <1>3 DEF LastWord, Finish
  <2>2. p = start + len /\ p <= vol
    BY <1>1, <1>2, <1>3
  <2> HIDE DEF p, R, i
  <2>3. R = start..(p - 1)
    BY <1>1, <2>2 DEF R
  <2>4. BitsOf(data') = Ranged(BitsOf(call.before), R)
    BY <1>2, <2>1, <2>3 DEF Ones
  <2>5. vol' = vol /\ start + len <= vol
    BY <2>1, <2>2 DEF vol, size
  <2>6. QED BY <1>0, <2>1, <2>4, <2>5, ReturnImplements DEF R
<1>4. CASE call.length # 0 /\ call.index >= size
  <2>1. OutOfBound /\ call.length > 0
    BY <1>1, <1>4 DEF LastWord
  <2>2. QED BY <1>0, <1>4, <2>1, OutOfBoundImplements
<1>5. CASE call.length # 0 /\ ~(call.index >= size)
  <2> DEFINE mask == call.mask \cap EndMask
             e    == start + len
             b    == call.bits
             r    == bit_pos(e)
  <2>1. Apply(mask) /\ call' = NoCall /\ result' = "Ok" /\ i < size
    BY <1>1, <1>5 DEF LastWord, Finish
  <2>2. mask \in SUBSET Full
    BY <1>0, SomeCall DEF TypeOK
  <2>3. e \in Nat /\ e > p /\ p >= i * W /\ e < (i + 1) * W
    <3> DEFINE k == i * W
               q == (i + 1) * W
    <3>1. p = k + (W - call.bits) /\ k \in Nat /\ p + call.bits = q
      BY <1>1
    <3> HIDE DEF p, k, q
    <3>2. e \in Nat /\ e > p /\ p >= k /\ e < q
      BY <1>0, <1>1, <1>5, <3>1, WordLength
    <3>3. QED BY <3>2 DEF k, q
  <2>4. bit_index(e) = i
    <3>1. ~(e < i * W) /\ e < (i + 1) * W
      BY <1>1, <2>3
    <3>2. ~(bit_index(e) < i) /\ bit_index(e) < i + 1 /\ bit_index(e) \in Nat
      BY <1>1, <2>3, <3>1, Before, Place
    <3>3. QED BY <1>1, <3>2
  <2>5. r \in Nat /\ r < W /\ e = i * W + r /\ r > 0
    <3>1. r \in 0..(W - 1) /\ e = i * W + r
      BY <2>3, <2>4, Place DEF Full
    <3>2. QED BY <1>1, <2>3, <3>1, WordLength
  <2>6. EndMask = {j \in Full : j < r}
    <3>1. W - r \in Full
      BY <2>5, WordLength DEF Full
    <3>2. bit_pos(W - r) = W - r
      BY <3>1, WordLength DEF bit_pos, Full
    <3>3. EndMask = lhs(Full, W - r)
      BY <1>1, <3>2 DEF EndMask
    <3>4. QED BY <2>5, <3>3, RestOfWord
  <2>7. call.mask = {j \in Full : j >= W - b}
    BY DEF Underway
  <2>8. \A n \in Nat : n \in p..(e - 1) <=> bit_index(n) = i /\ bit_pos(n) \in mask
    <3>1. TAKE n \in Nat
    <3>2. W - b \in 0..W /\ r \in 0..W
      BY <1>1, <2>5, WordLength
    <3>3. n \in p..(e - 1) <=> bit_index(n) = i /\ W - b <= bit_pos(n) /\ bit_pos(n) < r
      BY <1>1, <2>5, <3>2, WordInterval
    <3>4. bit_pos(n) \in Full
      BY Place
    <3>5. bit_pos(n) \in mask <=> W - b <= bit_pos(n) /\ bit_pos(n) < r
      BY <1>1, <2>5, <2>6, <2>7, <3>4, WordLength DEF Full
    <3>6. QED BY <3>3, <3>5
  <2>9. e <= vol
    <3>1. (i + 1) * W <= vol
      BY <1>1, <2>1, Times
    <3>2. QED BY <1>1, <2>3, <3>1
  <2>10. data' \in Seq(SUBSET Full) /\ vol' = vol
    BY <1>0, <2>1, <2>2, ApplyTyped DEF vol, size
  <2> HIDE DEF p, R, i, mask, e, b, r
  <2>11. BitsOf(data') = Ranged(Ones, p..(e - 1))
    <3>1. p..(e - 1) \in SUBSET Nat
      BY <1>1
    <3>2. QED BY <1>0, <2>1, <2>2, <2>8, <3>1, Masking DEF i
  <2>12. R = start..(p - 1) \cup p..(e - 1)
    BY <1>1, <2>3, <2>9 DEF R, e
  <2>13. BitsOf(data') = Ranged(BitsOf(call.before), R)
    BY <1>2, <2>11, <2>12 DEF Ranged
  <2>14. start + len <= vol
    BY <2>9 DEF e
  <2>15. QED BY <1>0, <2>1, <2>10, <2>13, <2>14, ReturnImplements DEF R
<1>6. QED BY <1>3, <1>4, <1>5

-----------------------------------------------------------------------------
(* The invariant of the ranges, and the refinement.                         *)
LEMMA StutterMaps ==
  ASSUME data' = data, result' = result, Mapped' = Mapped
  PROVE  UNCHANGED Set!vars
BY DEF Set!vars, Mapped, vol, size

LEMMA CallInductive ==
  ASSUME RInv, [Next]_vars
  PROVE  RInv' /\ (Set!Next \/ UNCHANGED Set!vars)
<1>0. TypeOK /\ CallInv /\ Numbers \subseteq Nat
  BY BitmapAssumption DEF RInv, Numbers
<1>1. TypeOK'
  BY <1>0, TypeInductive
<1>2. ASSUME Idle' PROVE CallInv'
  BY <1>2 DEF CallInv
<1>3. call' = NoCall => Idle'
  BY DEF Idle, NoCall
<1>4. ASSUME NEW num \in Numbers, set(num) \/ clear(num) \/ change(num)
      PROVE  CallInv' /\ Set!Next
  <2>1. Idle /\ call' = call
    BY <1>4 DEF set, clear, change, Replace
  <2>2. CallInv'
    BY <1>2, <1>3, <2>1 DEF Idle
  <2>3. QED BY <1>0, <1>4, <2>2, ReplaceImplements
<1>5. ASSUME NEW op \in {"set", "clear"}, NEW start \in Numbers, NEW len \in Numbers,
             range(op, start, len)
      PROVE  CallInv' /\ (Set!Next \/ UNCHANGED Set!vars)
  <2>1. Idle /\ data' = data
    BY <1>5 DEF range
  <2>2. CASE len = 0
    <3>1. result' = "Ok" /\ call' = call /\ Idle'
      BY <1>5, <2>1, <2>2 DEF range, Idle, NoCall
    <3>2. Mapped' = Mapped
      BY <2>1, <3>1, MappedBits DEF Ones
    <3> DEFINE R == start..(start + len - 1) \cap 0..(vol - 1)
    <3>3. start + len - 1 < start
      BY <1>0, <2>2
    <3>4. R = {}
      BY <1>0, <2>2, <3>3
    <3>5. vol' = vol
      BY <2>1 DEF vol, size
    <3>6. Mapped' = Mapped \cup R
      BY <3>2, <3>4
    <3>7. result' = IF len = 0 \/ start + len <= vol THEN "Ok" ELSE "Err"
      BY <2>2, <3>1
    <3> HIDE DEF R
    <3>8. Set!Next
      BY <3>5, <3>6, <3>7, RangeStep DEF R
    <3>9. QED BY <1>2, <3>1, <3>8
  <2>3. CASE len # 0
    <3>1. ~Idle' /\ Underway(start, len)'
      BY <1>0, <1>5, <2>3, StartUnderway
    <3>2. CallInv'
      BY <3>1 DEF CallInv
    <3>3. result' = result /\ call'.before = data
      BY <1>5, <2>3 DEF range
    <3>4. Mapped' = Mapped
      BY <2>1, <3>1, <3>3, MappedBits DEF Ones
    <3>5. QED BY <2>1, <3>2, <3>3, <3>4, StutterMaps
  <2>4. QED BY <2>2, <2>3
<1>6. ASSUME WholeWord PROVE CallInv' /\ (Set!Next \/ UNCHANGED Set!vars)
  <2>1. ~Idle
    BY <1>6 DEF WholeWord
  <2>2. PICK start, len \in Numbers : Underway(start, len)
    BY <1>0, <2>1 DEF CallInv
  <2>3. /\ call.length \in Nat /\ call.bits \in 1..W /\ call.index \in Nat /\ size \in Nat
    BY <1>0, <2>1, <2>2, UnderwayTyped
  <2>4. CASE call.index >= size
    <3>1. OutOfBound /\ call.length > 0
      BY <1>6, <2>3, <2>4 DEF WholeWord
    <3>2. call' = NoCall
      BY <3>1 DEF OutOfBound, Finish
    <3>3. QED BY <1>0, <1>2, <1>3, <2>1, <2>2, <2>4, <3>1, <3>2, OutOfBoundImplements
  <2>5. CASE call.index < size
    <3>1. ~Idle' /\ Underway(start, len)' /\ call'.before = call.before /\ result' = result
      BY <1>0, <1>6, <2>2, <2>5, WordUnderway
    <3>2. CallInv'
      BY <3>1 DEF CallInv
    <3>3. Mapped' = Mapped
      BY <2>1, <3>1, MappedBits
    <3>4. vol' = vol
      <4>1. Len(data') = Len(data)
        BY <3>1, <2>2 DEF Underway, size
      <4>2. QED BY <4>1 DEF vol, size
    <3>5. UNCHANGED Set!vars
      BY <3>1, <3>3, <3>4 DEF Set!vars, Mapped
    <3>6. QED BY <3>2, <3>5
  <2>6. QED BY <2>3, <2>4, <2>5
<1>7. ASSUME LastWord PROVE CallInv' /\ Set!Next
  <2>1. ~Idle /\ call' = NoCall
    BY <1>7 DEF LastWord, OutOfBound, Finish
  <2>2. PICK start, len \in Numbers : Underway(start, len)
    BY <1>0, <2>1 DEF CallInv
  <2>3. QED BY <1>0, <1>2, <1>3, <1>7, <2>1, <2>2, LastWordImplements
<1>8. ASSUME clear_all \/ get_data PROVE CallInv' /\ Set!Next
  <2>1. Idle /\ call' = call /\ result' = result
    BY <1>8 DEF clear_all, get_data
  <2>2. Idle'
    BY <1>3, <2>1 DEF Idle
  <2>3. Mapped' = BitsOf(data')
    BY <2>2, MappedBits
  <2>4. size \in Nat
    BY <1>0 DEF TypeOK, size
  <2>5. CASE clear_all
    <3>1. data' = [i \in 1..size |-> {}]
      BY <2>5 DEF clear_all
    <3>2. data' \in Seq(SUBSET Full) /\ Len(data') = size /\ \A i \in 1..size : data'[i] = {}
      BY <2>4, <3>1
    <3>3. \A n : n \notin BitsOf(data')
      <4>1. ASSUME NEW n \in BitsOf(data') PROVE FALSE
        <5>1. n \in Nat /\ bit_index(n) < size /\ bit_pos(n) \in data'[bit_index(n) + 1]
          BY <3>2, <4>1, Members
        <5>2. bit_index(n) \in Nat
          BY <5>1, Place
        <5>3. bit_index(n) + 1 \in 1..size
          BY <2>4, <5>1, <5>2
        <5>4. QED BY <3>2, <5>1, <5>3
      <4>2. QED BY <4>1
    <3>4. Mapped' = {} /\ vol' = vol
      BY <2>3, <3>2, <3>3 DEF vol, size
    <3>5. Set!ClearAll
      BY <2>1, <3>4 DEF Set!ClearAll, Mapped
    <3>6. QED BY <1>2, <2>2, <3>5 DEF Set!Next
  <2>6. CASE get_data
    <3>1. data' = <<>> /\ Len(<<>>) = 0 /\ <<>> \in Seq(SUBSET Full)
      BY <2>6 DEF get_data
    <3>2. \A n : n \notin BitsOf(data')
      <4>1. ASSUME NEW n \in BitsOf(data') PROVE FALSE
        <5>1. n \in Nat /\ bit_index(n) < 0
          BY <3>1, <4>1, Members
        <5>2. QED BY <5>1, Place
      <4>2. QED BY <4>1
    <3>3. vol' = 0
      <4>1. 0 * W = 0
        BY WordLength
      <4>2. QED BY <3>1, <4>1 DEF vol, size
    <3>4. Mapped' = {}
      BY <2>3, <3>2
    <3>5. Set!GetData
      BY <2>1, <3>3, <3>4 DEF Set!GetData, Mapped
    <3>6. QED BY <1>2, <2>2, <3>5 DEF Set!Next
  <2>7. QED BY <1>8, <2>5, <2>6
<1>9. ASSUME UNCHANGED vars PROVE CallInv' /\ UNCHANGED Set!vars
  <2>1. data' = data /\ call' = call /\ result' = result
    BY <1>9 DEF vars
  <2>2. Mapped' = Mapped
    BY <2>1 DEF Mapped, Idle, NoCall, BitsOf, bit_index, bit_pos
  <2>3. CallInv'
    BY <1>0, <2>1 DEF CallInv, Underway, Position, Ranged, Idle, NoCall, Ones, BitsOf,
       bit_index, bit_pos, size, vol, Full, Numbers
  <2>4. QED BY <2>1, <2>2, <2>3, StutterMaps
<1>10. QED BY <1>1, <1>4, <1>5, <1>6, <1>7, <1>8, <1>9 DEF RInv, Next

LEMMA InitMaps == Init => RInv /\ Set!Init
<1> SUFFICES ASSUME Init PROVE RInv /\ Set!Init
  OBVIOUS
<1>1. data = [i \in 1..Size |-> {}] /\ call = NoCall /\ result = "Ok" /\ Size \in Nat
  BY BitmapAssumption DEF Init
<1>2. TypeOK /\ Idle
  BY <1>1, TypeInit DEF Idle
<1>3. data \in Seq(SUBSET Full) /\ Len(data) = Size /\ \A i \in 1..Size : data[i] = {}
  BY <1>1
<1>4. ASSUME NEW n \in BitsOf(data) PROVE FALSE
  <2>1. n \in Nat /\ bit_index(n) < Size /\ bit_pos(n) \in data[bit_index(n) + 1]
    BY <1>3, <1>4, Members
  <2>2. bit_index(n) \in Nat
    BY <2>1, Place
  <2>3. bit_index(n) + 1 \in 1..Size
    BY <1>1, <2>1, <2>2
  <2>4. QED BY <1>3, <2>1, <2>3
<1>5. Mapped = {}
  BY <1>2, <1>4, MappedBits DEF Ones
<1>6. vol = Size * W
  BY <1>3 DEF vol, size
<1>7. Set!Init
  BY <1>1, <1>5, <1>6 DEF Set!Init, Mapped
<1>8. QED BY <1>2, <1>7 DEF RInv, CallInv

(* CallInv: wherever its loop stands, a range call has changed just the     *)
(* numbers from its start to its position, and none beyond the volume.      *)
THEOREM RangesInStep == Spec => []CallInv
<1>1. RInv /\ [Next]_vars => RInv'
  BY CallInductive
<1>2. RInv => CallInv
  BY DEF RInv
<1>3. QED BY <1>1, <1>2, InitMaps, PTL DEF Spec

(* ImplementsSet: set, clear, change, the ranges, clear_all and get_data do *)
(* to the words what they would do to a set of numbers below the volume,    *)
(* with the same result; a range takes effect when its call returns.        *)
THEOREM ImplementsASet == Spec => ImplementsSet
<1>1. RInv /\ [Next]_vars => RInv' /\ [Set!Next]_(Set!vars)
  BY CallInductive
<1>2. QED BY <1>1, InitMaps, PTL DEF Spec, ImplementsSet, Set!Spec
=============================================================================
