------------------------------- MODULE Bitmap -------------------------------
(***************************************************************************)
(* Bitmap<T> (utils/src/bitmap.rs): numbers kept as the bits of a vector   *)
(* of words.  A word is the set of its bits that are one.                  *)
(*                                                                         *)
(* The two range operations walk from word to word and can fail on the     *)
(* way, so each round of their loops is a step; everything else is one.    *)
(* The queries change nothing and are operators.                           *)
(***************************************************************************)
EXTENDS Integers, Sequences, FiniteSets

CONSTANTS
  W,       (* T::len(), the bits of a word                                  *)
  Size,    (* the words of a new bitmap                                     *)
  MaxArg   (* bounds the numbers callers pass                               *)

ASSUME BitmapAssumption == W \in Nat \ {0} /\ Size \in Nat /\ MaxArg \in Nat

VARIABLES
  data,    (* Bitmap.data: data[i + 1] is word i                            *)
  call,    (* the locals of the set_range or clear_range under way          *)
  result   (* what the last call returned                                   *)

vars == <<data, call, result>>

-----------------------------------------------------------------------------
(* Words: full, << and >>.  The bits shifted out are lost.                  *)
Full      == 0..(W - 1)
rhsWide(w, n) == {i + n : i \in w}  \* faulty: they are kept
rhs(w, n) == {i + n : i \in w} \cap Full
lhs(w, n) == {i - n : i \in w} \cap Full

size           == Len(data)
vol            == size * W
bit_index(num) == num \div W
bit_pos(num)   == num % W
Bit(num)       == rhs({0}, bit_pos(num))

Numbers == 0..MaxArg
NoCall  == [op |-> "none"]
Idle    == call = NoCall

Init == data = [i \in 1..Size |-> {}] /\ call = NoCall /\ result = "Ok"

-----------------------------------------------------------------------------
(* set, clear and change replace one word, if there is such a word.         *)
Replace(num, word) ==
  /\ Idle
  /\ LET i == bit_index(num) + 1
     IN  IF i <= size THEN data' = [data EXCEPT ![i] = word] /\ result' = "Ok"
                      ELSE result' = "Err" /\ UNCHANGED data
  /\ UNCHANGED call

WordOf(num) == data[bit_index(num) + 1]

set(num)    == Replace(num, WordOf(num) \cup Bit(num))
clear(num)  == Replace(num, WordOf(num) \ Bit(num))
change(num) == Replace(num, (WordOf(num) \ Bit(num)) \cup (Bit(num) \ WordOf(num)))

(* set_range and clear_range begin with the bits from start to the end of   *)
(* its word.  mask holds the bits to set or to clear, where clear_range     *)
(* keeps the complement.                                                    *)
range(op, start, len) ==
  /\ Idle
  /\ IF len = 0
     THEN result' = "Ok" /\ UNCHANGED call
     ELSE /\ call' = [op |-> op, index |-> bit_index(start), bits |-> W - bit_pos(start),
                      mask |-> rhs(Full, bit_pos(start)), length |-> len,
                      end |-> start + len, before |-> data]
          /\ UNCHANGED result
  /\ UNCHANGED data

Masked(word, mask) == IF call.op = "set" THEN word \cup mask ELSE word \ mask
Apply(mask) == data' = [data EXCEPT ![call.index + 1] = Masked(@, mask)]
Finish(res) == call' = NoCall /\ result' = res

OutOfBound == Finish("Err") /\ UNCHANGED data

(* The loop: as long as the words from index on are touched to their ends.  *)
WholeWord ==
  /\ ~Idle /\ call.length >= call.bits
  /\ IF call.index >= size
     THEN OutOfBound
     ELSE /\ Apply(call.mask)
          /\ call' = [call EXCEPT !.length = @ - call.bits, !.bits = W, !.mask = Full,
                                  !.index = @ + 1]
          /\ UNCHANGED result

(* After it: the bits of the last word that come before the end.            *)
EndMaskShort == rhs(Full, bit_pos(W - bit_pos(call.end)))  \* faulty: << for >>
EndMask      == lhs(Full, bit_pos(W - bit_pos(call.end)))

LastWord ==
  /\ ~Idle /\ call.length < call.bits
  /\ IF call.length = 0 THEN Finish("Ok") /\ UNCHANGED data
     ELSE IF call.index >= size THEN OutOfBound
     ELSE Apply(call.mask \cap EndMask) /\ Finish("Ok")

clear_all == Idle /\ data' = [i \in 1..size |-> {}] /\ UNCHANGED <<call, result>>

(* The vector is moved out: the bitmap has no words any more.               *)
get_data == Idle /\ data' = <<>> /\ UNCHANGED <<call, result>>

Next ==
  \/ \E num \in Numbers : set(num) \/ clear(num) \/ change(num)
  \/ \E op \in {"set", "clear"}, start, len \in Numbers : range(op, start, len)
  \/ WholeWord \/ LastWord
  \/ clear_all \/ get_data

Spec == Init /\ [][Next]_vars

-----------------------------------------------------------------------------
(* The queries.  Indexing the vector out of bounds panics.                  *)
containSize(num) ==                 \* faulty: the bound is the number of words
  IF num > size THEN "Err"
  ELSE IF Bit(num) \cap WordOf(num) # {} THEN "true" ELSE "false"
contain(num) ==
  IF num > vol THEN "Err"
  ELSE IF bit_index(num) >= size THEN "Panic"
  ELSE IF Bit(num) \cap WordOf(num) # {} THEN "true" ELSE "false"

(* count_front_bits visits all bits of the words before offset's word, and  *)
(* those before offset in that one.                                         *)
VisitedAll(offset) == (0..bit_index(offset)) \X Full  \* faulty: the whole last word
Visited(offset) ==
  {v \in (0..bit_index(offset)) \X Full : v[1] < bit_index(offset) \/ v[2] < bit_pos(offset)}

(* Visiting a word behind the last one panics.                              *)
Answer(res, count) == [res |-> res, count |-> count]

count_front_bits(offset) ==
  IF offset > vol THEN Answer("Err", 0)
  ELSE IF \E v \in Visited(offset) : v[1] >= size THEN Answer("Panic", 0)
  ELSE Answer("Ok", Cardinality({v \in Visited(offset) : v[2] \in data[v[1] + 1]}))

(* The place of word i from which find_next_zero looks for a zero.  It is   *)
(* reset to 0 behind a word that was searched but not behind one that was   *)
(* skipped because it is full.                                              *)
FromNever(words, offset, i) == bit_pos(offset)  \* faulty: it is never reset
From(words, offset, i) ==
  IF \A k \in bit_index(offset)..(i - 1) : words[k + 1] = Full THEN bit_pos(offset) ELSE 0

Found(words, offset) ==
  {v[1] * W + v[2] : v \in
     {v \in (bit_index(offset)..(Len(words) - 1)) \X Full :
        v[2] >= From(words, offset, v[1]) /\ v[2] \notin words[v[1] + 1]}}

Least(found) == IF found = {} THEN vol ELSE CHOOSE n \in found : \A m \in found : n <= m

find_next_zero(offset) == Least(Found(data, offset))

(* find_next_bit is the same search with ones and zeros exchanged.          *)
find_next_bit(offset) == Least(Found([i \in 1..size |-> Full \ data[i]], offset))

-----------------------------------------------------------------------------
Calls == [op : {"set", "clear"}, index : Nat, bits : 1..W, mask : SUBSET Full,
          length : Nat, end : Nat, before : Seq(SUBSET Full)] \cup {NoCall}

(* Every variable has its type.                                             *)
TypeOK ==
  /\ data \in Seq(SUBSET Full)
  /\ call \in Calls
  /\ result \in {"Ok", "Err"}

BitsOf(words) == {n \in 0..(Len(words) * W - 1) : bit_pos(n) \in words[bit_index(n) + 1]}
Ones  == BitsOf(data)
Zeros == 0..(vol - 1) \ Ones

(* The bitmap implements a set of numbers; a range call takes effect when   *)
(* it returns.                                                              *)
Set == INSTANCE BitSet WITH
         Vols <- {Size * W},
         bits <- BitsOf(IF Idle THEN data ELSE call.before)
ImplementsSet == Set!Spec

(* contain tells whether the number is in the set and refuses numbers that  *)
(* are out of range; just beyond the range it panics.                       *)
ContainsWhatIsSet ==
  Idle => \A num \in Numbers :
    contain(num) = IF num < vol THEN (IF num \in Ones THEN "true" ELSE "false")
                   ELSE IF num = vol THEN "Panic" ELSE "Err"

(* count_front_bits counts the members below offset, up to the volume, and  *)
(* never reads a word behind the last one, which would panic.               *)
CountsBitsBefore ==
  Idle => \A offset \in Numbers :
    count_front_bits(offset) =
      IF offset > vol THEN Answer("Err", 0)
      ELSE Answer("Ok", Cardinality({n \in Ones : n < offset}))

NextFrom(found, offset, n) ==
  IF \E m \in found : m >= offset
  THEN n \in found /\ n >= offset /\ \A m \in found : m >= offset => n <= m
  ELSE n = vol

(* The searches return the first zero, or one, from offset on, unless they  *)
(* begin inside a word that has none: they are right at the start of a word *)
(* and inside every word that they do not skip.                             *)
FindsFirst ==
  Idle => \A offset \in Numbers :
    LET searched(skipped) ==
          \/ bit_pos(offset) = 0
          \/ offset < vol /\ WordOf(offset) # skipped
    IN  /\ searched(Full) => NextFrom(Zeros, offset, find_next_zero(offset))
        /\ searched({}) => NextFrom(Ones, offset, find_next_bit(offset))

(* "Return a new offset to get a zero bit from input offset."               *)
(* (bitmap.rs:280): the first one at or after any offset.                   *)
FindsNextZero ==
  Idle => \A offset \in Numbers : NextFrom(Zeros, offset, find_next_zero(offset))
=============================================================================
