-------------------------- MODULE LoopWakeup_proof --------------------------
(***************************************************************************)
(* Proofs about LoopWakeup, for any number of callers and timers, any      *)
(* delays and both loops.                                                  *)
(*                                                                         *)
(* NoLostWakeup is not inductive: whether a caller writes the eventfd      *)
(* depends on kick_me, and whether the loop sleeps on kicked.  IInv adds   *)
(* what the two flags promise each other at every step between the loop's  *)
(* look at the timers and its sleep, and the order of the list, without    *)
(* which removing the first timer could uncover an earlier one.            *)
(***************************************************************************)
EXTENDS LoopWakeup, SequenceTheorems, TLAPS

(* Cutting a sequence and inserting into it keep its type.                  *)
LEMMA SeqWith ==
  ASSUME NEW S, NEW s \in Seq(S), NEW i \in 1..(Len(s) + 1), NEW x \in S
  PROVE  InsertAt(s, i, x) \in Seq(S)
<1>1. SubSeq(s, 1, i - 1) \in Seq(S) /\ SubSeq(s, i, Len(s)) \in Seq(S)
  OBVIOUS
<1>2. <<x>> \in Seq(S)
  OBVIOUS
<1>3. QED BY <1>1, <1>2 DEF InsertAt

LEMMA SeqWithout ==
  ASSUME NEW S, NEW s \in Seq(S), NEW i \in 1..Len(s)
  PROVE  RemoveAt(s, i) \in Seq(S)
<1>1. SubSeq(s, 1, i - 1) \in Seq(S) /\ SubSeq(s, i + 1, Len(s)) \in Seq(S)
  OBVIOUS
<1>2. QED BY <1>1 DEF RemoveAt

LEMMA SeqHead ==
  ASSUME NEW S, NEW s \in Seq(S), s # <<>>
  PROVE  s[1] \in S /\ Tail(s) \in Seq(S)
OBVIOUS

LEMMA InitType == Init => TypeOK
<1>1. <<>> \in Seq(TimerBoxes)
  OBVIOUS
<1>2. Init => boxed \in [Callers -> Seq(TimerBoxes)]
  BY <1>1 DEF Init
<1>3. 0 \in 0..MaxTime /\ NoTimeout \in TimeOuts
  BY WakeupAssumption DEF TimeOuts
<1>4. Init => pc \in LoopPcs /\ pass \in {1, 2}
              /\ \A c \in Callers : at[c] = "idle"
  BY DEF Init, LoopPcs
<1>5. QED BY <1>1, <1>2, <1>3, <1>4 DEF Init, TypeOK

LEMMA CallerType ==
  ASSUME TypeOK, NEW c \in Callers, Caller(c)
  PROVE  TypeOK'
<1> USE DEF flags, locals, loopVars, callerVars, history
<1>1. CASE TimerNew(c)
  <2>1. PICK t \in Timers, delay \in Delays :
          /\ now + delay <= MaxTime
          /\ boxed' = [boxed EXCEPT ![c] = <<[id |-> t, expire_time |-> now + delay]>>]
    BY <1>1 DEF TimerNew
  <2>2. [id |-> t, expire_time |-> now + delay] \in TimerBoxes
    BY <2>1, WakeupAssumption DEF TypeOK, TimerBoxes
  <2>3. <<[id |-> t, expire_time |-> now + delay]>> \in Seq(TimerBoxes) \ {<<>>}
    BY <2>2
  <2>4. boxed' \in [Callers -> Seq(TimerBoxes)] /\ boxed'[c] # <<>>
        /\ \A d \in Callers \ {c} : boxed'[d] = boxed[d]
    BY <2>1, <2>3 DEF TypeOK
  <2>5. QED BY <1>1, <2>4 DEF TimerNew, TypeOK
<1>2. CASE timer_add(c)
  <2>1. boxed[c] \in Seq(TimerBoxes) /\ boxed[c] # <<>>
    BY <1>2 DEF timer_add, TypeOK
  <2>2. boxed[c][1] \in TimerBoxes
    BY <2>1
  <2>3. timers' \in Seq(TimerBoxes)
    BY <1>2, <2>2, SeqWith DEF timer_add, TypeOK
  <2>4. added' \subseteq Timers
    BY <1>2, <2>2 DEF timer_add, TypeOK, TimerBoxes
  <2>5. boxed' \in [Callers -> Seq(TimerBoxes)]
        /\ \A d \in Callers \ {c} : boxed'[d] = boxed[d]
    BY <1>2 DEF timer_add, TypeOK
  <2>6. at' \in [Callers -> {"idle", "insert", "tick", "load", "write"}]
        /\ at'[c] = "tick" /\ \A d \in Callers \ {c} : at'[d] = at[d]
    BY <1>2 DEF timer_add, TypeOK
  <2>7. \A d \in Callers : at'[d] = "insert" => boxed'[d] # <<>>
    BY <2>5, <2>6 DEF TypeOK
  <2>8. QED BY <1>2, <2>3, <2>4, <2>5, <2>6, <2>7 DEF timer_add, TypeOK
<1>3. CASE timer_del(c)
  <2>1. PICK i \in 1..Len(timers) :
          /\ timers' = RemoveAt(timers, i)
          /\ deleted' = deleted \cup {timers[i].id}
    BY <1>3 DEF timer_del
  <2>a. timers' \in Seq(TimerBoxes) /\ timers[i] \in TimerBoxes
    BY <2>1, SeqWithout DEF TypeOK
  <2>2. deleted' \subseteq Timers
    BY <2>1, <2>a DEF TypeOK, TimerBoxes
  <2>3. QED BY <1>3, <2>a, <2>2 DEF timer_del, TypeOK
<1>4. CASE UpdateEvents(c) \/ RequestExit(c) \/ StoreKicked(c) \/ LoadKickMe(c) \/ WriteKick(c)
  BY <1>4 DEF UpdateEvents, RequestExit, StoreKicked, LoadKickMe, WriteKick, TypeOK
<1>5. QED BY <1>1, <1>2, <1>3, <1>4 DEF Caller, Continue

LEMMA LoopType ==
  ASSUME TypeOK, Loop \/ Interrupt \/ WaitFails
  PROVE  TypeOK'
<1> USE DEF flags, locals, loopVars, callerVars, history, LoopPcs
<1>1. CASE run \/ ClearKicked \/ Arm \/ Dispatch \/ UpdateAfterDispatch \/ WaitFails
  BY <1>1 DEF run, ClearKicked, Arm, Dispatch, UpdateAfterDispatch, WaitFails, TypeOK
<1>2. 0 \in 0..MaxTime /\ 0 \in TimeOuts /\ NoTimeout \in TimeOuts
  BY WakeupAssumption DEF TimeOuts
<1>a. CASE Disarm
  BY <1>2, <1>a DEF Disarm, TypeOK
<1>3. CASE SnapNow \/ LeavePpoll
  BY <1>2, <1>3 DEF SnapNow, LeavePpoll, TypeOK
<1>4. CASE LeaveWait
  BY <1>4 DEF LeaveWait, TypeOK
<1>5. CASE Recheck
  BY <1>2, <1>5 DEF Recheck, TypeOK
<1>6. CASE timers_min_duration
  <2>1. timers # <<>> => timers[1].expire_time \in 0..MaxTime
    <3>1. timers # <<>> => timers[1] \in TimerBoxes
      BY SeqHead DEF TypeOK
    <3>2. QED BY <3>1 DEF TimerBoxes
  <2>2. UntilFirst \in TimeOuts /\ FirstExpiry \in TimeOuts
    BY <2>1, WakeupAssumption DEF TypeOK, TimeOuts, UntilFirst, FirstExpiry
  <2>3. QED BY <1>6, <2>2 DEF timers_min_duration, TypeOK
<1>7. CASE Sleep
  <2>1. time_out \in 0..MaxTime /\ wake' = MinOf(now + time_out, MaxTime)
    BY <1>7 DEF Sleep, TypeOK, TimeOuts
  <2>2. wake' \in 0..MaxTime
    BY <2>1, WakeupAssumption DEF MinOf, TypeOK
  <2>3. QED BY <1>7, <2>2 DEF Sleep, TypeOK
<1>8. CASE Drain
  BY <1>2, <1>8 DEF Drain, TypeOK
<1>9. CASE Fire
  <2>1. expired # <<>> => expired[1].id \in Timers /\ Tail(expired) \in Seq(TimerBoxes)
    <3>1. expired # <<>> => expired[1] \in TimerBoxes /\ Tail(expired) \in Seq(TimerBoxes)
      BY SeqHead DEF TypeOK
    <3>2. QED BY <3>1 DEF TimerBoxes
  <2>2. fired' \subseteq Timers /\ expired' \in Seq(TimerBoxes) /\ pc' \in LoopPcs
    BY <1>9, <2>1 DEF Fire, TypeOK
  <2>3. QED BY <1>9, <2>2 DEF Fire, TypeOK
<1>10. QED
  BY <1>1, <1>a, <1>6, <1>7, <1>8, <1>9, <1>3, <1>4, <1>5
     DEF Loop, Interrupt, ppoll, wait

(* Every variable has its type in every reachable state.                    *)
THEOREM TypeCorrect == Spec => []TypeOK
<1>1. ASSUME TypeOK, [Next]_vars PROVE TypeOK'
  <2>1. CASE TimePasses
    BY <1>1, <2>1, WakeupAssumption
       DEF TimePasses, TypeOK, flags, locals, loopVars, callerVars, history
  <2>2. CASE UNCHANGED vars
    BY <1>1, <2>2 DEF vars, TypeOK, flags, locals, loopVars, callerVars, history
  <2>3. QED BY <1>1, <2>1, <2>2, LoopType, CallerType DEF Next
<1>2. QED BY <1>1, InitType, PTL DEF Spec

-----------------------------------------------------------------------------
(* What a concatenation, an insertion at place i and a removal at place i   *)
(* put at each place.                                                       *)
LEMMA ConcatPlaces ==
  ASSUME NEW S, NEW p \in Seq(S), NEW q \in Seq(S), NEW r, r = p \o q
  PROVE  /\ Len(r) = Len(p) + Len(q)
         /\ \A j \in 1..Len(p) : r[j] = p[j]
         /\ \A j \in (Len(p) + 1)..(Len(p) + Len(q)) : r[j] = q[j - Len(p)]
OBVIOUS

LEMMA InsertPlaces ==
  ASSUME NEW S, NEW s \in Seq(S), NEW i \in 1..(Len(s) + 1), NEW x \in S, NEW r,
         r = InsertAt(s, i, x)
  PROVE  /\ Len(r) = Len(s) + 1 /\ r[i] = x
         /\ \A j \in 1..(i - 1) : r[j] = s[j]
         /\ \A j \in (i + 1)..(Len(s) + 1) : r[j] = s[j - 1]
<1> DEFINE a == SubSeq(s, 1, i - 1)
           b == SubSeq(s, i, Len(s))
           c == a \o <<x>>
<1>1. /\ a \in Seq(S) /\ Len(a) = i - 1 /\ \A j \in 1..(i - 1) : a[j] = s[j]
  OBVIOUS
<1>2. /\ b \in Seq(S) /\ Len(b) = Len(s) - i + 1
      /\ \A j \in 1..(Len(s) - i + 1) : b[j] = s[i + j - 1]
  OBVIOUS
<1>3. /\ c \in Seq(S) /\ Len(c) = i /\ c[i] = x
      /\ \A j \in 1..(i - 1) : c[j] = a[j]
  BY <1>1
<1>4. r = c \o b /\ Len(s) \in Nat
  BY DEF InsertAt
<1> HIDE DEF a, b, c
<1>5. /\ Len(r) = Len(s) + 1
      /\ \A j \in 1..i : r[j] = c[j]
      /\ \A j \in (i + 1)..(Len(s) + 1) : r[j] = b[j - i]
  <2>1. /\ Len(r) = Len(c) + Len(b)
        /\ \A j \in 1..Len(c) : r[j] = c[j]
        /\ \A j \in (Len(c) + 1)..(Len(c) + Len(b)) : r[j] = b[j - Len(c)]
    <3>1. b \in Seq(S) /\ c \in Seq(S)
      BY <1>2, <1>3
    <3>2. QED BY <1>4, <3>1, ConcatPlaces
  <2>2. Len(c) = i /\ Len(b) = Len(s) - i + 1
    BY <1>2, <1>3
  <2>3. Len(c) + Len(b) = Len(s) + 1
    BY <1>4, <2>2
  <2>4. QED BY <2>1, <2>2, <2>3
<1>6. ASSUME NEW j \in (i + 1)..(Len(s) + 1) PROVE b[j - i] = s[j - 1]
  <2>1. j - i \in 1..(Len(s) - i + 1) /\ i + (j - i) - 1 = j - 1
    BY <1>4
  <2>2. QED BY <1>2, <2>1
<1>7. i \in 1..i /\ 1..(i - 1) \subseteq 1..i
  OBVIOUS
<1>8. QED BY <1>1, <1>3, <1>5, <1>6, <1>7

LEMMA RemovePlaces ==
  ASSUME NEW S, NEW s \in Seq(S), NEW i \in 1..Len(s), NEW r,
         r = RemoveAt(s, i)
  PROVE  /\ Len(r) = Len(s) - 1
         /\ \A j \in 1..(i - 1) : r[j] = s[j]
         /\ \A j \in i..(Len(s) - 1) : r[j] = s[j + 1]
<1> DEFINE a == SubSeq(s, 1, i - 1)
           b == SubSeq(s, i + 1, Len(s))
<1>1. /\ a \in Seq(S) /\ Len(a) = i - 1 /\ \A j \in 1..(i - 1) : a[j] = s[j]
  OBVIOUS
<1>2. /\ b \in Seq(S) /\ Len(b) = Len(s) - i
      /\ \A j \in 1..(Len(s) - i) : b[j] = s[i + j]
  OBVIOUS
<1>3. r = a \o b /\ Len(s) \in Nat
  BY DEF RemoveAt
<1> HIDE DEF a, b
<1>4. /\ Len(r) = Len(s) - 1
      /\ \A j \in 1..(i - 1) : r[j] = a[j]
      /\ \A j \in i..(Len(s) - 1) : r[j] = b[j - (i - 1)]
  <2>1. /\ Len(r) = Len(a) + Len(b)
        /\ \A j \in 1..Len(a) : r[j] = a[j]
        /\ \A j \in (Len(a) + 1)..(Len(a) + Len(b)) : r[j] = b[j - Len(a)]
    <3>1. a \in Seq(S) /\ b \in Seq(S)
      BY <1>1, <1>2
    <3>2. QED BY <1>3, <3>1, ConcatPlaces
  <2>2. Len(a) = i - 1 /\ Len(b) = Len(s) - i
    BY <1>1, <1>2
  <2>3. Len(a) + 1 = i /\ Len(a) + Len(b) = Len(s) - 1
    BY <1>3, <2>2
  <2>4. QED BY <2>1, <2>2, <2>3
<1>5. ASSUME NEW j \in i..(Len(s) - 1) PROVE b[j - (i - 1)] = s[j + 1]
  <2>1. j - (i - 1) \in 1..(Len(s) - i) /\ i + (j - (i - 1)) = j + 1
    BY <1>3
  <2>2. QED BY <1>2, <2>1
<1>6. QED BY <1>1, <1>4, <1>5

(* The list stays sorted when a timer is put at its place, removed, or      *)
(* drained.                                                                 *)
LEMMA ExpiryIsInt ==
  ASSUME TypeOK
  PROVE  /\ timers \in Seq(TimerBoxes) /\ Len(timers) \in Nat
         /\ \A j \in 1..Len(timers) : timers[j].expire_time \in Int
<1>1. timers \in Seq(TimerBoxes) /\ Len(timers) \in Nat
  BY DEF TypeOK
<1>2. \A j \in 1..Len(timers) : timers[j] \in TimerBoxes
  BY <1>1
<1>3. QED BY <1>1, <1>2 DEF TimerBoxes

LEMMA InsertSorted ==
  ASSUME TypeOK, TimersSorted, NEW x \in TimerBoxes, NEW i \in 1..(Len(timers) + 1),
         FirstLater(x, i),
         timers' = InsertAt(timers, i, x)
  PROVE  TimersSorted'
<1> DEFINE n == Len(timers)
           e(j) == timers[j].expire_time
<1>1. n \in Nat /\ timers \in Seq(TimerBoxes) /\ i \in 1..(n + 1)
      /\ \A j \in 1..n : e(j) \in Int
  BY ExpiryIsInt
<1>a. x.expire_time \in Int
  BY DEF TimerBoxes
<1>2. /\ Len(timers') = n + 1 /\ timers'[i] = x
      /\ \A j \in 1..(i - 1) : timers'[j] = timers[j]
      /\ \A j \in (i + 1)..(n + 1) : timers'[j] = timers[j - 1]
  <2>1. timers \in Seq(TimerBoxes)
    BY <1>1
  <2>2. QED BY <2>1, InsertPlaces
<1>3. \A j, k \in 1..n : j < k => e(j) <= e(k)
  BY DEF TimersSorted
<1>4. (\A j \in 1..(i - 1) : e(j) <= x.expire_time) /\ (i <= n => x.expire_time < e(i))
  BY DEF FirstLater
<1> HIDE DEF n
<1>5. \A j \in i..n : x.expire_time <= e(j)
  <2> TAKE j \in i..n
  <2>1. i \in 1..n /\ j \in 1..n /\ i <= n /\ (i = j \/ i < j)
    BY <1>1
  <2>2. QED BY <1>1, <1>a, <1>3, <1>4, <2>1
<1>6. ASSUME NEW j \in 1..(n + 1), NEW k \in 1..(n + 1), j < k
      PROVE  timers'[j].expire_time <= timers'[k].expire_time
  <2>1. CASE k < i
    <3>1. j \in 1..(i - 1) /\ k \in 1..(i - 1) /\ j \in 1..n /\ k \in 1..n
      BY <1>1, <1>6, <2>1
    <3>2. QED BY <1>2, <1>3, <1>6, <3>1
  <2>2. CASE k = i
    <3>1. j \in 1..(i - 1)
      BY <1>6, <2>2
    <3>2. QED BY <1>2, <1>4, <2>2, <3>1
  <2>3. CASE j = i
    <3>1. k \in (i + 1)..(n + 1) /\ k - 1 \in i..n
      BY <1>1, <1>6, <2>3
    <3>2. QED BY <1>2, <1>5, <2>3, <3>1
  <2>4. CASE j < i /\ k > i
    <3>1. j \in 1..(i - 1) /\ k \in (i + 1)..(n + 1) /\ j \in 1..n /\ k - 1 \in 1..n
          /\ j < k - 1
      BY <1>1, <1>6, <2>4
    <3>2. QED BY <1>2, <1>3, <3>1
  <2>5. CASE j > i
    <3>1. j \in (i + 1)..(n + 1) /\ k \in (i + 1)..(n + 1)
          /\ j - 1 \in 1..n /\ k - 1 \in 1..n /\ j - 1 < k - 1
      BY <1>1, <1>6, <2>5
    <3>2. QED BY <1>2, <1>3, <3>1
  <2>6. k < i \/ k = i \/ j = i \/ (j < i /\ k > i) \/ j > i
    BY <1>1, <1>6
  <2>7. QED BY <2>1, <2>2, <2>3, <2>4, <2>5, <2>6
<1>7. QED BY <1>2, <1>6 DEF TimersSorted

LEMMA DeleteSorted ==
  ASSUME TypeOK, TimersSorted, NEW i \in 1..Len(timers),
         timers' = RemoveAt(timers, i)
  PROVE  /\ TimersSorted'
         /\ timers' # <<>> =>
              timers # <<>> /\ timers[1].expire_time <= timers'[1].expire_time
<1> DEFINE n == Len(timers)
           e(j) == timers[j].expire_time
<1>1. n \in Nat /\ timers \in Seq(TimerBoxes) /\ i \in 1..n
      /\ \A j \in 1..n : e(j) \in Int
  BY ExpiryIsInt
<1>2. /\ Len(timers') = n - 1
      /\ \A j \in 1..(i - 1) : timers'[j] = timers[j]
      /\ \A j \in i..(n - 1) : timers'[j] = timers[j + 1]
  BY <1>1, RemovePlaces
<1>3. \A j, k \in 1..n : j < k => e(j) <= e(k)
  BY DEF TimersSorted
<1>4. timers' \in Seq(TimerBoxes)
  BY <1>1, SeqWithout
<1>5. timers # <<>>
  BY <1>1
<1> HIDE DEF n
<1>6. ASSUME NEW j \in 1..(n - 1), NEW k \in 1..(n - 1), j < k
      PROVE  timers'[j].expire_time <= timers'[k].expire_time
  <2>1. CASE k < i
    <3>1. j \in 1..(i - 1) /\ k \in 1..(i - 1) /\ j \in 1..n /\ k \in 1..n
      BY <1>1, <1>6, <2>1
    <3>2. QED BY <1>2, <1>3, <1>6, <3>1
  <2>2. CASE j < i /\ k >= i
    <3>1. j \in 1..(i - 1) /\ k \in i..(n - 1) /\ j \in 1..n /\ k + 1 \in 1..n /\ j < k + 1
      BY <1>1, <1>6, <2>2
    <3>2. QED BY <1>2, <1>3, <3>1
  <2>3. CASE j >= i
    <3>1. j \in i..(n - 1) /\ k \in i..(n - 1) /\ j + 1 \in 1..n /\ k + 1 \in 1..n
          /\ j + 1 < k + 1
      BY <1>1, <1>6, <2>3
    <3>2. QED BY <1>2, <1>3, <3>1
  <2>4. k < i \/ (j < i /\ k >= i) \/ j >= i
    <3>1. i \in Int /\ j \in Int /\ k \in Int
      BY <1>1
    <3>2. QED BY <3>1
  <2>5. QED BY <2>1, <2>2, <2>3, <2>4
<1>7. ASSUME timers' # <<>> PROVE timers[1].expire_time <= timers'[1].expire_time
  <2>1. n - 1 \in Nat \ {0}
    <3>1. Len(timers') \in Nat \ {0}
      BY <1>4, <1>7, EmptySeq
    <3>2. QED BY <1>2, <3>1
  <2>2. CASE i = 1
    <3>1. 1 \in i..(n - 1) /\ 1 \in 1..n /\ 1 + 1 \in 1..n /\ 1 < 1 + 1
      BY <1>1, <2>1, <2>2
    <3>2. QED BY <1>2, <1>3, <3>1
  <2>3. CASE i > 1
    <3>1. 1 \in 1..(i - 1) /\ 1 \in 1..n
      BY <1>1, <2>1, <2>3
    <3>2. timers'[1] = timers[1]
      BY <1>2, <3>1
    <3>3. QED BY <1>1, <3>1, <3>2
  <2>4. i = 1 \/ i > 1
    BY <1>1
  <2>5. QED BY <2>2, <2>3, <2>4
<1>8. QED BY <1>2, <1>5, <1>6, <1>7 DEF TimersSorted

LEMMA DrainSorted ==
  ASSUME TypeOK, TimersSorted, Drain
  PROVE  TimersSorted'
<1>1. PICK n \in 0..Len(timers) : timers' = SubSeq(timers, n + 1, Len(timers))
  BY DEF Drain
<1>2. timers \in Seq(TimerBoxes) /\ Len(timers) \in Nat
  BY ExpiryIsInt
<1>3. /\ Len(timers') = Len(timers) - n
      /\ \A j \in 1..(Len(timers) - n) : timers'[j] = timers[j + n]
  BY <1>1, <1>2
<1>4. ASSUME NEW j \in 1..(Len(timers) - n), NEW k \in 1..(Len(timers) - n), j < k
      PROVE  timers'[j].expire_time <= timers'[k].expire_time
  <2>1. j + n \in 1..Len(timers) /\ k + n \in 1..Len(timers) /\ j + n < k + n
    BY <1>2, <1>4
  <2>2. QED BY <1>3, <2>1 DEF TimersSorted
<1>5. QED BY <1>3, <1>4 DEF TimersSorted

-----------------------------------------------------------------------------
(* What the flags promise between the look at the timers and the sleep.     *)
Looked == pc \in {"arm", "recheck", "sleep", "ppoll", "wait"}
Ticking == \E c \in Callers : at[c] = "tick"
Kicking == \E c \in Callers : at[c] \in {"load", "write"}

KickedIfEarlier == Looked /\ Earlier => kicked \/ Ticking
ArmedFirst == Looked /\ pc # "arm" /\ time_out # 0 => kick_me
KickDelivered ==
  pc \in {"sleep", "ppoll", "wait"} /\ time_out # 0 /\ kicked => kick_event \/ Kicking

IInv == TimersSorted /\ KickedIfEarlier /\ ArmedFirst /\ KickDelivered

(* The timer a caller inserts is one it has boxed.                          *)
LEMMA AddSorted ==
  ASSUME TypeOK, TimersSorted, NEW c \in Callers, timer_add(c)
  PROVE  TimersSorted'
<1>1. boxed[c] \in Seq(TimerBoxes) /\ boxed[c] # <<>>
  BY DEF timer_add, TypeOK
<1>2. boxed[c][1] \in TimerBoxes
  BY <1>1
<1>3. PICK i \in 1..(Len(timers) + 1) :
        FirstLater(boxed[c][1], i) /\ timers' = InsertAt(timers, i, boxed[c][1])
  BY DEF timer_add
<1>4. QED BY <1>2, <1>3, InsertSorted

(* A look at the timers leaves none earlier than what was seen.             *)
LEMMA LookSeesAll ==
  ASSUME TypeOK, timers_min_duration
  PROVE  ~Earlier'
<1>1. timers # <<>> => timers[1].expire_time \in Nat
  <2>1. timers # <<>> => timers[1] \in TimerBoxes
    BY SeqHead DEF TypeOK
  <2>2. QED BY <2>1, WakeupAssumption DEF TimerBoxes
<1>2. timers' = timers /\ seen' = FirstExpiry
  BY DEF timers_min_duration
<1>3. QED BY <1>1, <1>2, WakeupAssumption DEF Earlier, FirstExpiry

LEMMA CallerInductive ==
  ASSUME TypeOK, IInv, NEW c \in Callers, Caller(c)
  PROVE  IInv'
<1> USE DEF flags, locals, loopVars, callerVars, history
<1>0. /\ at \in [Callers -> {"idle", "insert", "tick", "load", "write"}]
      /\ TimersSorted /\ KickedIfEarlier /\ ArmedFirst /\ KickDelivered
  BY DEF TypeOK, IInv
<1>1. CASE TimerNew(c)
  <2>1. TimersSorted' /\ (Looked' <=> Looked) /\ (Earlier' <=> Earlier)
    BY <1>0, <1>1 DEF TimerNew, TimersSorted, Looked, Earlier
  <2>2. (Ticking => Ticking') /\ (Kicking => Kicking')
    BY <1>0, <1>1 DEF TimerNew, Ticking, Kicking
  <2>3. QED
    BY <1>0, <1>1, <2>1, <2>2 DEF TimerNew, IInv, KickedIfEarlier, ArmedFirst, KickDelivered
<1>2. CASE timer_add(c)
  <2>1. TimersSorted'
    BY <1>0, <1>2, AddSorted
  <2>2. Ticking'
    BY <1>0, <1>2 DEF timer_add, Ticking
  <2>3. Kicking => Kicking'
    BY <1>0, <1>2 DEF timer_add, Kicking
  <2>4. KickedIfEarlier' /\ (ArmedFirst' <=> ArmedFirst)
    BY <1>2, <2>2 DEF timer_add, KickedIfEarlier, ArmedFirst, Looked
  <2>5. KickDelivered'
    BY <1>0, <1>2, <2>3 DEF timer_add, KickDelivered
  <2>6. QED BY <1>0, <2>1, <2>4, <2>5 DEF IInv
<1>3. CASE timer_del(c)
  <2>1. PICK i \in 1..Len(timers) : timers' = RemoveAt(timers, i)
    BY <1>3 DEF timer_del
  <2>2. /\ TimersSorted'
        /\ timers' # <<>> =>
             timers # <<>> /\ timers[1].expire_time <= timers'[1].expire_time
    BY <1>0, <2>1, DeleteSorted
  <2>3. Earlier' => Earlier
    <3>1. SUFFICES ASSUME Earlier' PROVE Earlier
      OBVIOUS
    <3>2. seen' = seen /\ timers' # <<>> /\ timers # <<>>
      BY <1>3, <2>2, <3>1 DEF timer_del, Earlier
    <3>3. timers[1].expire_time \in Int /\ timers'[1].expire_time \in Int
      <4>1. timers[1] \in TimerBoxes
        BY <3>2, SeqHead DEF TypeOK
      <4>2. timers'[1] \in TimerBoxes
        BY <2>1, <3>2, SeqHead, SeqWithout DEF TypeOK
      <4>3. QED BY <4>1, <4>2 DEF TimerBoxes
    <3>4. seen \in TimeOuts
      BY DEF TypeOK
    <3>5. QED BY <2>2, <3>1, <3>2, <3>3, <3>4 DEF Earlier, TimeOuts
  <2>4. QED
    BY <1>0, <1>3, <2>2, <2>3
       DEF timer_del, IInv, KickedIfEarlier, ArmedFirst, KickDelivered, Looked, Ticking, Kicking
<1>4. CASE UpdateEvents(c) \/ RequestExit(c)
  <2>1. TimersSorted' /\ (Looked' <=> Looked) /\ (Earlier' <=> Earlier)
    BY <1>0, <1>4 DEF UpdateEvents, RequestExit, TimersSorted, Looked, Earlier
  <2>2. (Ticking => Ticking') /\ (Kicking => Kicking')
    BY <1>0, <1>4 DEF UpdateEvents, RequestExit, Ticking, Kicking
  <2>3. QED
    BY <1>0, <1>4, <2>1, <2>2
       DEF UpdateEvents, RequestExit, IInv, KickedIfEarlier, ArmedFirst, KickDelivered
<1>5. CASE StoreKicked(c)
  <2>1. kicked' /\ Kicking'
    BY <1>0, <1>5 DEF StoreKicked, Kicking
  <2>2. QED
    BY <1>0, <1>5, <2>1
       DEF StoreKicked, IInv, TimersSorted, KickedIfEarlier, ArmedFirst, KickDelivered, Looked
<1>6. CASE LoadKickMe(c)
  <2>1. Ticking => Ticking'
    BY <1>0, <1>6 DEF LoadKickMe, Ticking
  <2>2. kick_me => Kicking'
    BY <1>0, <1>6 DEF LoadKickMe, Kicking
  <2>3. KickDelivered'
    BY <1>0, <1>6, <2>2 DEF LoadKickMe, KickDelivered, ArmedFirst, Looked
  <2>4. QED
    BY <1>0, <1>6, <2>1, <2>3
       DEF LoadKickMe, IInv, TimersSorted, KickedIfEarlier, ArmedFirst, Looked, Earlier
<1>7. CASE WriteKick(c)
  <2>1. Ticking => Ticking'
    BY <1>0, <1>7 DEF WriteKick, Ticking
  <2>2. QED
    BY <1>0, <1>7, <2>1
       DEF WriteKick, IInv, TimersSorted, KickedIfEarlier, ArmedFirst, KickDelivered,
           Looked, Earlier
<1>8. QED BY <1>1, <1>2, <1>3, <1>4, <1>5, <1>6, <1>7 DEF Caller, Continue

LEMMA LoopInductive ==
  ASSUME TypeOK, IInv, Loop \/ Interrupt \/ WaitFails
  PROVE  IInv'
<1> USE DEF flags, locals, loopVars, callerVars, history
<1>0. TimersSorted /\ KickedIfEarlier /\ ArmedFirst /\ KickDelivered
  BY DEF IInv
<1>1. CASE run \/ ClearKicked \/ Disarm \/ Dispatch \/ UpdateAfterDispatch \/ SnapNow \/ Fire
           \/ LeaveWait \/ WaitFails
  <2>1. ~Looked' /\ timers' = timers
    BY <1>1 DEF run, ClearKicked, Disarm, Dispatch, UpdateAfterDispatch, SnapNow, Fire,
                LeaveWait, WaitFails, Looked
  <2>2. QED
    BY <1>0, <2>1
       DEF IInv, TimersSorted, KickedIfEarlier, ArmedFirst, KickDelivered, Looked
<1>2. CASE timers_min_duration
  <2>1. ~Earlier'
    BY <1>2, LookSeesAll
  <2>2. TimersSorted' /\ pc' \in {"clear", "arm"}
    BY <1>0, <1>2 DEF timers_min_duration, TimersSorted
  <2>3. QED BY <2>1, <2>2 DEF IInv, KickedIfEarlier, ArmedFirst, KickDelivered, Looked
<1>3. CASE Arm
  <2>1. Looked /\ (Earlier' <=> Earlier) /\ (Ticking' <=> Ticking) /\ TimersSorted'
    BY <1>0, <1>3 DEF Arm, Looked, Earlier, Ticking, TimersSorted
  <2>2. ArmedFirst'
    BY <1>3 DEF Arm, ArmedFirst
  <2>3. pc' # "sleep" /\ pc' # "ppoll" /\ (pc' = "wait" => time_out' = 0)
    BY <1>3 DEF Arm
  <2>4. QED
    BY <1>0, <1>3, <2>1, <2>2, <2>3 DEF Arm, IInv, KickedIfEarlier, KickDelivered
<1>4. CASE Recheck
  <2>1. Looked /\ (Earlier' <=> Earlier) /\ (Ticking' <=> Ticking) /\ TimersSorted'
    BY <1>0, <1>4 DEF Recheck, Looked, Earlier, Ticking, TimersSorted
  <2>2. time_out' # 0 => time_out # 0 /\ ~kicked'
    BY <1>4 DEF Recheck
  <2>3. ArmedFirst'
    BY <1>0, <1>4, <2>1, <2>2 DEF Recheck, ArmedFirst
  <2>4. QED
    BY <1>0, <1>4, <2>1, <2>2, <2>3 DEF Recheck, IInv, KickedIfEarlier, KickDelivered
<1>5. CASE Sleep
  <2>1. Looked /\ (Earlier' <=> Earlier) /\ (Ticking' <=> Ticking) /\ (Kicking' <=> Kicking)
        /\ TimersSorted'
    BY <1>0, <1>5 DEF Sleep, Looked, Earlier, Ticking, Kicking, TimersSorted
  <2>2. QED
    BY <1>0, <1>5, <2>1 DEF Sleep, IInv, KickedIfEarlier, ArmedFirst, KickDelivered
<1>6. CASE LeavePpoll
  <2>1. Looked /\ (Earlier' <=> Earlier) /\ (Ticking' <=> Ticking) /\ time_out' = 0
        /\ TimersSorted'
    BY <1>0, <1>6 DEF LeavePpoll, Looked, Earlier, Ticking, TimersSorted
  <2>2. QED
    BY <1>0, <1>6, <2>1 DEF LeavePpoll, IInv, KickedIfEarlier, ArmedFirst, KickDelivered
<1>7. CASE Drain
  <2>1. TimersSorted' /\ ~Looked'
    BY <1>0, <1>7, DrainSorted DEF Drain, Looked
  <2>2. QED BY <2>1 DEF IInv, KickedIfEarlier, ArmedFirst, KickDelivered, Looked
<1>8. QED
  BY <1>1, <1>2, <1>3, <1>4, <1>5, <1>6, <1>7 DEF Loop, Interrupt, ppoll, wait

LEMMA Inductive ==
  ASSUME TypeOK, IInv, [Next]_vars
  PROVE  IInv'
<1>1. CASE TimePasses \/ UNCHANGED vars
  BY <1>1
     DEF TimePasses, vars, flags, locals, loopVars, callerVars, history, IInv, TimersSorted,
         KickedIfEarlier, ArmedFirst, KickDelivered, Looked, Earlier, Ticking, Kicking
<1>2. QED BY <1>1, CallerInductive, LoopInductive DEF Next

LEMMA InitInductive == Init => IInv
BY DEF Init, IInv, TimersSorted, KickedIfEarlier, ArmedFirst, KickDelivered, Looked

(* Whatever the threads do, the list of timers is in the order of expiry.   *)
THEOREM TimersAreSorted == Spec => []TimersSorted
<1>1. IInv => TimersSorted
  BY DEF IInv
<1>2. QED BY <1>1, TypeCorrect, Inductive, InitInductive, PTL DEF Spec

(* Whatever the threads do, the loop is not left asleep past a timer that   *)
(* it has not seen.                                                         *)
THEOREM WakeupIsNotLost == Spec => []NoLostWakeup
<1>1. IInv => NoLostWakeup
  BY DEF IInv, KickedIfEarlier, KickDelivered, Looked, Ticking, Kicking, NoLostWakeup, Asleep
<1>2. QED BY <1>1, TypeCorrect, Inductive, InitInductive, PTL DEF Spec

-----------------------------------------------------------------------------
(* What an insertion, a removal and a cut do to the boxes of a list in      *)
(* which no timer is twice.                                                 *)
LEMMA IdsOfBoxes ==
  ASSUME NEW s
  PROVE  Ids(s) = {x.id : x \in Boxes(s)}
BY DEF Ids, Boxes

LEMMA InsertBoxes ==
  ASSUME NEW s \in Seq(TimerBoxes), NEW i \in 1..(Len(s) + 1), NEW x \in TimerBoxes,
         Once(s), x.id \notin Ids(s), NEW r, r = InsertAt(s, i, x)
  PROVE  Boxes(r) = Boxes(s) \cup {x} /\ Once(r)
<1> DEFINE n == Len(s)
<1>1. n \in Nat /\ i \in 1..(n + 1) /\ DOMAIN s = 1..n
  OBVIOUS
<1>2. /\ Len(r) = n + 1 /\ r[i] = x
      /\ \A j \in 1..(i - 1) : r[j] = s[j]
      /\ \A j \in (i + 1)..(n + 1) : r[j] = s[j - 1]
  BY InsertPlaces
<1>3. DOMAIN r = 1..(n + 1)
  <2>1. r \in Seq(TimerBoxes)
    BY SeqWith
  <2>2. QED BY <1>2, <2>1
<1> DEFINE From(j) == IF j < i THEN j ELSE j - 1
<1> HIDE DEF n
<1>4. \A j \in 1..(n + 1) : j # i => From(j) \in 1..n /\ r[j] = s[From(j)]
  <2> TAKE j \in 1..(n + 1)
  <2>1. CASE j < i
    <3>1. j \in 1..(i - 1) /\ j \in 1..n
      BY <1>1, <2>1
    <3>2. QED BY <1>2, <2>1, <3>1
  <2>2. CASE j > i
    <3>1. j \in (i + 1)..(n + 1) /\ j - 1 \in 1..n /\ ~(j < i)
      BY <1>1, <2>2
    <3>2. QED BY <1>2, <3>1
  <2>3. QED BY <1>1, <2>1, <2>2
<1>5. ASSUME NEW k \in 1..n PROVE \E j \in 1..(n + 1) : j # i /\ From(j) = k
  <2>1. CASE k < i
    <3>1. k \in 1..(n + 1) /\ k # i /\ From(k) = k
      BY <1>1, <2>1
    <3>2. QED BY <3>1
  <2>2. CASE ~(k < i)
    <3>1. k + 1 \in 1..(n + 1) /\ k + 1 # i /\ From(k + 1) = k
      BY <1>1, <2>2
    <3>2. QED BY <3>1
  <2>3. QED BY <2>1, <2>2
<1>6. \A j, k \in 1..(n + 1) : j # i /\ k # i /\ From(j) = From(k) => j = k
  BY <1>1
<1> HIDE DEF From
<1>7. Boxes(r) = Boxes(s) \cup {x}
  <2>1. ASSUME NEW j \in 1..(n + 1) PROVE r[j] \in Boxes(s) \cup {x}
    BY <1>1, <1>2, <1>4 DEF Boxes
  <2>2. ASSUME NEW k \in 1..n PROVE s[k] \in Boxes(r)
    <3>1. PICK j \in 1..(n + 1) : j # i /\ From(j) = k
      BY <1>5
    <3>2. r[j] = s[k]
      BY <1>4, <3>1
    <3>3. QED BY <1>3, <3>2 DEF Boxes
  <2>3. x \in Boxes(r)
    BY <1>1, <1>2, <1>3 DEF Boxes
  <2>4. QED BY <1>1, <1>3, <2>1, <2>2, <2>3 DEF Boxes
<1>8. ASSUME NEW j \in 1..(n + 1), NEW k \in 1..(n + 1), r[j].id = r[k].id
      PROVE  j = k
  <2>1. \A l \in 1..(n + 1) : l # i => r[l].id \in Ids(s) /\ r[l].id # x.id
    BY <1>1, <1>4 DEF Ids
  <2>2. CASE j = i \/ k = i
    BY <1>2, <1>8, <2>1, <2>2
  <2>3. CASE j # i /\ k # i
    <3>1. s[From(j)].id = s[From(k)].id /\ From(j) \in 1..n /\ From(k) \in 1..n
      BY <1>4, <1>8, <2>3
    <3>2. From(j) = From(k)
      BY <1>1, <3>1 DEF Once
    <3>3. QED BY <1>6, <2>3, <3>2
  <2>4. QED BY <2>2, <2>3
<1>9. QED BY <1>3, <1>7, <1>8 DEF Once

LEMMA CutBoxes ==
  ASSUME NEW s \in Seq(TimerBoxes), NEW n \in 0..Len(s), Once(s)
  PROVE  LET a == SubSeq(s, 1, n)
             b == SubSeq(s, n + 1, Len(s))
         IN  /\ Boxes(s) = Boxes(a) \cup Boxes(b)
             /\ Ids(a) \cap Ids(b) = {} /\ Once(a) /\ Once(b)
<1> DEFINE a == SubSeq(s, 1, n)
           b == SubSeq(s, n + 1, Len(s))
<1>1. Len(s) \in Nat /\ DOMAIN s = 1..Len(s)
  OBVIOUS
<1>2. /\ a \in Seq(TimerBoxes) /\ DOMAIN a = 1..n
      /\ \A j \in 1..n : a[j] = s[j]
  OBVIOUS
<1>3. /\ b \in Seq(TimerBoxes) /\ DOMAIN b = 1..(Len(s) - n)
      /\ \A j \in 1..(Len(s) - n) : b[j] = s[n + j]
  OBVIOUS
<1> HIDE DEF a, b
<1>4. \A j \in 1..(Len(s) - n) : n + j \in (n + 1)..Len(s)
  BY <1>1
<1>5. \A k \in (n + 1)..Len(s) : k - n \in 1..(Len(s) - n) /\ n + (k - n) = k
  BY <1>1
<1>6. 1..Len(s) = 1..n \cup (n + 1)..Len(s) /\ 1..n \cap (n + 1)..Len(s) = {}
  BY <1>1
<1>7. Boxes(s) = Boxes(a) \cup Boxes(b)
  <2>1. Boxes(a) = {s[j] : j \in 1..n}
    BY <1>2 DEF Boxes
  <2>2. Boxes(b) = {s[k] : k \in (n + 1)..Len(s)}
    <3>1. ASSUME NEW k \in (n + 1)..Len(s) PROVE s[k] \in Boxes(b)
      <4>1. k - n \in DOMAIN b /\ b[k - n] = s[k]
        BY <1>3, <1>5
      <4>2. QED BY <4>1 DEF Boxes
    <3>2. ASSUME NEW j \in 1..(Len(s) - n) PROVE b[j] \in {s[k] : k \in (n + 1)..Len(s)}
      BY <1>3, <1>4
    <3>3. Boxes(b) = {b[j] : j \in 1..(Len(s) - n)}
      BY <1>3 DEF Boxes
    <3>4. QED BY <3>1, <3>2, <3>3
  <2>3. Boxes(s) = {s[j] : j \in 1..Len(s)}
    BY <1>1 DEF Boxes
  <2>4. QED BY <1>6, <2>1, <2>2, <2>3
<1>8. ASSUME NEW j \in 1..n, NEW k \in 1..(Len(s) - n) PROVE a[j].id # b[k].id
  <2>1. j \in 1..Len(s) /\ n + k \in 1..Len(s) /\ j # n + k
    BY <1>1
  <2>2. QED BY <1>1, <1>2, <1>3, <2>1 DEF Once
<1>9. Once(a)
  <2>1. 1..n \subseteq 1..Len(s)
    BY <1>6
  <2>2. QED BY <1>1, <1>2, <2>1 DEF Once
<1>10. Once(b)
  <2>1. SUFFICES ASSUME NEW j \in 1..(Len(s) - n), NEW k \in 1..(Len(s) - n), b[j].id = b[k].id
                 PROVE  j = k
    BY <1>3 DEF Once
  <2>2. n + j \in 1..Len(s) /\ n + k \in 1..Len(s)
    BY <1>1
  <2>3. n + j = n + k
    BY <1>1, <1>3, <2>1, <2>2 DEF Once
  <2>4. n \in Int /\ j \in Int /\ k \in Int
    BY <1>1
  <2>5. QED BY <2>3, <2>4
<1>11. Ids(a) \cap Ids(b) = {}
  <2>1. Ids(a) = {a[j].id : j \in 1..n} /\ Ids(b) = {b[k].id : k \in 1..(Len(s) - n)}
    BY <1>2, <1>3 DEF Ids
  <2>2. QED BY <1>8, <2>1
<1>12. QED BY <1>7, <1>9, <1>10, <1>11 DEF a, b

LEMMA RemoveBoxes ==
  ASSUME NEW s \in Seq(TimerBoxes), NEW i \in 1..Len(s), Once(s),
         NEW r, r = RemoveAt(s, i)
  PROVE  Boxes(r) = Boxes(s) \ {s[i]} /\ s[i] \in Boxes(s) /\ Once(r)
<1> DEFINE n == Len(s)
<1>1. n \in Nat /\ i \in 1..n /\ DOMAIN s = 1..n
  OBVIOUS
<1>2. /\ Len(r) = n - 1
      /\ \A j \in 1..(i - 1) : r[j] = s[j]
      /\ \A j \in i..(n - 1) : r[j] = s[j + 1]
  BY RemovePlaces
<1>3. DOMAIN r = 1..(n - 1)
  <2>1. r \in Seq(TimerBoxes)
    BY SeqWithout
  <2>2. QED BY <1>2, <2>1
<1> DEFINE From(j) == IF j < i THEN j ELSE j + 1
<1> HIDE DEF n
<1>4. \A j \in 1..(n - 1) : From(j) \in 1..n /\ From(j) # i /\ r[j] = s[From(j)]
  <2> TAKE j \in 1..(n - 1)
  <2>1. CASE j < i
    <3>1. j \in 1..(i - 1) /\ j \in 1..n
      BY <1>1, <2>1
    <3>2. QED BY <1>2, <2>1, <3>1
  <2>2. CASE ~(j < i)
    <3>1. j \in i..(n - 1) /\ j + 1 \in 1..n /\ j + 1 # i
      BY <1>1, <2>2
    <3>2. QED BY <1>2, <2>2, <3>1
  <2>3. QED BY <2>1, <2>2
<1>5. ASSUME NEW k \in 1..n, k # i PROVE \E j \in 1..(n - 1) : From(j) = k
  <2>1. CASE k < i
    <3>1. k \in 1..(n - 1) /\ From(k) = k
      BY <1>1, <2>1
    <3>2. QED BY <3>1
  <2>2. CASE ~(k < i)
    <3>1. k - 1 \in 1..(n - 1) /\ From(k - 1) = k
      BY <1>1, <1>5, <2>2
    <3>2. QED BY <3>1
  <2>3. QED BY <2>1, <2>2
<1>6. \A j, k \in 1..(n - 1) : From(j) = From(k) => j = k
  BY <1>1
<1> HIDE DEF From
<1>7. \A k \in 1..n : s[k] = s[i] => k = i
  BY <1>1 DEF Once
<1>8. Boxes(r) = Boxes(s) \ {s[i]}
  <2>1. ASSUME NEW j \in 1..(n - 1) PROVE r[j] \in Boxes(s) \ {s[i]}
    <3>1. r[j] = s[From(j)] /\ From(j) \in 1..n /\ From(j) # i
      BY <1>4
    <3>2. QED BY <1>1, <1>7, <3>1 DEF Boxes
  <2>2. ASSUME NEW k \in 1..n, s[k] # s[i] PROVE s[k] \in Boxes(r)
    <3>1. PICK j \in 1..(n - 1) : From(j) = k
      BY <1>5, <2>2
    <3>2. r[j] = s[k]
      BY <1>4, <3>1
    <3>3. QED BY <1>3, <3>2 DEF Boxes
  <2>3. QED BY <1>1, <1>3, <2>1, <2>2 DEF Boxes
<1>9. Once(r)
  <2>1. SUFFICES ASSUME NEW j \in 1..(n - 1), NEW k \in 1..(n - 1), r[j].id = r[k].id
                 PROVE  j = k
    BY <1>3 DEF Once
  <2>2. s[From(j)].id = s[From(k)].id /\ From(j) \in 1..n /\ From(k) \in 1..n
    BY <1>4, <2>1
  <2>3. From(j) = From(k)
    BY <1>1, <2>2 DEF Once
  <2>4. QED BY <1>6, <2>3
<1>10. QED BY <1>1, <1>8, <1>9 DEF Boxes

LEMMA TailBoxes ==
  ASSUME NEW s \in Seq(TimerBoxes), s # <<>>, Once(s)
  PROVE  /\ s[1] \in Boxes(s) /\ Boxes(Tail(s)) = Boxes(s) \ {s[1]}
         /\ Once(Tail(s)) /\ 1 \in DOMAIN s
<1>1. 1 \in 1..Len(s) /\ Tail(s) = RemoveAt(s, 1)
  <2>1. Len(s) \in Nat \ {0}
    OBVIOUS
  <2>2. SubSeq(s, 1, 1 - 1) = <<>> /\ SubSeq(s, 1 + 1, Len(s)) = Tail(s)
    OBVIOUS
  <2>3. Tail(s) \in Seq(TimerBoxes)
    OBVIOUS
  <2>4. <<>> \o Tail(s) = Tail(s)
    BY <2>3
  <2>5. QED BY <2>1, <2>2, <2>4 DEF RemoveAt
<1>2. 1 \in DOMAIN s
  BY <1>1
<1>3. QED BY <1>1, <1>2, RemoveBoxes

-----------------------------------------------------------------------------
(* A boxed timer is new and in no other hand, the drained timers are due,   *)
(* and nothing is drained but between Drain and the end of Fire.            *)
BoxedIsNew ==
  \A c \in Callers : boxed[c] = <<>> \/
    \E x \in TimerBoxes :
      /\ boxed[c] = <<x>> /\ x.id \notin added
      /\ \A d \in Callers \ {c} : x.id \notin Ids(boxed[d])
DrainedAreDue ==
  /\ due <= now
  /\ \A x \in Boxes(expired) : x.expire_time <= now
  /\ pc # "fire" => expired = <<>>

PInv == EachTimerOnce /\ BoxedIsNew /\ DrainedAreDue

LEMMA InitOnce == Init => PInv
BY WakeupAssumption
   DEF Init, PInv, EachTimerOnce, BoxedIsNew, DrainedAreDue, Once, Ids, Boxes

LEMMA SingletonIds ==
  ASSUME NEW x
  PROVE  Ids(<<x>>) = {x.id}
BY DEF Ids

LEMMA EmptyBoxes == Boxes(<<>>) = {} /\ Ids(<<>>) = {} /\ Once(<<>>)
BY DEF Boxes, Ids, Once

(* The steps that leave the timers where they are.                          *)
LEMMA QuietOnce ==
  ASSUME TypeOK, PInv, UNCHANGED <<timers, expired, boxed, added, deleted, fired, now>>,
         due' \in {due, now, 0}, pc' = "fire" \/ expired = <<>>
  PROVE  PInv'
<1>1. EachTimerOnce' /\ BoxedIsNew'
  BY DEF PInv, EachTimerOnce, BoxedIsNew
<1>2. DrainedAreDue'
  <2>1. due <= now /\ now \in Nat /\ due \in Nat
    BY WakeupAssumption DEF PInv, DrainedAreDue, TypeOK
  <2>2. QED BY <2>1 DEF PInv, DrainedAreDue
<1>3. QED BY <1>1, <1>2 DEF PInv

LEMMA CallerOnce ==
  ASSUME TypeOK, PInv, NEW c \in Callers, Caller(c)
  PROVE  PInv'
<1> USE DEF flags, locals, loopVars, callerVars, history
<1>0. EachTimerOnce /\ BoxedIsNew /\ DrainedAreDue /\ timers \in Seq(TimerBoxes)
      /\ boxed \in [Callers -> Seq(TimerBoxes)]
  BY DEF PInv, TypeOK
<1>1. CASE TimerNew(c)
  <2>1. PICK t \in Timers \ (added \cup UNION {Ids(boxed[d]) : d \in Callers}),
              delay \in Delays :
          /\ now + delay <= MaxTime
          /\ boxed' = [boxed EXCEPT ![c] = <<[id |-> t, expire_time |-> now + delay]>>]
    BY <1>1 DEF TimerNew
  <2> DEFINE x == [id |-> t, expire_time |-> now + delay]
  <2>2. x \in TimerBoxes /\ x.id = t
    BY <2>1, WakeupAssumption DEF TypeOK, TimerBoxes
  <2> HIDE DEF x
  <2>3. boxed'[c] = <<x>> /\ \A d \in Callers \ {c} : boxed'[d] = boxed[d]
    BY <1>0, <2>1 DEF x
  <2>4. x.id \notin added /\ \A d \in Callers : x.id \notin Ids(boxed[d])
    BY <2>1, <2>2
  <2>5. UNCHANGED <<added, timers, expired, deleted, fired, now, due, pc>>
    BY <1>1 DEF TimerNew
  <2>6. ASSUME NEW d \in Callers, d # c, boxed[d] # <<>>
        PROVE  \E y \in TimerBoxes :
                 /\ boxed'[d] = <<y>> /\ y.id \notin added'
                 /\ \A e \in Callers \ {d} : y.id \notin Ids(boxed'[e])
    <3>1. PICK y \in TimerBoxes :
            /\ boxed[d] = <<y>> /\ y.id \notin added
            /\ \A e \in Callers \ {d} : y.id \notin Ids(boxed[e])
      BY <1>0, <2>6 DEF BoxedIsNew
    <3>2. Ids(boxed[d]) = {y.id}
      BY <3>1, SingletonIds
    <3>3. Ids(boxed'[c]) = {x.id}
      BY <2>3, SingletonIds
    <3>4. y.id # x.id
      BY <2>4, <3>2
    <3>5. QED BY <2>3, <2>5, <2>6, <3>1, <3>3, <3>4
  <2>7. BoxedIsNew'
    BY <2>2, <2>3, <2>4, <2>5, <2>6 DEF BoxedIsNew
  <2>8. EachTimerOnce' /\ DrainedAreDue'
    BY <1>0, <2>5 DEF EachTimerOnce, DrainedAreDue
  <2>9. QED BY <2>7, <2>8 DEF PInv
<1>2. CASE timer_add(c)
  <2>0. boxed[c] # <<>>
    BY <1>2 DEF timer_add, TypeOK
  <2>1. PICK x \in TimerBoxes :
          /\ boxed[c] = <<x>> /\ x.id \notin added
          /\ \A d \in Callers \ {c} : x.id \notin Ids(boxed[d])
    BY <1>0, <2>0 DEF BoxedIsNew
  <2>2. boxed[c][1] = x
    BY <2>1
  <2>3. PICK i \in 1..(Len(timers) + 1) : timers' = InsertAt(timers, i, x)
    BY <1>2, <2>2 DEF timer_add
  <2>4. x.id \notin Ids(timers) /\ Once(timers)
    BY <1>0, <2>1 DEF EachTimerOnce
  <2>5. Boxes(timers') = Boxes(timers) \cup {x} /\ Once(timers')
    BY <1>0, <2>3, <2>4, InsertBoxes
  <2>6. Ids(timers') = Ids(timers) \cup {x.id}
    <3>1. Ids(timers') = {y.id : y \in Boxes(timers')} /\ Ids(timers) = {y.id : y \in Boxes(timers)}
      BY IdsOfBoxes
    <3>2. QED BY <2>5, <3>1
  <2>7. added' = added \cup {x.id} /\ UNCHANGED <<expired, fired, deleted, now, due, pc>>
    BY <1>2, <2>2 DEF timer_add
  <2>8. boxed'[c] = <<>> /\ \A d \in Callers \ {c} : boxed'[d] = boxed[d]
    BY <1>0, <1>2 DEF timer_add
  <2>9. EachTimerOnce'
    BY <1>0, <2>1, <2>5, <2>6, <2>7 DEF EachTimerOnce
  <2>10. BoxedIsNew'
    <3>1. SUFFICES ASSUME NEW d \in Callers, boxed'[d] # <<>>
                   PROVE  \E y \in TimerBoxes :
                            /\ boxed'[d] = <<y>> /\ y.id \notin added'
                            /\ \A e \in Callers \ {d} : y.id \notin Ids(boxed'[e])
      BY DEF BoxedIsNew
    <3>2. d # c /\ boxed[d] # <<>> /\ boxed'[d] = boxed[d]
      BY <2>8, <3>1
    <3>3. PICK y \in TimerBoxes :
            /\ boxed[d] = <<y>> /\ y.id \notin added
            /\ \A e \in Callers \ {d} : y.id \notin Ids(boxed[e])
      BY <1>0, <3>2 DEF BoxedIsNew
    <3>4. Ids(boxed[d]) = {y.id} /\ x.id \notin Ids(boxed[d])
      BY <2>1, <3>2, <3>3, SingletonIds
    <3>5. Ids(boxed'[c]) = {}
      BY <2>8, EmptyBoxes
    <3>6. QED BY <2>7, <2>8, <3>2, <3>3, <3>4, <3>5
  <2>11. DrainedAreDue'
    BY <1>0, <2>7 DEF DrainedAreDue
  <2>12. QED BY <2>9, <2>10, <2>11 DEF PInv
<1>3. CASE timer_del(c)
  <2>1. PICK i \in 1..Len(timers) :
          /\ timers' = RemoveAt(timers, i)
          /\ deleted' = deleted \cup {timers[i].id}
    BY <1>3 DEF timer_del
  <2>2. /\ Boxes(timers') = Boxes(timers) \ {timers[i]} /\ timers[i] \in Boxes(timers)
        /\ Once(timers')
    BY <1>0, <2>1, RemoveBoxes DEF EachTimerOnce
  <2>3. Ids(timers') = Ids(timers) \ {timers[i].id} /\ timers[i].id \in Ids(timers)
    <3>1. Ids(timers') = {y.id : y \in Boxes(timers')} /\ Ids(timers) = {y.id : y \in Boxes(timers)}
      BY IdsOfBoxes
    <3>2. \A y \in Boxes(timers) : y.id = timers[i].id => y = timers[i]
      BY <1>0, <2>1 DEF EachTimerOnce, Once, Boxes
    <3>3. QED BY <2>2, <3>1, <3>2
  <2>4. UNCHANGED <<expired, fired, added, boxed, now, due, pc>>
    BY <1>3 DEF timer_del
  <2>5. EachTimerOnce'
    BY <1>0, <2>1, <2>2, <2>3, <2>4 DEF EachTimerOnce
  <2>6. BoxedIsNew' /\ DrainedAreDue'
    BY <1>0, <2>4 DEF BoxedIsNew, DrainedAreDue
  <2>7. QED BY <2>5, <2>6 DEF PInv
<1>4. CASE UpdateEvents(c) \/ RequestExit(c) \/ StoreKicked(c) \/ LoadKickMe(c) \/ WriteKick(c)
  <2>1. UNCHANGED <<timers, expired, boxed, added, deleted, fired, now, due, pc>>
    BY <1>4 DEF UpdateEvents, RequestExit, StoreKicked, LoadKickMe, WriteKick
  <2>2. QED BY <1>0, <2>1, QuietOnce DEF DrainedAreDue
<1>5. QED BY <1>1, <1>2, <1>3, <1>4 DEF Caller, Continue

LEMMA LoopOnce ==
  ASSUME TypeOK, PInv, Loop \/ Interrupt \/ WaitFails \/ TimePasses
  PROVE  PInv'
<1> USE DEF flags, locals, loopVars, callerVars, history
<1>0. EachTimerOnce /\ BoxedIsNew /\ DrainedAreDue /\ timers \in Seq(TimerBoxes)
      /\ expired \in Seq(TimerBoxes) /\ Len(timers) \in Nat
  BY ExpiryIsInt DEF PInv, TypeOK
<1>1. CASE run \/ ClearKicked \/ timers_min_duration \/ Arm \/ Recheck \/ Sleep
           \/ LeavePpoll \/ LeaveWait \/ WaitFails \/ Disarm \/ Dispatch
           \/ UpdateAfterDispatch \/ SnapNow
  <2>1. /\ UNCHANGED <<timers, expired, boxed, added, deleted, fired, now>>
        /\ due' \in {due, now, 0} /\ pc # "fire"
    BY <1>1 DEF run, ClearKicked, timers_min_duration, Arm, Recheck, Sleep, LeavePpoll,
                LeaveWait, WaitFails, Disarm, Dispatch, UpdateAfterDispatch, SnapNow
  <2>2. QED BY <1>0, <2>1, QuietOnce DEF DrainedAreDue
<1>2. CASE Drain
  <2>1. PICK n \in 0..Len(timers) :
          /\ DueCount(n) /\ expired' = SubSeq(timers, 1, n)
          /\ timers' = SubSeq(timers, n + 1, Len(timers))
    BY <1>2 DEF Drain
  <2>2. /\ Boxes(timers) = Boxes(expired') \cup Boxes(timers')
        /\ Ids(expired') \cap Ids(timers') = {} /\ Once(expired') /\ Once(timers')
    <3>1. Once(timers)
      BY <1>0 DEF EachTimerOnce
    <3> DEFINE a == SubSeq(timers, 1, n)
               b == SubSeq(timers, n + 1, Len(timers))
    <3>2. timers \in Seq(TimerBoxes) /\ n \in 0..Len(timers) /\ expired' = a /\ timers' = b
      BY <1>0, <2>1
    <3>3. Boxes(timers) = Boxes(a) \cup Boxes(b) /\ Ids(a) \cap Ids(b) = {} /\ Once(a) /\ Once(b)
      BY <3>1, <3>2, CutBoxes
    <3> HIDE DEF a, b
    <3>4. QED BY <3>2, <3>3
  <2>3. Ids(timers) = Ids(expired') \cup Ids(timers')
    <3>1. /\ Ids(timers) = {y.id : y \in Boxes(timers)}
          /\ Ids(timers') = {y.id : y \in Boxes(timers')}
          /\ Ids(expired') = {y.id : y \in Boxes(expired')}
      BY IdsOfBoxes
    <3>2. QED BY <2>2, <3>1
  <2>4. expired = <<>> /\ Ids(expired) = {}
    BY <1>0, <1>2, EmptyBoxes DEF Drain, DrainedAreDue
  <2>5. UNCHANGED <<boxed, added, deleted, fired, now>> /\ due' = 0 /\ pc' = "fire"
    BY <1>2 DEF Drain
  <2>6. EachTimerOnce'
    BY <1>0, <2>2, <2>3, <2>4, <2>5 DEF EachTimerOnce
  <2>7. \A x \in Boxes(expired') : x.expire_time <= now
    <3>1. expired' \in Seq(TimerBoxes) /\ DOMAIN expired' = 1..n
          /\ \A j \in 1..n : expired'[j] = timers[j] /\ j \in 1..Len(timers)
      BY <1>0, <2>1
    <3>2. \A j \in 1..n : timers[j].expire_time <= due
      BY <2>1 DEF DueCount
    <3>3. due <= now /\ now \in Int /\ due \in Int
      BY <1>0 DEF DrainedAreDue, TypeOK
    <3>4. \A j \in 1..Len(timers) : timers[j].expire_time \in Int
      BY ExpiryIsInt
    <3>5. ASSUME NEW j \in 1..n PROVE expired'[j].expire_time <= now
      BY <3>1, <3>2, <3>3, <3>4
    <3>6. QED BY <3>1, <3>5 DEF Boxes
  <2>8. DrainedAreDue' /\ BoxedIsNew'
    BY <1>0, <2>5, <2>7, WakeupAssumption DEF DrainedAreDue, BoxedIsNew, TypeOK
  <2>9. QED BY <2>6, <2>8 DEF PInv
<1>3. CASE Fire
  <2>0. UNCHANGED <<timers, boxed, added, deleted, now, due>>
    BY <1>3 DEF Fire
  <2>1. CASE expired = <<>>
    <3>1. UNCHANGED <<timers, expired, boxed, added, deleted, fired, now, due>>
      BY <1>3, <2>0, <2>1 DEF Fire
    <3>2. QED BY <2>1, <3>1, QuietOnce
  <2>2. CASE expired # <<>>
    <3>1. fired' = fired \cup {expired[1].id} /\ expired' = Tail(expired) /\ pc' = pc
      BY <1>3, <2>2 DEF Fire
    <3>3. /\ Boxes(expired') = Boxes(expired) \ {expired[1]} /\ expired[1] \in Boxes(expired)
          /\ Once(expired') /\ 1 \in DOMAIN expired
      BY <1>0, <2>2, <3>1, TailBoxes DEF EachTimerOnce
    <3>4. Ids(expired') = Ids(expired) \ {expired[1].id} /\ expired[1].id \in Ids(expired)
      <4>1. Ids(expired') = {y.id : y \in Boxes(expired')} /\ Ids(expired) = {y.id : y \in Boxes(expired)}
        BY IdsOfBoxes
      <4>2. \A y \in Boxes(expired) : y.id = expired[1].id => y = expired[1]
        BY <1>0, <3>3 DEF EachTimerOnce, Once, Boxes
      <4>3. QED BY <3>3, <4>1, <4>2
    <3>5. EachTimerOnce'
      BY <1>0, <2>0, <3>1, <3>3, <3>4 DEF EachTimerOnce
    <3>6. DrainedAreDue' /\ BoxedIsNew'
      BY <1>0, <1>3, <2>0, <3>1, <3>3 DEF DrainedAreDue, BoxedIsNew, Fire
    <3>7. QED BY <3>5, <3>6 DEF PInv
  <2>3. QED BY <2>1, <2>2
<1>4. CASE TimePasses
  <2>1. /\ now' = now + 1
        /\ UNCHANGED <<timers, expired, boxed, added, deleted, fired, due, pc>>
    BY <1>4 DEF TimePasses
  <2>2. now \in Int /\ due \in Int /\ \A x \in Boxes(expired) : x.expire_time \in Int
    <3>1. \A j \in DOMAIN expired : expired[j] \in TimerBoxes
      BY <1>0
    <3>2. \A x \in Boxes(expired) : x \in TimerBoxes
      BY <3>1 DEF Boxes
    <3>3. QED BY <3>2 DEF TypeOK, TimerBoxes
  <2>3. DrainedAreDue'
    BY <1>0, <2>1, <2>2 DEF DrainedAreDue
  <2>4. EachTimerOnce' /\ BoxedIsNew'
    BY <1>0, <2>1 DEF EachTimerOnce, BoxedIsNew
  <2>5. QED BY <2>3, <2>4 DEF PInv
<1>5. QED BY <1>1, <1>2, <1>3, <1>4 DEF Loop, Interrupt, ppoll, wait

LEMMA OnceInductive ==
  ASSUME TypeOK, PInv, [Next]_vars
  PROVE  PInv'
<1>1. CASE UNCHANGED vars
  BY <1>1 DEF vars, locals, loopVars, callerVars, history, PInv, EachTimerOnce, BoxedIsNew,
              DrainedAreDue
<1>2. QED BY <1>1, CallerOnce, LoopOnce DEF Next

(* Whatever the threads do, each timer is called or removed at most once,   *)
(* and not both.                                                            *)
THEOREM TimersRunOnce == Spec => []EachTimerOnce
<1>1. PInv => EachTimerOnce
  BY DEF PInv
<1>2. QED BY <1>1, TypeCorrect, OnceInductive, InitOnce, PTL DEF Spec
-----------------------------------------------------------------------------
(* The refinement: what each step does to the service's pending timers.     *)
LEMMA InitService == Init => Service!Init
BY EmptyBoxes DEF Init, Service!Init

LEMMA ServiceStutters ==
  ASSUME UNCHANGED <<now, timers, expired, fired, deleted>>
  PROVE  UNCHANGED Service!serviceVars
BY DEF Service!serviceVars

LEMMA PendingIds ==
  ASSUME NEW x, PInv, x.id \notin added
  PROVE  x.id \notin {y.id : y \in Boxes(timers) \cup Boxes(expired)} \cup fired \cup deleted
<1>1. /\ Ids(timers) = {y.id : y \in Boxes(timers)}
      /\ Ids(expired) = {y.id : y \in Boxes(expired)}
  BY IdsOfBoxes
<1>2. x.id \notin Ids(timers) \cup Ids(expired) \cup fired \cup deleted
  BY DEF PInv, EachTimerOnce
<1>3. QED BY <1>1, <1>2

LEMMA BoxesApart ==
  ASSUME PInv
  PROVE  Boxes(timers) \cap Boxes(expired) = {}
<1>1. /\ Ids(timers) = {y.id : y \in Boxes(timers)}
      /\ Ids(expired) = {y.id : y \in Boxes(expired)}
  BY IdsOfBoxes
<1>2. Ids(timers) \cap Ids(expired) = {}
  BY DEF PInv, EachTimerOnce
<1>3. QED BY <1>1, <1>2

LEMMA CallerService ==
  ASSUME TypeOK, PInv, NEW c \in Callers, Caller(c)
  PROVE  [Service!Next]_(Service!serviceVars)
<1> USE DEF flags, locals, loopVars, callerVars, history
<1>0. /\ EachTimerOnce /\ BoxedIsNew /\ timers \in Seq(TimerBoxes)
      /\ expired \in Seq(TimerBoxes) /\ Once(timers)
  BY DEF PInv, TypeOK, EachTimerOnce
<1>1. CASE timer_add(c)
  <2>1. boxed[c] # <<>>
    BY <1>1 DEF timer_add, TypeOK
  <2>2. PICK x \in TimerBoxes : boxed[c] = <<x>> /\ x.id \notin added
    BY <1>0, <2>1 DEF BoxedIsNew
  <2>3. boxed[c][1] = x
    BY <2>2
  <2>4. PICK i \in 1..(Len(timers) + 1) : timers' = InsertAt(timers, i, x)
    BY <1>1, <2>3 DEF timer_add
  <2>5. x.id \notin {y.id : y \in Boxes(timers) \cup Boxes(expired)} \cup fired \cup deleted
    BY <2>2, PendingIds
  <2>6. x.id \notin Ids(timers)
    BY <1>0, <2>2 DEF EachTimerOnce
  <2>7. Boxes(timers') = Boxes(timers) \cup {x}
    BY <1>0, <2>4, <2>6, InsertBoxes
  <2>8. UNCHANGED <<now, expired, fired, deleted>>
    BY <1>1 DEF timer_add
  <2>9. Service!Add(x)
    BY <2>5, <2>7, <2>8 DEF Service!Add
  <2>10. x \in Service!TimerBoxes
    BY <2>2 DEF TimerBoxes, Service!TimerBoxes
  <2>11. QED BY <2>9, <2>10 DEF Service!Next
<1>2. CASE timer_del(c)
  <2>1. PICK i \in 1..Len(timers) :
          timers' = RemoveAt(timers, i) /\ deleted' = deleted \cup {timers[i].id}
    BY <1>2 DEF timer_del
  <2>2. timers[i] \in Boxes(timers) /\ Boxes(timers') = Boxes(timers) \ {timers[i]}
    BY <1>0, <2>1, RemoveBoxes
  <2>3. timers[i] \notin Boxes(expired)
    BY <2>2, BoxesApart
  <2>4. UNCHANGED <<now, expired, fired>>
    BY <1>2 DEF timer_del
  <2>5. Service!Remove(timers[i])
    BY <2>1, <2>2, <2>3, <2>4 DEF Service!Remove
  <2>6. timers[i] \in Service!TimerBoxes
    <3>1. timers[i] \in TimerBoxes
      BY <1>0
    <3>2. QED BY <3>1 DEF TimerBoxes, Service!TimerBoxes
  <2>7. QED BY <2>5, <2>6 DEF Service!Next
<1>3. CASE TimerNew(c) \/ UpdateEvents(c) \/ RequestExit(c) \/ StoreKicked(c)
           \/ LoadKickMe(c) \/ WriteKick(c)
  <2>1. UNCHANGED <<now, timers, expired, fired, deleted>>
    BY <1>3 DEF TimerNew, UpdateEvents, RequestExit, StoreKicked, LoadKickMe, WriteKick
  <2>2. QED BY <2>1, ServiceStutters
<1>4. QED BY <1>1, <1>2, <1>3 DEF Caller, Continue

LEMMA LoopService ==
  ASSUME TypeOK, PInv, Loop \/ Interrupt \/ WaitFails \/ TimePasses
  PROVE  [Service!Next]_(Service!serviceVars)
<1> USE DEF flags, locals, loopVars, callerVars, history
<1>0. /\ EachTimerOnce /\ DrainedAreDue /\ timers \in Seq(TimerBoxes)
      /\ expired \in Seq(TimerBoxes) /\ Once(timers) /\ Once(expired)
  BY DEF PInv, TypeOK, EachTimerOnce
<1>1. CASE run \/ ClearKicked \/ timers_min_duration \/ Arm \/ Recheck \/ Sleep
           \/ LeavePpoll \/ LeaveWait \/ WaitFails \/ Disarm \/ Dispatch
           \/ UpdateAfterDispatch \/ SnapNow
  <2>1. UNCHANGED <<now, timers, expired, fired, deleted>>
    BY <1>1 DEF run, ClearKicked, timers_min_duration, Arm, Recheck, Sleep, LeavePpoll,
                LeaveWait, WaitFails, Disarm, Dispatch, UpdateAfterDispatch, SnapNow
  <2>2. QED BY <2>1, ServiceStutters
<1>2. CASE Drain
  <2>1. PICK n \in 0..Len(timers) :
          expired' = SubSeq(timers, 1, n) /\ timers' = SubSeq(timers, n + 1, Len(timers))
    BY <1>2 DEF Drain
  <2>2. Boxes(timers) = Boxes(expired') \cup Boxes(timers')
    <3> DEFINE a == SubSeq(timers, 1, n)
               b == SubSeq(timers, n + 1, Len(timers))
    <3>1. Boxes(timers) = Boxes(a) \cup Boxes(b)
      BY <1>0, CutBoxes
    <3>2. expired' = a /\ timers' = b
      BY <2>1
    <3> HIDE DEF a, b
    <3>3. QED BY <3>1, <3>2
  <2>3. Boxes(expired) = {}
    BY <1>0, <1>2, EmptyBoxes DEF Drain, DrainedAreDue
  <2>4. UNCHANGED <<now, fired, deleted>>
    BY <1>2 DEF Drain
  <2>5. QED BY <2>2, <2>3, <2>4 DEF Service!serviceVars
<1>3. CASE Fire
  <2>1. CASE expired = <<>>
    <3>1. UNCHANGED <<now, timers, expired, fired, deleted>>
      BY <1>3, <2>1 DEF Fire
    <3>2. QED BY <3>1, ServiceStutters
  <2>2. CASE expired # <<>>
    <3>1. /\ fired' = fired \cup {expired[1].id} /\ expired' = Tail(expired)
          /\ UNCHANGED <<now, timers, deleted>>
      BY <1>3, <2>2 DEF Fire
    <3>2. expired[1] \in Boxes(expired) /\ Boxes(expired') = Boxes(expired) \ {expired[1]}
      BY <1>0, <2>2, <3>1, TailBoxes
    <3>3. expired[1] \notin Boxes(timers)
      BY <3>2, BoxesApart
    <3>4. expired[1].expire_time <= now
      BY <1>0, <3>2 DEF DrainedAreDue
    <3>5. Service!Call(expired[1])
      BY <3>1, <3>2, <3>3, <3>4 DEF Service!Call
    <3>6. expired[1] \in Service!TimerBoxes
      <4>1. expired[1] \in TimerBoxes
        BY <1>0, <2>2, SeqHead
      <4>2. QED BY <4>1 DEF TimerBoxes, Service!TimerBoxes
    <3>7. QED BY <3>5, <3>6 DEF Service!Next
  <2>3. QED BY <2>1, <2>2
<1>4. CASE TimePasses
  <2>1. Service!TimePasses
    BY <1>4 DEF TimePasses, Service!TimePasses
  <2>2. QED BY <2>1 DEF Service!Next
<1>5. QED BY <1>1, <1>2, <1>3, <1>4 DEF Loop, Interrupt, ppoll, wait

(* The list, the flags and the loop implement the service of timers: every  *)
(* step is a step of the service or changes nothing that it shows.          *)
THEOREM LoopImplementsService == Spec => ImplementsService
<1>1. ASSUME TypeOK, PInv, [Next]_vars
      PROVE  [Service!Next]_(Service!serviceVars)
  <2>1. CASE UNCHANGED vars
    <3>1. UNCHANGED <<now, timers, expired, fired, deleted>>
      BY <2>1 DEF vars, locals, loopVars, history
    <3>2. QED BY <3>1, ServiceStutters
  <2>2. QED BY <1>1, <2>1, CallerService, LoopService DEF Next
<1>2. QED
  BY <1>1, InitService, TypeCorrect, OnceInductive, InitOnce, PTL
     DEF Spec, ImplementsService, Service!Spec

(* run_timers takes all the timers due at its instant and only those.       *)
THEOREM DrainTakesWhatIsDue == Spec => DrainsWhatIsDue
<1> DEFINE A == pc = "drain" /\ pc' = "fire" =>
                  /\ \A i \in 1..Len(expired') : expired'[i].expire_time <= due
                  /\ \A i \in 1..Len(timers') : timers'[i].expire_time > due
<1>1. ASSUME TypeOK, TimersSorted, Next, pc = "drain", pc' = "fire" PROVE A
  <2>1. Drain
    BY <1>1
       DEF Next, Loop, Interrupt, Caller, Continue, run, ClearKicked, timers_min_duration, Arm,
           Recheck, Sleep, ppoll, wait, LeavePpoll, LeaveWait, WaitFails, Disarm, Dispatch,
           UpdateAfterDispatch, SnapNow, Fire, TimePasses, TimerNew, timer_add, timer_del,
           UpdateEvents, RequestExit, StoreKicked, LoadKickMe, WriteKick, loopVars
  <2>2. PICK n \in 0..Len(timers) :
          /\ DueCount(n) /\ expired' = SubSeq(timers, 1, n)
          /\ timers' = SubSeq(timers, n + 1, Len(timers))
    BY <2>1 DEF Drain
  <2>3. /\ timers \in Seq(TimerBoxes) /\ Len(timers) \in Nat /\ due \in Int
        /\ \A j \in 1..Len(timers) : timers[j].expire_time \in Int
    BY <1>1, ExpiryIsInt DEF TypeOK
  <2>4. Len(expired') = n /\ \A j \in 1..n : expired'[j] = timers[j]
    BY <2>2, <2>3
  <2>5. /\ Len(timers') = Len(timers) - n
        /\ \A j \in 1..(Len(timers) - n) : timers'[j] = timers[n + j]
    BY <2>2, <2>3
  <2>6. ASSUME NEW j \in 1..(Len(timers) - n) PROVE timers'[j].expire_time > due
    <3>1. n + j \in 1..Len(timers) /\ n + 1 \in 1..Len(timers) /\ n < Len(timers)
          /\ (n + 1 = n + j \/ n + 1 < n + j)
      BY <2>3
    <3>2. timers[n + 1].expire_time > due
      BY <2>2, <3>1 DEF DueCount
    <3>3. timers[n + 1].expire_time <= timers[n + j].expire_time
      BY <1>1, <2>3, <3>1 DEF TimersSorted
    <3>4. QED BY <2>3, <2>5, <3>1, <3>2, <3>3
  <2>7. \A j \in 1..n : expired'[j].expire_time <= due
    BY <2>2, <2>4 DEF DueCount
  <2>8. QED BY <2>4, <2>5, <2>6, <2>7
<1>2. TypeOK /\ TimersSorted /\ [Next]_vars => [A]_vars
  BY <1>1
<1>3. Spec => [][A]_vars
  BY <1>2, TypeCorrect, TimersAreSorted, PTL DEF Spec
<1>4. QED BY <1>3 DEF DrainsWhatIsDue
=============================================================================
