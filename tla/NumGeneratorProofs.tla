-------------------------- MODULE NumGeneratorProofs ------------------------
(***************************************************************************)
(* The number generator for every width of T.                              *)
(***************************************************************************)
EXTENDS NumGenerator, TLAPS

(* The double reduction (wrap at the width, then modulo the maximum) is an *)
(* increment with a reset: it stays in range and skips only the maximum.   *)
LEMMA NextNumInRange ==
  ASSUME NEW n \in Nums
  PROVE  /\ NextNum(n) \in Nums
         /\ NextNum(n) = IF n = MaxOfT - 1 THEN 0 ELSE n + 1
<1>1. n \in Nat /\ MaxOfT \in Nat /\ n + 1 <= MaxOfT /\ MaxOfT > 0
  BY MaxOfTAssumption DEF Nums
<1>2. Incremented(n) = n + 1
  BY <1>1 DEF Incremented
<1>3. CASE n = MaxOfT - 1
  BY <1>1, <1>2, <1>3 DEF NextNum, Nums
<1>4. CASE n # MaxOfT - 1
  <2>1. n + 1 < MaxOfT
    BY <1>1, <1>4
  <2> QED
    BY <1>1, <1>2, <1>4, <2>1 DEF NextNum, Nums
<1> QED
  BY <1>3, <1>4

(* Two numbers of a cycle have different successors: within a cycle no     *)
(* heartbeat repeats the number of another.                                *)
LEMMA NextNumInjective ==
  ASSUME NEW m \in Nums, NEW n \in Nums, NextNum(m) = NextNum(n)
  PROVE  m = n
  BY NextNumInRange, MaxOfTAssumption DEF Nums

LEMMA NumsInit == GenInit => MaxIsSkipped
  BY MaxOfTAssumption DEF GenInit, MaxIsSkipped, Nums

LEMMA NumsNext == MaxIsSkipped /\ [GetNum]_num_ => MaxIsSkipped'
  BY NextNumInRange DEF MaxIsSkipped, GetNum

(* The maximum of T is never handed out. *)
THEOREM MaxAlwaysSkipped == GenSpec => []MaxIsSkipped
  BY NumsInit, NumsNext, PTL DEF GenSpec

(* The number grows by one and falls back to 0 exactly after MaxOfT - 1.   *)
THEOREM AlwaysRestartsAfterLast == GenSpec => RestartsAfterLast
<1>1. MaxIsSkipped /\ [GetNum]_num_ =>
        [IF num_ = MaxOfT - 1 THEN num_' = 0 ELSE num_' = num_ + 1]_num_
  BY NextNumInRange DEF MaxIsSkipped, GetNum
<1> QED
  BY <1>1, NumsInit, NumsNext, PTL DEF GenSpec, RestartsAfterLast

(* The number handed out after n others is the rest of n divided by MaxOfT *)
(* (n counts the calls of GetNum).                                         *)
THEOREM NthNumber ==
  ASSUME NEW VARIABLE n
  PROVE  GenInit /\ n = 0 /\ [][GetNum /\ n' = n + 1]_<<num_, n>> =>
           [](\E cycles \in Nat : n = cycles * MaxOfT + num_ /\ num_ \in Nums)
<1> DEFINE Rest == \E cycles \in Nat : n = cycles * MaxOfT + num_ /\ num_ \in Nums
<1>1. GenInit /\ n = 0 => Rest
  <2> SUFFICES ASSUME GenInit, n = 0 PROVE Rest
    OBVIOUS
  <2>1. n = 0 * MaxOfT + num_ /\ num_ \in Nums
    BY MaxOfTAssumption, NumsInit DEF GenInit, MaxIsSkipped
  <2> QED
    BY <2>1
<1>2. Rest /\ [GetNum /\ n' = n + 1]_<<num_, n>> => Rest'
  <2> SUFFICES ASSUME Rest, GetNum, n' = n + 1 PROVE Rest'
    OBVIOUS
  <2>1. PICK cycles \in Nat : n = cycles * MaxOfT + num_ /\ num_ \in Nums
    OBVIOUS
  <2>2. num_' \in Nums /\ num_' = IF num_ = MaxOfT - 1 THEN 0 ELSE num_ + 1
    BY <2>1, NextNumInRange DEF GetNum
  <2>3. MaxOfT \in Nat /\ num_ \in Nat
    BY <2>1, MaxOfTAssumption DEF Nums
  <2>4. CASE num_ = MaxOfT - 1
    <3>1. n' = (cycles + 1) * MaxOfT + num_'
      BY <2>1, <2>2, <2>3, <2>4
    <3> WITNESS cycles + 1 \in Nat
    <3> QED
      BY <2>2, <3>1
  <2>5. CASE num_ # MaxOfT - 1
    <3>1. n' = cycles * MaxOfT + num_'
      BY <2>1, <2>2, <2>3, <2>5
    <3> WITNESS cycles \in Nat
    <3> QED
      BY <2>2, <3>1
  <2> QED
    BY <2>4, <2>5
<1> QED
  BY <1>1, <1>2, PTL

=============================================================================
