---------------------------- MODULE NumGenerator ----------------------------
(***************************************************************************)
(* The heartbeat number generator, NumGenerator<T> of                      *)
(* src/src/l1_num_generator.h.  One static number per type T is shared by  *)
(* every caller; GetNum hands out its value and advances it.               *)
(*                                                                         *)
(* GenSpec is the generator alone.  SendWorker extends this module and     *)
(* takes one GetNum step whenever its timer callback draws a number.       *)
(***************************************************************************)
EXTENDS Naturals

CONSTANT MaxOfT   \* std::numeric_limits<T>::max(), 65535 for unsigned short

ASSUME MaxOfTAssumption == MaxOfT \in Nat \ {0}

VARIABLE num_     \* the static T num_

-----------------------------------------------------------------------------

(* The numbers GetNum can hand out. *)
Nums == 0 .. MaxOfT - 1

(* ++num_ on the unsigned type T wraps at the width of T ... *)
Incremented(n) == (n + 1) % (MaxOfT + 1)

(* Mutants of NextNum: reduced modulo the width; restarted at one. *)
NextOfWidth(n) == Incremented(n)
NextFromOne(n) == (n % MaxOfT) + 1

(* ... and the result is reduced modulo the maximum, not the width. *)
NextNum(n) == Incremented(n) % MaxOfT

GenInit == num_ = 0

(* Mutant of GetNum: T ret = num_++ advances the number a second time. *)
GetNumTwice == num_' = NextNum(NextNum(num_))

(* T GetNum(): the caller reads num_ (unprimed) in the same step. *)
GetNum == num_' = NextNum(num_)

GenSpec == GenInit /\ [][GetNum]_num_

-----------------------------------------------------------------------------

(* The maximum of T is never handed out: the cycle is one shorter than the *)
(* width of T because line 11 reduces modulo max() and not max() + 1.      *)
MaxIsSkipped == num_ \in Nums

(* The number falls back to 0 exactly after MaxOfT - 1 and grows by one    *)
(* everywhere else: no number is skipped or handed out twice in a cycle.   *)
RestartsAfterLast ==
  [][IF num_ = MaxOfT - 1 THEN num_' = 0 ELSE num_' = num_ + 1]_num_

=============================================================================
