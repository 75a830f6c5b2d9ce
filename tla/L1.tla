--------------------------------- MODULE L1 ---------------------------------
(***************************************************************************)
(* L1Request of src/src/l1.h: the flags that its setters and getters keep  *)
(* in the sixteen bits of dbw2 through std::bitset<16>.                    *)
(***************************************************************************)
EXTENDS Naturals

DWORD == 0 .. 2^16 - 1     \* unsigned short

RequestType == {"HEARTBEAT", "HEARTBEAT_AND_SIGNAL"}
SignalType  == {"NOTREADY", "INPLACE"}

(* v.test(0) and v.test(1) *)
Test0(v) == v % 2 = 1
Test1(v) == (v \div 2) % 2 = 1

GetRequestType(dbw2) == IF Test0(dbw2) THEN "HEARTBEAT_AND_SIGNAL" ELSE "HEARTBEAT"
GetSignalType(dbw2)  == IF Test1(dbw2) THEN "INPLACE" ELSE "NOTREADY"

(* reset(0) or set(0); reset(1) or set(1) *)
SetRequestType(dbw2, t) ==
  (dbw2 - (dbw2 % 2)) + (IF t = "HEARTBEAT" THEN 0 ELSE 1)
SetSignalType(dbw2, t) ==
  (dbw2 - 2 * ((dbw2 \div 2) % 2)) + (IF t = "NOTREADY" THEN 0 ELSE 2)

(* What on_read looks for: a signal, and the coil in place. *)
InPlaceSignal(dbw2) ==
  GetRequestType(dbw2) = "HEARTBEAT_AND_SIGNAL" /\ GetSignalType(dbw2) = "INPLACE"

=============================================================================
