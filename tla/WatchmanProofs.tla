---------------------------- MODULE WatchmanProofs ----------------------------
(***************************************************************************)
(* Type correctness and the safety of the watchman, for every set of       *)
(* searches: it starts no second instance and raises no false alarm.       *)
(***************************************************************************)
EXTENDS Watchman, FiniteSetTheorems, TLAPS

Busy ==
  /\ pc \in {"try", "recheck", "alert"} => rest # <<>>
  /\ pc \in {"try", "recheck"} => x < 4

IInv == TypeOK /\ Busy /\ OneInstance /\ AlarmIsTrue

(* The script reads the head of rest only while there is one. *)
LEMMA HeadTail ==
  ASSUME NEW q \in Seq(Searches), q # <<>>
  PROVE  Head(q) \in Searches /\ Tail(q) \in Seq(Searches)
OBVIOUS

(* Of two shells at the head of the list the second one is skipped. *)
LEMMA SecondShellIsKept ==
  ASSUME NEW list, 2 \in DOMAIN list, list[1] = "sh", list[2] = "sh"
  PROVE  Kept(list) # {}
<1>1. ASSUME NEW k \in 0 .. 1
      PROVE  ~(/\ k = 0 \/ list[k] # "sh"
               /\ (2 - k) % 2 = 1)
  <2>1. k = 0 \/ k = 1
    BY <1>1
  <2>2. (2 - 0) % 2 = 0
    BY SMT
  <2> QED
    BY <2>1, <2>2
<1>2. ~Removed(list, 2)
  BY <1>1 DEF Removed
<1> QED
  BY <1>2 DEF Kept

(* What the loop that removes from the list it walks really does, for      *)
(* lines in any order: only an empty list and a single shell line come out *)
(* empty.  So the order in which pgrep lists the processes does not matter.*)
THEOREM OnlyLoneShellVanishes ==
  ASSUME NEW list \in Seq({"sh", "other"})
  PROVE  Kept(list) = {} <=> list = <<>> \/ list = <<"sh">>
<1>1. Len(list) \in Nat /\ DOMAIN list = 1 .. Len(list)
  OBVIOUS
<1>2. ASSUME NEW i \in DOMAIN list, list[i] # "sh" PROVE Kept(list) # {}
  <2>1. ASSUME Removed(list, i) PROVE FALSE
    <3>1. PICK k \in 0 .. i - 1 : \A j \in k + 1 .. i : list[j] = "sh"
      BY <2>1 DEF Removed
    <3>2. i \in k + 1 .. i
      BY <1>1
    <3> QED
      BY <1>2, <3>1, <3>2
  <2> QED
    BY <2>1 DEF Kept
<1>3. CASE list = <<>>
  BY <1>1, <1>3 DEF Kept
<1>4. CASE list = <<"sh">>
  <2>1. Removed(list, 1)
    <3>1. 0 \in 0 .. 1 - 1 /\ (1 - 0) % 2 = 1 /\ \A j \in 0 + 1 .. 1 : list[j] = "sh"
      BY <1>4
    <3> QED
      BY <3>1 DEF Removed
  <2>2. DOMAIN list = {1}
    BY <1>4
  <2> QED
    BY <1>4, <2>1, <2>2 DEF Kept
<1>5. CASE Len(list) = 1 /\ list # <<"sh">>
  <2>1. 1 \in DOMAIN list /\ list[1] # "sh"
    BY <1>1, <1>5
  <2> QED
    BY <1>2, <1>5, <2>1
<1>6. CASE Len(list) >= 2
  <2>1. 1 \in DOMAIN list /\ 2 \in DOMAIN list /\ list # <<>> /\ list # <<"sh">>
    BY <1>1, <1>6
  <2> QED
    BY <1>2, <2>1, SecondShellIsKept
<1> QED
  BY <1>1, <1>3, <1>4, <1>5, <1>6

(* watchman.py:140-146: a pattern counts as running when any line without  *)
(* a shell matches it, or any line with a shell beside that of pgrep.      *)
LEMMA RunningCounts ==
  ASSUME TypeOK, NEW s \in Searches
  PROVE  Running(s) <=> Others(s) > 0 \/ Shells(s) > 1
<1> DEFINE o == Others(s)
           n == Shells(s)
<1>1. o \in Nat /\ n \in Nat /\ n >= 1
  BY DEF Others, Shells, TypeOK
<1> HIDE DEF o, n
<1>2. Listing(s) = [i \in 1 .. o + n |-> IF i <= o THEN "other" ELSE "sh"]
  BY DEF Listing, o, n
<1>3. Listing(s) \in Seq({"sh", "other"}) /\ Len(Listing(s)) = o + n
  BY <1>1, <1>2
<1>4. Listing(s) # <<>>
  BY <1>1, <1>3
<1>5. Listing(s) = <<"sh">> <=> o = 0 /\ n = 1
  <2>1. CASE o = 0 /\ n = 1
    <3>1. Listing(s) = [i \in 1 .. 1 |-> "sh"]
      BY <1>2, <2>1
    <3> QED
      BY <2>1, <3>1
  <2>2. CASE o + n # 1
    BY <1>1, <1>3, <2>2
  <2> QED
    BY <1>1, <2>1, <2>2
<1>6. Running(s) <=> ~(o = 0 /\ n = 1)
  BY <1>3, <1>4, <1>5, OnlyLoneShellVanishes DEF Running
<1> QED
  BY <1>1, <1>6 DEF o, n

(* How far the watchman can be trusted.  With no foreign line about, it    *)
(* finds a process of a tracked search exactly while there is one; of the  *)
(* others (arguments, and a shell that makes way) it never finds one that  *)
(* is up; and a foreign line hides the end of any process.                 *)
THEOREM WhatIsFound ==
  ASSUME TypeOK, NEW s \in Searches
  PROVE  /\ noise[s] = "none" /\ s \in Tracked => (Running(s) <=> ~Gone(s))
         /\ noise[s] = "none" /\ s \notin Tracked => (Running(s) <=> young[s] > 0)
         /\ noise[s] # "none" => Running(s)
<1>1. young[s] \in Nat /\ up[s] \in Nat /\ noise[s] \in {"none", "sh", "other"}
  BY DEF TypeOK
<1>2. Running(s) <=> Others(s) > 0 \/ Shells(s) > 1
  BY RunningCounts
<1>3. CASE s \in Tracked /\ noise[s] = "none"
  BY <1>1, <1>2, <1>3, WatchmanAssumption DEF Tracked, Others, Shells, Gone
<1>4. CASE s \notin Tracked /\ noise[s] = "none"
  BY <1>1, <1>2, <1>4, WatchmanAssumption DEF Tracked, Others, Shells
<1>5. CASE noise[s] # "none"
  BY <1>1, <1>2, <1>5, WatchmanAssumption DEF Others, Shells
<1> QED
  BY <1>3, <1>4, <1>5

(* A process that lives or is coming up is found, foreign lines or not. *)
LEMMA NotGoneIsRunning ==
  ASSUME TypeOK, NEW s \in Tracked, ~Gone(s)
  PROVE  Running(s)
BY WhatIsFound, WatchmanAssumption DEF Tracked, TypeOK

LEMMA InitIInv == Init => IInv
<1> SUFFICES ASSUME Init PROVE IInv
  OBVIOUS
<1>1. TypeOK
  <2>1. young \in [Searches -> Nat] /\ up \in [Searches -> Nat]
    BY DEF Init
  <2> QED
    BY <2>1 DEF Init, TypeOK
<1>2. OneInstance
  <2>1. Tracked \subseteq Searches
    BY WatchmanAssumption DEF Tracked
  <2>2. \A s \in Searches : young[s] = 0 /\ up[s] \in {0, 1}
    BY DEF Init
  <2> QED
    BY <2>1, <2>2 DEF OneInstance
<1> QED
  BY <1>1, <1>2 DEF Init, IInv, Busy, AlarmIsTrue

(* The script only reads processes, but for Attempt. *)
LEMMA ScriptIInv == IInv /\ Script => IInv'
<1> SUFFICES ASSUME IInv, Script PROVE IInv'
  OBVIOUS
<1> USE DEF IInv
<1>0. Tracked \subseteq Searches /\ Tracked' = Tracked
  BY WatchmanAssumption DEF Tracked
<1>1. CASE LoadConfig
  <2>1. order' \in Seq(Searches)
    <3>1. Cardinality(Searches) \in Nat
      BY WatchmanAssumption, FS_CardinalityType
    <3>2. Orders \subseteq Seq(Searches)
      BY <3>1 DEF Orders
    <3> QED
      BY <1>1, <3>2 DEF LoadConfig, TypeOK
  <2> QED
    BY <1>1, <2>1 DEF LoadConfig, procs, TypeOK, Busy, OneInstance, AlarmIsTrue, Tracked
<1>2. CASE RunSearches
  BY <1>2 DEF RunSearches, procs, TypeOK, Busy, OneInstance, AlarmIsTrue, Tracked
<1>3. CASE RunSearch
  <2>1. Head(rest) \in Searches /\ Tail(rest) \in Seq(Searches)
    BY <1>3, HeadTail DEF RunSearch, TypeOK
  <2>2. CASE Running(Head(rest))
    BY <1>3, <2>1, <2>2 DEF RunSearch, procs, TypeOK, Busy, OneInstance, AlarmIsTrue, Tracked
  <2>3. CASE ~Running(Head(rest))
    <3>1. Head(rest) \in Tracked => Gone(Head(rest))
      BY <2>3, NotGoneIsRunning
    <3>2. AlarmIsTrue'
      BY <1>3, <2>3, <3>1 DEF RunSearch, procs, AlarmIsTrue, Gone, Tracked
    <3> QED
      BY <1>3, <2>1, <2>3, <3>2 DEF RunSearch, procs, TypeOK, Busy, OneInstance, Tracked
  <2> QED
    BY <2>2, <2>3
<1>4. CASE Sleep
  BY <1>4 DEF Sleep, procs, TypeOK, Busy, OneInstance, AlarmIsTrue, Tracked
<1>5. CASE Attempt
  <2> DEFINE h == Head(rest)
  <2>1. h \in Searches
    BY <1>5, HeadTail DEF Attempt, Busy, TypeOK
  <2>2. /\ young' = [young EXCEPT ![h] = @ + 1] /\ up' = up
        /\ rest' = rest /\ pc' = "recheck" /\ pc = "try"
    BY <1>5 DEF Attempt
  <2> HIDE DEF h
  <2>3. TypeOK'
    <3>1. young' \in [Searches -> Nat]
      BY <2>1, <2>2 DEF TypeOK
    <3> QED
      BY <1>5, <3>1 DEF Attempt, TypeOK
  <2>4. OneInstance'
    <3>1. h \in Tracked => young[h] = 0 /\ up[h] = 0
      BY <2>2 DEF AlarmIsTrue, Gone, h
    <3> SUFFICES ASSUME NEW s \in Tracked PROVE young'[s] + up'[s] <= 1
      BY <1>0 DEF OneInstance
    <3> QED
      BY <1>0, <2>1, <2>2, <3>1 DEF TypeOK, OneInstance
  <2> QED
    BY <1>5, <2>2, <2>3, <2>4 DEF Attempt, Busy, AlarmIsTrue
<1>6. CASE Recheck
  <2>1. Head(rest) \in Searches /\ Tail(rest) \in Seq(Searches)
    BY <1>6, HeadTail DEF Recheck, Busy, TypeOK
  <2>2. CASE Running(Head(rest))
    BY <1>6, <2>1, <2>2 DEF Recheck, procs, TypeOK, Busy, OneInstance, AlarmIsTrue, Tracked
  <2>3. CASE ~Running(Head(rest))
    <3>1. AlarmIsTrue'
      BY <1>6, <2>3, NotGoneIsRunning DEF Recheck, procs, AlarmIsTrue, Gone, Tracked
    <3>2. TypeOK'
      BY <1>6, <2>3 DEF Recheck, Exhausted, procs, TypeOK, Busy
    <3> QED
      BY <1>6, <2>3, <3>1, <3>2 DEF Recheck, Exhausted, procs, TypeOK, Busy, OneInstance, Tracked
  <2> QED
    BY <2>2, <2>3
<1>7. CASE Alert
  BY <1>7 DEF Alert, procs, TypeOK, Busy, OneInstance, AlarmIsTrue, Tracked
<1> QED
  BY <1>1, <1>2, <1>3, <1>4, <1>5, <1>6, <1>7 DEF Script

(* The number of processes grows by nothing but the script. *)
LEMMA WorldIInv == IInv /\ World => IInv'
<1> SUFFICES ASSUME IInv, NEW s \in Searches,
                    Appear(s) \/ FailToStart(s) \/ Exit(s) \/ Mention(s)
             PROVE  IInv'
  BY DEF World
<1> USE DEF IInv
<1>0. Tracked \subseteq Searches /\ Tracked' = Tracked
  BY WatchmanAssumption DEF Tracked
<1>1. pc' = pc /\ rest' = rest /\ conf' = conf /\ order' = order /\ x' = x
  BY DEF Appear, FailToStart, Exit, Mention, script
<1>2. /\ young' \in [Searches -> Nat] /\ up' \in [Searches -> Nat]
      /\ noise' \in [Searches -> {"none", "sh", "other"}]
      /\ \A t \in Searches : /\ young'[t] + up'[t] <= young[t] + up[t]
                             /\ Gone(t) => young'[t] = 0 /\ up'[t] = 0
  <2>1. CASE Appear(s)
    BY <2>1 DEF Appear, TypeOK, Gone
  <2>2. CASE FailToStart(s)
    BY <2>2 DEF FailToStart, TypeOK, Gone
  <2>3. CASE Exit(s)
    BY <2>3 DEF Exit, TypeOK, Gone
  <2>4. CASE Mention(s)
    <3>1. PICK kind \in {"none", "sh", "other"} : noise' = [noise EXCEPT ![s] = kind]
      BY <2>4 DEF Mention
    <3>2. noise' \in [Searches -> {"none", "sh", "other"}]
      BY <3>1 DEF TypeOK
    <3> QED
      BY <2>4, <3>2 DEF Mention, TypeOK, Gone
  <2> QED
    BY <2>1, <2>2, <2>3, <2>4
<1>3. TypeOK'
  BY <1>1, <1>2 DEF TypeOK
<1>4. OneInstance'
  BY <1>0, <1>2 DEF OneInstance, TypeOK
<1>5. AlarmIsTrue'
  BY <1>0, <1>1, <1>2 DEF AlarmIsTrue, Gone
<1> QED
  BY <1>1, <1>3, <1>4, <1>5 DEF Busy

LEMMA Inductive == Spec => []IInv
<1>1. IInv /\ UNCHANGED vars => IInv'
  BY DEF vars, script, procs, IInv, TypeOK, Busy, OneInstance, AlarmIsTrue, Tracked, Gone
<1> QED
  BY <1>1, InitIInv, ScriptIInv, WorldIInv, PTL DEF Spec, Next

(* Every variable keeps its type: the attempts never exceed three. *)
THEOREM TypeCorrect == Spec => []TypeOK
BY Inductive, PTL DEF IInv

(* However long a process takes to come up, whenever it goes, and whatever *)
(* else mentions its name, no second one is started beside it.             *)
THEOREM NeverTwice == Spec => []OneInstance
BY Inductive, PTL DEF IInv

(* Attempts and alerts are made only for a process that is gone. *)
THEOREM NoFalseAlarm == Spec => []AlarmIsTrue
BY Inductive, PTL DEF IInv

=============================================================================
