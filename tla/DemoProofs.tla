----------------------------- MODULE DemoProofs -----------------------------
(***************************************************************************)
(* Type correctness and safety of the program of sample/main.cc: when the  *)
(* loops are safe from main, and what the process can die of.  The         *)
(* invariant follows each worker and main through GetLoop and says why.    *)
(***************************************************************************)
EXTENDS Demo, TLAPS

(* main is between the first and the last statement of Stop. *)
InStop == mpc \in {"get", "new", "init", "close", "join"}

(* Stop has been called for the worker w. *)
Stopping(w) ==
  \/ who = w /\ InStop
  \/ w = "receiver" /\ who = "sender" /\ (mpc = "stop" \/ InStop)
  \/ mpc = "over"

(* Where main is determines which threads exist, which have ended and who  *)
(* has been told to stop; only a program with a run time gets to a Stop.   *)
MainInv ==
  /\ mpc \notin {"start", "run", "dead"} => build.timed
  /\ hasty # {} => build.timed
  /\ mpc = "run" => who = "receiver"
  /\ \A w \in Workers :
       /\ w \notin build.enabled => t[w] = "none"
       /\ stop[w] => mpc \notin {"start", "run"} /\ w \in build.enabled
       /\ mpc # "dead" => (stop[w] <=> Stopping(w) /\ w \in build.enabled)
       /\ mpc = "start" /\ (who = "receiver" \/ w = "sender") => t[w] = "none"
  /\ (mpc = "stop" \/ InStop) /\ who = "sender" =>
       t["receiver"] \in {"none", "ended"}
  /\ InStop => who \in build.enabled

(* A caller initialises, or uses, no loop before the variable holds one.   *)
NotNull ==
  /\ \A w \in Workers : t[w] \in {"init", "put"} => ~Null(w)
  /\ mpc \in {"init", "close"} => ~Null(who)

(* The only loop of w is the one its own thread made, and the handle that  *)
(* was put there keeps it open as long as there is one.                    *)
OwnLoop(w) ==
  /\ static[w] = "thread"
  /\ \/ life[w]["thread"] = "open"
     \/ life[w]["thread"] = "closed" /\ (home[w] = "none" \/ (w = "receiver" /\ handles = "none"))

(* What is known of a loop as long as main has made none for the worker,   *)
(* by where the thread is.                                                 *)
Alone(w) ==
  /\ w \notin wiped /\ static[w] # "main"
  /\ home[w] # "none" => home[w] = "thread" /\ OwnLoop(w)
  /\ t[w] \in {"none", "new"} \/ (t[w] \in {"get", "check"} /\ home[w] = "none") =>
       static[w] = "null" /\ life[w]["thread"] = "none"
  /\ t[w] = "init" => static[w] = "thread" /\ life[w]["thread"] = "raw"
  /\ t[w] = "put" => OwnLoop(w)

(* A worker that was not stopped in haste: until its thread has put the    *)
(* handle in its loop main keeps out of GetLoop, and afterwards main finds *)
(* the variable filled.                                                    *)
InTime(w) ==
  /\ life[w]["main"] = "none"
  /\ stop[w] => home[w] # "none"
  /\ t[w] = "put" => life[w]["thread"] = "open"
  /\ who = w => mpc \notin {"new", "init"}

Settled(w) ==
  /\ home[w] # "none" => t[w] \notin {"none", "new", "init"} /\ ~Null(w)
  /\ t[w] = "round" => home[w] # "none"
  /\ t[w] \in {"teardown", "ended"} => stop[w]
  /\ w = "receiver" => /\ t[w] \in {"check", "teardown", "ended"} => home[w] # "none"
                       /\ t[w] \in {"get", "put"} => home[w] = "none"
  /\ w = "receiver" /\ handles # "server" => home[w] # "none"
  /\ who = w /\ mpc = "init" => life[w]["main"] # "none"
  /\ life[w]["main"] = "none" => Alone(w)
  /\ w \notin hasty => InTime(w)
  /\ w \in hasty => stop[w]

LoopInv == \A w \in Workers : Settled(w)

IInv == TypeOK /\ MainInv /\ NotNull /\ LoopInv /\ DeathHasCause

-----------------------------------------------------------------------------

LEMMA InitIInv == Init => IInv
  BY DEF Init, IInv, TypeOK, Workers, Callers, MainInv, InStop, Stopping, NotNull, LoopInv,
         Settled, Alone, InTime, OwnLoop, Null, DeathHasCause

(* Each step keeps each part; a part is inductive relative to those before. *)
LEMMA TypeNext == TypeOK /\ NotNull /\ [Next]_vars => TypeOK'
<1> SUFFICES ASSUME TypeOK, NotNull, [Next]_vars PROVE TypeOK'
  OBVIOUS
<1> USE DEF TypeOK, Workers, Callers
<1>1. CASE Start
  BY <1>1 DEF Start, Proceed, Enabled, loopVars
<1>2. CASE RunTime
  BY <1>2 DEF RunTime, loopVars
<1>3. CASE StopSet
  BY <1>3 DEF StopSet, loopVars
<1>4. CASE StopNone
  BY <1>4 DEF StopNone, Proceed, loopVars
<1>5. CASE MainGet
  BY <1>5 DEF MainGet, loopVars
<1>6. CASE MainNew
  BY <1>6 DEF MainNew, Make
<1>7. CASE MainInit
  BY <1>7 DEF MainInit, Prepare, NotNull, Null
<1>8. CASE CloseLoop
  BY <1>8 DEF CloseLoop, NotNull, Null
<1>9. CASE CloseFaults \/ Join
  BY <1>9 DEF CloseFaults, Join, Die, Proceed, loopVars
<1>10. CASE \E w \in Workers : Thread(w)
  <2> SUFFICES ASSUME NEW w \in Workers, Thread(w) PROVE TypeOK'
    BY <1>10
  <2>1. CASE ThreadGet(w)
    BY <2>1 DEF ThreadGet, Goto, mainVars, loopVars
  <2>2. CASE ThreadNew(w)
    BY <2>2 DEF ThreadNew, Make, Goto, mainVars
  <2>3. CASE ThreadInit(w)
    BY <2>3 DEF ThreadInit, Prepare, Goto, mainVars, NotNull, Null
  <2>4. CASE Put(w)
    BY <2>4 DEF Put, Goto, mainVars, NotNull, Null
  <2>5. ASSUME NEW pc \in {"get", "check", "round", "teardown", "ended"}, Goto(w, pc),
               UNCHANGED <<mainVars, stop, loopVars, hasty>>
        PROVE  TypeOK'
    BY <2>5 DEF Goto, mainVars, loopVars
  <2>7. CASE Check(w) \/ Round(w) \/ (w = "receiver" /\ Teardown)
    BY <2>5, <2>7 DEF Check, Round, Teardown
  <2>8. CASE w = "receiver" /\ (AcceptFails \/ LastGuestGoes)
    BY <2>8 DEF AcceptFails, LastGuestGoes, mainVars
  <2>6. CASE PutFaults(w) \/ TeardownDies(w)
    BY <2>6 DEF PutFaults, TeardownDies, Die, loopVars
  <2> QED
    BY <2>1, <2>2, <2>3, <2>4, <2>6, <2>7, <2>8 DEF Thread
<1>11. CASE UNCHANGED vars
  BY <1>11 DEF vars, mainVars, loopVars
<1> QED
  BY <1>1, <1>2, <1>3, <1>4, <1>5, <1>6, <1>7, <1>8, <1>9, <1>10, <1>11 DEF Next, Main, Over

LEMMA MainNext == TypeOK /\ MainInv /\ [Next]_vars => MainInv'
<1> SUFFICES ASSUME TypeOK, MainInv, [Next]_vars PROVE MainInv'
  OBVIOUS
<1> USE DEF Workers, Callers, TypeOK, MainInv, InStop, Stopping
<1>1. CASE Start
  BY <1>1 DEF Start, Proceed, Enabled, loopVars
<1>2. CASE RunTime
  BY <1>2 DEF RunTime, loopVars
<1>3. CASE StopSet
  BY <1>3 DEF StopSet, loopVars, Enabled
<1>4. CASE StopNone
  BY <1>4 DEF StopNone, Proceed, loopVars, Enabled
<1>5. CASE MainGet
  BY <1>5 DEF MainGet, loopVars, Null
<1>6. CASE MainNew
  BY <1>6 DEF MainNew, Make, Null
<1>7. CASE MainInit
  BY <1>7 DEF MainInit, Prepare, Null
<1>8. CASE CloseLoop
  BY <1>8 DEF CloseLoop, Busy, Linked, Loop, Null
<1>9. CASE CloseFaults
  BY <1>9 DEF CloseFaults, Die, Busy, Linked, Loop, loopVars
<1>10. CASE Join
  BY <1>10 DEF Join, Proceed, Joined, loopVars
<1>11. CASE \E w \in Workers : Thread(w)
  <2> SUFFICES ASSUME NEW w \in Workers, Thread(w) PROVE MainInv'
    BY <1>11
  <2>0. Alive
    BY DEF Thread
  <2>1. CASE ThreadGet(w)
    BY <2>0, <2>1 DEF Alive, ThreadGet, Goto, mainVars, loopVars, Null
  <2>2. CASE ThreadNew(w)
    BY <2>0, <2>2 DEF Alive, ThreadNew, Make, Goto, mainVars, Null
  <2>3. CASE ThreadInit(w)
    BY <2>0, <2>3 DEF Alive, ThreadInit, Prepare, Goto, mainVars, Null
  <2>4. CASE Put(w)
    BY <2>0, <2>4 DEF Alive, Put, Loop, Goto, mainVars, Null
  <2>5. CASE PutFaults(w)
    BY <2>0, <2>5 DEF Alive, PutFaults, Die, Loop, loopVars, Null
  <2>6. CASE Check(w)
    BY <2>0, <2>6 DEF Alive, Check, Goto, mainVars, loopVars
  <2>7. CASE Round(w)
    BY <2>0, <2>7 DEF Alive, Round, Goto, mainVars, loopVars
  <2>8. CASE w = "receiver" /\ Teardown
    BY <2>0, <2>8 DEF Alive, Teardown, Goto, Orphaned, mainVars, loopVars
  <2>10. CASE w = "receiver" /\ (AcceptFails \/ LastGuestGoes)
    BY <2>0, <2>10 DEF Alive, AcceptFails, LastGuestGoes, Running, Linked, Loop, mainVars
  <2>9. CASE TeardownDies(w)
    BY <2>0, <2>9 DEF Alive, TeardownDies, Die, Orphaned, loopVars
  <2> QED
    BY <2>1, <2>2, <2>3, <2>4, <2>5, <2>6, <2>7, <2>8, <2>9, <2>10 DEF Thread
<1>12. CASE UNCHANGED vars
  BY <1>12 DEF vars, mainVars, loopVars
<1> QED
  BY <1>1, <1>2, <1>3, <1>4, <1>5, <1>6, <1>7, <1>8, <1>9, <1>10, <1>11, <1>12 DEF Next, Main, Over

LEMMA NullNext == TypeOK /\ NotNull /\ [Next]_vars => NotNull'
<1> SUFFICES ASSUME TypeOK, NotNull, [Next]_vars PROVE NotNull'
  OBVIOUS
<1> USE DEF Workers, Callers, TypeOK, NotNull, Null
<1>1. CASE Start
  BY <1>1 DEF Start, Proceed, Enabled, loopVars
<1>2. CASE RunTime
  BY <1>2 DEF RunTime, loopVars
<1>3. CASE StopSet
  BY <1>3 DEF StopSet, loopVars, Enabled
<1>4. CASE StopNone
  BY <1>4 DEF StopNone, Proceed, loopVars, Enabled
<1>5. CASE MainGet
  BY <1>5 DEF MainGet, loopVars, Null
<1>6. CASE MainNew
  BY <1>6 DEF MainNew, Make, Null
<1>7. CASE MainInit
  BY <1>7 DEF MainInit, Prepare, Null
<1>8. CASE CloseLoop
  BY <1>8 DEF CloseLoop, Busy, Linked, Loop, Null
<1>9. CASE CloseFaults
  BY <1>9 DEF CloseFaults, Die, Busy, Linked, Loop, loopVars
<1>10. CASE Join
  BY <1>10 DEF Join, Proceed, Joined, loopVars
<1>11. CASE \E w \in Workers : Thread(w)
  <2> SUFFICES ASSUME NEW w \in Workers, Thread(w) PROVE NotNull'
    BY <1>11
  <2>0. Alive
    BY DEF Thread
  <2>1. CASE ThreadGet(w)
    BY <2>0, <2>1 DEF Alive, ThreadGet, Goto, mainVars, loopVars, Null
  <2>2. CASE ThreadNew(w)
    BY <2>0, <2>2 DEF Alive, ThreadNew, Make, Goto, mainVars, Null
  <2>3. CASE ThreadInit(w)
    BY <2>0, <2>3 DEF Alive, ThreadInit, Prepare, Goto, mainVars, Null
  <2>4. CASE Put(w)
    BY <2>0, <2>4 DEF Alive, Put, Loop, Goto, mainVars, Null
  <2>5. CASE PutFaults(w)
    BY <2>0, <2>5 DEF Alive, PutFaults, Die, Loop, loopVars, Null
  <2>6. CASE Check(w)
    BY <2>0, <2>6 DEF Alive, Check, Goto, mainVars, loopVars
  <2>7. CASE Round(w)
    BY <2>0, <2>7 DEF Alive, Round, Goto, mainVars, loopVars
  <2>8. CASE w = "receiver" /\ Teardown
    BY <2>0, <2>8 DEF Alive, Teardown, Goto, Orphaned, mainVars, loopVars
  <2>10. CASE w = "receiver" /\ (AcceptFails \/ LastGuestGoes)
    BY <2>0, <2>10 DEF Alive, AcceptFails, LastGuestGoes, Running, Linked, Loop, mainVars
  <2>9. CASE TeardownDies(w)
    BY <2>0, <2>9 DEF Alive, TeardownDies, Die, Orphaned, loopVars
  <2> QED
    BY <2>1, <2>2, <2>3, <2>4, <2>5, <2>6, <2>7, <2>8, <2>9, <2>10 DEF Thread
<1>12. CASE UNCHANGED vars
  BY <1>12 DEF vars, mainVars, loopVars
<1> QED
  BY <1>1, <1>2, <1>3, <1>4, <1>5, <1>6, <1>7, <1>8, <1>9, <1>10, <1>11, <1>12 DEF Next, Main, Over

(* What is known of w is not disturbed by steps that leave its part of the *)
(* state alone and do not take main into its GetLoop.                      *)
LEMMA SettledStays ==
  ASSUME NEW w \in Workers, Settled(w),
         UNCHANGED <<t[w], stop[w], static[w], life[w], home[w]>>,
         w \in wiped' <=> w \in wiped, w \in hasty' <=> w \in hasty,
         w = "receiver" => handles' = handles,
         who' = w /\ mpc' \in {"new", "init"} => who = w /\ mpc' = mpc
  PROVE  Settled(w)'
  BY DEF Settled, Alone, InTime, OwnLoop, Null

LEMMA LoopNext == TypeOK /\ MainInv /\ NotNull /\ LoopInv /\ [Next]_vars => LoopInv'
<1> SUFFICES ASSUME TypeOK, MainInv, NotNull, LoopInv, [Next]_vars, NEW w \in Workers
             PROVE  Settled(w)'
  BY DEF LoopInv
<1>0. Settled(w)
  BY DEF LoopInv
<1> USE DEF Workers, Callers
<1>1. CASE Start
  <2>1. CASE w = who /\ Enabled
    BY <1>0, <1>1, <2>1 DEF Start, Proceed, loopVars, TypeOK, MainInv,
         Settled, Alone, InTime, OwnLoop, Null
  <2>2. CASE ~(w = who /\ Enabled)
    <3>1. t'[w] = t[w]
      BY <1>1, <2>2 DEF Start, TypeOK
    <3> QED
      BY <1>0, <1>1, <3>1, SettledStays DEF Start, Proceed, loopVars
  <2> QED
    BY <2>1, <2>2
<1>2. CASE RunTime \/ StopNone \/ CloseFaults \/ Join
  BY <1>0, <1>2, SettledStays DEF RunTime, StopNone, CloseFaults, Join, Die, Proceed, loopVars
<1>3. CASE StopSet
  <2>1. CASE w = who
    BY <1>0, <1>3, <2>1 DEF StopSet, loopVars, TypeOK, Settled, Alone, InTime, OwnLoop, Null
  <2>2. CASE w # who
    BY <1>0, <1>3, <2>2, SettledStays DEF StopSet, loopVars, TypeOK
  <2> QED
    BY <2>1, <2>2
<1>4. CASE MainGet
  <2>1. CASE w = who /\ Null(w)
    <3>1. w \in hasty
      BY <1>4, <2>1, <1>0 DEF MainGet, MainInv, InStop, Stopping, Settled, InTime
    <3> QED
      BY <1>0, <1>4, <3>1 DEF MainGet, loopVars, Settled, Alone, InTime, OwnLoop, Null
  <2>2. CASE ~(w = who /\ Null(w))
    BY <1>0, <1>4, <2>2, SettledStays DEF MainGet, loopVars
  <2> QED
    BY <2>1, <2>2
<1>5. CASE MainNew
  <2>1. CASE w = who
    <3>1. /\ static'[w] = "main" /\ life'[w]["main"] = "raw"
          /\ UNCHANGED <<t, stop, home, wiped, handles, hasty, who>>
      BY <1>5, <2>1 DEF MainNew, Make, TypeOK
    <3>2. w \in hasty
      BY <1>0, <1>5, <2>1 DEF MainNew, Settled, InTime
    <3> QED
      BY <1>0, <3>1, <3>2 DEF Settled, Null
  <2>2. CASE w # who
    <3>1. static'[w] = static[w] /\ life'[w] = life[w]
      BY <1>5, <2>2 DEF MainNew, Make, TypeOK
    <3> QED
      BY <1>0, <1>5, <2>2, <3>1, SettledStays DEF MainNew, Make
  <2> QED
    BY <2>1, <2>2
<1>6. CASE MainInit
  <2>1. CASE w = who
    <3>1. life[w]["main"] # "none" /\ w \in hasty
      BY <1>0, <1>6, <2>1 DEF MainInit, Settled, InTime
    <3>2. /\ life'[w]["main"] # "none" /\ mpc' = "close"
          /\ UNCHANGED <<t, stop, static, home, handles, hasty, who>>
      BY <1>6, <2>1, <3>1 DEF MainInit, Prepare, TypeOK
    <3> QED
      BY <1>0, <3>1, <3>2 DEF Settled, Null
  <2>2. CASE w # who
    <3>1. life'[w] = life[w] /\ (w \in wiped' <=> w \in wiped)
      BY <1>6, <2>2 DEF MainInit, Prepare, TypeOK
    <3> QED
      BY <1>0, <1>6, <2>2, <3>1, SettledStays DEF MainInit, Prepare
  <2> QED
    BY <2>1, <2>2
<1>7. CASE CloseLoop
  <2>1. CASE w = who /\ ~Busy(w)
    <3>1. /\ life' = [life EXCEPT ![w][static[w]] = "closed"] /\ mpc' = "join"
          /\ UNCHANGED <<t, stop, static, home, wiped, handles, hasty, who>>
      BY <1>7, <2>1 DEF CloseLoop
    <3>2. life[w]["main"] # "none" => life'[w]["main"] # "none"
      BY <3>1 DEF TypeOK
    <3>3. CASE life[w]["main"] = "none"
      <4>1. Alone(w) /\ mpc = "close" /\ Loop(w) # "raw" /\ ~Null(w)
        BY <1>0, <1>7, <2>1, <3>3 DEF Settled, CloseLoop, NotNull
      <4>2. static[w] = "thread"
        BY <1>7, <2>1, <3>3, <4>1 DEF Alone, OwnLoop, Null, TypeOK
      <4>3. stop[w]
        BY <1>7, <2>1 DEF CloseLoop, MainInv, InStop, Stopping, TypeOK
      <4>4. home[w] # "none" => w = "receiver" /\ handles = "none"
        BY <2>1, <4>1, <4>2 DEF Alone, Busy, Linked
      <4>5. t[w] # "init"
        BY <4>1, <4>2 DEF Alone, Loop
      <4>6. w \notin hasty => t[w] # "put"
        BY <1>0, <4>3, <4>4 DEF Settled, InTime
      <4>7. /\ static'[w] = "thread" /\ life'[w]["main"] = "none"
            /\ life'[w]["thread"] = "closed"
        BY <3>1, <3>3, <4>2 DEF TypeOK
      <4> QED
        BY <1>0, <3>1, <4>1, <4>2, <4>4, <4>5, <4>6, <4>7 DEF Settled, Alone, InTime, OwnLoop, Null
    <3>4. CASE life[w]["main"] # "none"
      BY <1>0, <3>1, <3>2, <3>4 DEF Settled, InTime, Null
    <3> QED
      BY <3>3, <3>4
  <2>2. CASE ~(w = who /\ ~Busy(w))
    <3>1. life'[w] = life[w]
      BY <1>7, <2>2 DEF CloseLoop, TypeOK
    <3> QED
      BY <1>0, <1>7, <3>1, SettledStays DEF CloseLoop
  <2> QED
    BY <2>1, <2>2
<1>8. ASSUME NEW v \in Workers, Thread(v), v # w PROVE Settled(w)'
  <2>1. /\ UNCHANGED <<t[w], stop[w], static[w], life[w], home[w], hasty>>
        /\ w \in wiped' <=> w \in wiped
        /\ w = "receiver" => handles' = handles
        /\ who' = who /\ mpc' \in {mpc, "dead"}
    BY <1>8 DEF Thread, ThreadGet, ThreadNew, ThreadInit, Put, PutFaults, Check, Round, AcceptFails,
         LastGuestGoes, Running, Teardown, TeardownDies, Make, Prepare, Goto, Die,
         mainVars, loopVars, TypeOK
  <2> QED
    BY <1>0, <2>1, SettledStays
<1>9. CASE Thread(w)
  <2>0. Alive
    BY <1>9 DEF Thread
  <2>1. CASE ThreadGet(w)
    BY <1>0, <2>1 DEF ThreadGet, Goto, mainVars, loopVars, TypeOK,
         Settled, Alone, InTime, OwnLoop, Null
  <2>2. CASE ThreadNew(w)
    BY <1>0, <2>2 DEF ThreadNew, Make, Goto, mainVars, TypeOK,
         Settled, Alone, InTime, OwnLoop, Null
  <2>3. CASE ThreadInit(w)
    BY <1>0, <2>3 DEF ThreadInit, Prepare, Goto, mainVars, TypeOK, NotNull,
         Settled, Alone, InTime, OwnLoop, Null
  <2>4. CASE Put(w)
    BY <1>0, <2>4 DEF Put, Loop, Goto, mainVars, TypeOK, NotNull,
         Settled, Alone, InTime, OwnLoop, Null
  <2>5. CASE PutFaults(w) \/ TeardownDies(w)
    BY <1>0, <2>5, SettledStays DEF PutFaults, TeardownDies, Die, loopVars
  <2>6. CASE Check(w)
    BY <1>0, <2>6 DEF Check, Goto, mainVars, loopVars, TypeOK,
         Settled, Alone, InTime, OwnLoop, Null
  <2>7. CASE Round(w)
    BY <1>0, <2>7 DEF Round, Goto, mainVars, loopVars, TypeOK,
         Settled, Alone, InTime, OwnLoop, Null
  <2>8. CASE w = "receiver" /\ (AcceptFails \/ LastGuestGoes)
    BY <1>0, <2>8 DEF AcceptFails, LastGuestGoes, Running, Linked, Loop, mainVars,
         Settled, Alone, InTime, OwnLoop, Null
  <2>9. CASE w = "receiver" /\ Teardown
    BY <1>0, <2>9 DEF Teardown, Goto, mainVars, loopVars, TypeOK,
         Settled, Alone, InTime, OwnLoop, Null
  <2> QED
    BY <1>9, <2>1, <2>2, <2>3, <2>4, <2>5, <2>6, <2>7, <2>8, <2>9 DEF Thread
<1>10. CASE UNCHANGED vars
  BY <1>0, <1>10, SettledStays DEF vars, mainVars, loopVars
<1> QED
  BY <1>1, <1>2, <1>3, <1>4, <1>5, <1>6, <1>7, <1>8, <1>9, <1>10 DEF Next, Main, Over

(* Only three steps kill: the rest do not lead to "dead", and from there   *)
(* nothing moves.                                                          *)
LEMMA DeathNext ==
  TypeOK /\ MainInv /\ NotNull /\ LoopInv /\ DeathHasCause /\ [Next]_vars => DeathHasCause'
<1> SUFFICES ASSUME TypeOK, MainInv, NotNull, LoopInv, DeathHasCause, [Next]_vars, mpc' = "dead"
             PROVE  (build.timed /\ (LostRace \/ ClosedTwice \/ ClosedRequest))'
  BY DEF DeathHasCause
<1> USE DEF Workers, Callers
<1>1. CASE CloseFaults
  <2>2. build.timed /\ UNCHANGED <<build, who, t, stop, loopVars, hasty>>
    BY <1>1 DEF CloseFaults, Die, MainInv
  <2>3. Settled(who) /\ ~Null(who)
    BY <1>1 DEF LoopInv, TypeOK, CloseFaults, NotNull
  <2>4. LostRace \/ ClosedTwice
    <3>1. CASE life[who]["main"] # "none"
      BY <2>3, <3>1 DEF Settled, InTime, LostRace
    <3>2. CASE life[who]["main"] = "none" /\ home[who] = "none"
      <4>1. stop[who]
        BY <1>1 DEF CloseFaults, MainInv, InStop, Stopping, TypeOK
      <4> QED
        BY <2>3, <3>2, <4>1 DEF Settled, InTime, LostRace
    <3>3. CASE life[who]["main"] = "none" /\ home[who] # "none"
      <4>1. home[who] = static[who] /\ who \notin wiped /\ Loop(who) # "raw"
        BY <2>3, <3>3 DEF Settled, Alone, OwnLoop, Loop
      <4>2. ~Busy(who) /\ t[who] = "round"
        BY <1>1, <4>1 DEF CloseFaults
      <4>3. who = "receiver" /\ handles = "none"
        BY <4>1, <4>2 DEF Busy, Linked
      <4> QED
        BY <4>2, <4>3 DEF ClosedTwice
    <3> QED
      BY <3>1, <3>2, <3>3
  <2> QED
    BY <2>2, <2>4 DEF LostRace, ClosedTwice, loopVars
<1>2. ASSUME NEW w \in Workers, Alive, PutFaults(w) \/ TeardownDies(w)
      PROVE  (build.timed /\ (LostRace \/ ClosedTwice \/ ClosedRequest))'
  <2>1. UNCHANGED <<build, who, t, stop, loopVars, hasty>>
    BY <1>2 DEF PutFaults, TeardownDies, Die
  <2>2. Settled(w)
    BY DEF LoopInv
  <2>3. w \in hasty \/ t[w] = "teardown"
    BY <1>2, <2>2 DEF PutFaults, TeardownDies, Settled, InTime, Alone, OwnLoop, Loop
  <2>4. stop[w]
    BY <2>2, <2>3 DEF Settled
  <2>5. who = w /\ build.timed /\ (w = "sender" => t["receiver"] \in {"none", "ended"})
    BY <1>2, <2>4 DEF Alive, PutFaults, TeardownDies, MainInv, InStop, Stopping, TypeOK
  <2>6. LostRace \/ ClosedTwice \/ ClosedRequest
    <3>1. CASE PutFaults(w)
      BY <2>2, <2>3, <2>5, <3>1 DEF PutFaults, Settled, Alone, OwnLoop, Loop, LostRace, TypeOK
    <3>2. CASE w = "sender" /\ TeardownDies(w)
      BY <2>5, <3>2 DEF TeardownDies, ClosedRequest
    <3>3. CASE w = "receiver" /\ TeardownDies(w) /\ handles # "server"
      BY <2>5, <3>3 DEF TeardownDies, ClosedTwice
    <3>4. CASE w = "receiver" /\ TeardownDies(w) /\ handles = "server"
      <4>1. Orphaned(w)
        BY <3>4 DEF TeardownDies
      <4> QED
        BY <2>2, <2>5, <3>4, <4>1 DEF Orphaned, Settled, InTime, Alone, OwnLoop, LostRace
    <3> QED
      BY <1>2, <3>1, <3>2, <3>3, <3>4
  <2> QED
    BY <2>1, <2>5, <2>6 DEF LostRace, ClosedTwice, ClosedRequest, loopVars
<1>3. CASE UNCHANGED vars
  BY <1>3 DEF vars, mainVars, loopVars, DeathHasCause, LostRace, ClosedTwice, ClosedRequest
<1>4. \/ CloseFaults \/ UNCHANGED vars
      \/ \E w \in Workers : Alive /\ (PutFaults(w) \/ TeardownDies(w))
  BY DEF Next, Main, Thread, Over, Alive, Start, RunTime, StopSet, StopNone, MainGet, MainNew,
       MainInit, CloseLoop, Join, Proceed, ThreadGet, ThreadNew, ThreadInit, Put, Check, Round,
       AcceptFails, LastGuestGoes, Teardown, mainVars
<1> QED
  BY <1>1, <1>2, <1>3, <1>4

LEMMA Inductive == Spec => []IInv
<1>1. IInv /\ [Next]_vars => IInv'
  BY TypeNext, MainNext, NullNext, LoopNext, DeathNext DEF IInv
<1> QED
  BY <1>1, InitIInv, PTL DEF Spec

(* Every variable keeps its type. *)
THEOREM TypeCorrect == Spec => []TypeOK
  BY Inductive, PTL DEF IInv

(* Main makes a second loop only in a Stop before the worker has begun,    *)
(* and where it makes none the loop of the thread holds the handle and is  *)
(* not closed, unless an accept error had emptied it.                      *)
THEOREM LoopAlwaysSettled == Spec => []LoopIsSettled
<1>1. IInv => LoopIsSettled
  <2> SUFFICES ASSUME IInv, NEW w \in Workers
               PROVE  /\ life[w]["main"] # "none" => w \in hasty
                      /\ home[w] # "none" /\ life[w]["main"] = "none" =>
                           /\ home[w] = static[w] /\ w \notin wiped
                           /\ Loop(w) = "open" \/ (w = "receiver" /\ handles = "none")
    BY DEF LoopIsSettled
  <2>1. Settled(w)
    BY DEF IInv, LoopInv
  <2> QED
    BY <2>1 DEF Settled, Alone, InTime, OwnLoop, Loop
<1> QED
  BY <1>1, Inductive, PTL

(* The process dies of a Stop that came before its worker had begun, of    *)
(* closing the receiver's server for the second time, or of closing the    *)
(* sender's connect request, and of nothing else.                          *)
THEOREM DeathAlwaysHasCause == Spec => []DeathHasCause
  BY Inductive, PTL DEF IInv

(* Only a Stop kills: a program without a run time never dies, whatever    *)
(* its threads do in GetLoop.                                              *)
THEOREM OnlyStopKills == Spec => [](mpc = "dead" => build.timed)
<1>1. IInv => (mpc = "dead" => build.timed)
  BY DEF IInv, MainInv, DeathHasCause
<1> QED
  BY <1>1, Inductive, PTL

=============================================================================
