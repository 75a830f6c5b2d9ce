------------------------ MODULE ReceiveWorkerProofs ------------------------
(***************************************************************************)
(* What TLAPS proves about ReceiveWorker for every set of connections and  *)
(* every number of requests.                                               *)
(***************************************************************************)
EXTENDS ReceiveWorker, TLAPS

-----------------------------------------------------------------------------
(* The flags of L1Request, for all 65536 values of dbw2 and not only the   *)
(* one request of test/test_l1.cc.                                         *)

(* A setter's flag reads back, and the other flag and the rest of the word *)
(* stay; so the order in which a controller sets the two does not matter,  *)
(* and on_read's condition is that both lowest bits are set.               *)
THEOREM SetterLaws ==
  ASSUME NEW d \in DWORD, NEW t \in RequestType, NEW s \in SignalType
  PROVE  /\ SetRequestType(d, t) \in DWORD /\ SetSignalType(d, s) \in DWORD
         /\ GetRequestType(SetRequestType(d, t)) = t
         /\ GetSignalType(SetRequestType(d, t)) = GetSignalType(d)
         /\ GetSignalType(SetSignalType(d, s)) = s
         /\ GetRequestType(SetSignalType(d, s)) = GetRequestType(d)
         /\ SetRequestType(d, t) \div 4 = d \div 4
         /\ SetSignalType(d, s) \div 4 = d \div 4
         /\ SetSignalType(SetRequestType(d, t), s) = SetRequestType(SetSignalType(d, s), t)
         /\ InPlaceSignal(d) <=> d % 4 = 3
  BY DEF DWORD, RequestType, SignalType, SetRequestType, SetSignalType,
         GetRequestType, GetSignalType, InPlaceSignal, Test0, Test1

-----------------------------------------------------------------------------
(* Strengthening: who may be where.  Between the rounds nothing is left to *)
(* handle; before the first Listen there is no server, and before a later  *)
(* one the last is closing; Stop returns only after the thread's end.      *)
PollWork ==
  /\ pc # "poll" => todo = {} /\ ~accepting
  /\ \A c \in todo : conn[c] = "open"
  /\ accepting => server = "listening"
Threads ==
  /\ server = "none" => pc \in {"none", "setup", "dead"} /\ \A c \in Clients : conn[c] = "none"
  /\ pc = "none" => server = "none"
  /\ pc = "setup" => server \in {"none", "closing"}
  /\ pc = "ended" => server = "closing"
  /\ mpc = "init" => pc = "none"
  /\ mpc = "stopped" => pc = "ended"
  /\ mpc = "dead" => pc = "dead"

LifeInv ==
  /\ todo \subseteq Clients /\ accepting \in BOOLEAN /\ DOMAIN conn = Clients
  /\ server \in {"none", "listening", "mute", "closing", "freed"}
  /\ PollWork /\ Threads
  /\ LoopOutlivesHandles /\ FatalOnlyWithoutServer

Reading == \E c \in Clients : Read(c) \/ ReadEnd(c)

(* Queues of words stay queues of words. *)
LEMMA InboxTypes ==
  ASSUME NEW q \in Seq(Word \cup {End})
  PROVE  /\ \A n \in 0 .. Len(q) : SubSeq(q, n + 1, Len(q)) \in Seq(Word \cup {End})
         /\ \A num \in DWORD, bits \in DWORD : q \o Request(num, bits) \in Seq(Word \cup {End})
         /\ Append(q, End) \in Seq(Word \cup {End})
<1>1. ASSUME NEW n \in 0 .. Len(q) PROVE SubSeq(q, n + 1, Len(q)) \in Seq(Word \cup {End})
  OBVIOUS
<1>2. ASSUME NEW num \in DWORD, NEW bits \in DWORD
      PROVE  q \o Request(num, bits) \in Seq(Word \cup {End})
  <2>0. 0 \in DWORD
    BY SMT DEF DWORD
  <2>1. Request(num, bits) \in Seq(Word)
    <3>1. \A at \in 0 .. 3, v \in DWORD : [at |-> at, value |-> v] \in Word
      BY DEF Word
    <3>2. /\ [at |-> 0, value |-> num] \in Word
          /\ [at |-> 1, value |-> bits] \in Word
          /\ [at |-> 2, value |-> 0] \in Word
          /\ [at |-> 3, value |-> 0] \in Word
      BY <2>0, <3>1
    <3> QED
      BY <3>2 DEF Request
  <2>2. Request(num, bits) \in Seq(Word \cup {End})
    BY <2>1
  <2> QED
    BY <2>2
<1> QED
  BY <1>1, <1>2

LEMMA TypeInit == Init => TypeOK
<1> SUFFICES ASSUME Init PROVE TypeOK
  OBVIOUS
<1>1. inbox \in [Clients -> Seq(Word \cup {End})]
  BY DEF Init
<1>2. sent \in [Clients -> 0 .. MaxSent]
  BY ReceiveWorkerAssumption DEF Init
<1>3. starts \in 0 .. MaxStarts
  BY ReceiveWorkerAssumption DEF Init
<1> QED
  BY <1>1, <1>2, <1>3 DEF Init, TypeOK

LEMMA TypeNext == TypeOK /\ [Next]_vars => TypeOK'
<1> SUFFICES ASSUME TypeOK, [Next]_vars PROVE TypeOK'
  OBVIOUS
<1> USE DEF threadVars, connVars, pollVars, ghosts
<1>1. CASE Start
  <2>1. starts' \in 0 .. MaxStarts
    BY <1>1, ReceiveWorkerAssumption DEF Start, TypeOK
  <2> QED
    BY <1>1, <2>1 DEF Start, TypeOK
<1>2. CASE StopSet
  BY <1>2 DEF StopSet, TypeOK
<1>3. CASE StopCloseLoop
  BY <1>3 DEF StopCloseLoop, LoopLeft, LoopBusy, TypeOK
<1>4. CASE StopJoin
  BY <1>4 DEF StopJoin, ThreadEnded, TypeOK
<1>5. CASE Listen
  BY <1>5 DEF Listen, TypeOK
<1>6. CASE UseClosedLoop
  BY <1>6 DEF UseClosedLoop, Die, TypeOK
<1>7. CASE Check
  BY <1>7 DEF Check, Stopped, Readable, Acceptable, TypeOK
<1>8. CASE Accept
  BY <1>8 DEF Accept, TypeOK
<1>9. CASE AcceptFails
  BY <1>9 DEF AcceptFails, TypeOK
<1>10. CASE Reading
  <2>1. PICK c \in Clients : Read(c) \/ ReadEnd(c)
    BY <1>10 DEF Reading
  <2>2. CASE ReadEnd(c)
    BY <2>2 DEF ReadEnd, Turn, TypeOK
  <2>3. CASE Read(c)
    <3>1. PICK n \in 0 .. Len(inbox[c]) : OnRead(c, n) /\ Continues(c, n)
      BY <2>3 DEF Read
    <3>2. SubSeq(inbox[c], n + 1, Len(inbox[c])) \in Seq(Word \cup {End})
      BY <3>1, InboxTypes DEF TypeOK
    <3>3. inbox' \in [Clients -> Seq(Word \cup {End})]
      BY <3>1, <3>2 DEF OnRead, TypeOK
    <3>4. rung' \in BOOLEAN /\ torn' \subseteq Clients
      BY <3>1 DEF OnRead, TypeOK
    <3>5. todo' \subseteq Clients /\ again' \subseteq Clients
      BY <2>3, <3>1 DEF Read, Turn, Continues, TypeOK
    <3> QED
      BY <2>3, <3>3, <3>4, <3>5 DEF Read, TypeOK
  <2> QED
    BY <2>1, <2>2, <2>3
<1>11. CASE CloseAndSleep
  BY <1>11 DEF CloseAndSleep, TypeOK
<1>12. CASE Teardown
  BY <1>12 DEF Teardown, TypeOK
<1>13. CASE TeardownTwice
  BY <1>13 DEF TeardownTwice, Die, TypeOK
<1>14. CASE Controllers
  <2>1. PICK c \in Clients : Connect(c) \/ Send(c) \/ HangUp(c)
    BY <1>14 DEF Controllers
  <2>2. CASE Connect(c)
    BY <2>2 DEF Connect, TypeOK
  <2>3. CASE Send(c)
    <3>1. PICK num \in Numbers, bits \in Flags :
             inbox' = [inbox EXCEPT ![c] = @ \o Request(num, bits)]
      BY <2>3 DEF Send
    <3>2. inbox[c] \o Request(num, bits) \in Seq(Word \cup {End})
      BY <3>1, InboxTypes, ReceiveWorkerAssumption DEF TypeOK
    <3>3. inbox' \in [Clients -> Seq(Word \cup {End})]
      BY <3>1, <3>2 DEF TypeOK
    <3>4. sent' \in [Clients -> 0 .. MaxSent]
      BY <2>3, ReceiveWorkerAssumption DEF Send, TypeOK
    <3> QED
      BY <2>3, <3>3, <3>4 DEF Send, TypeOK
  <2>4. CASE HangUp(c)
    <3>1. PICK kept \in {inbox[c], <<>>} : inbox' = [inbox EXCEPT ![c] = Append(kept, End)]
      BY <2>4 DEF HangUp
    <3>2. kept \in Seq(Word \cup {End})
      <4>1. inbox[c] \in Seq(Word \cup {End}) /\ <<>> \in Seq(Word \cup {End})
        BY DEF TypeOK
      <4> QED
        BY <3>1, <4>1
    <3>3. Append(kept, End) \in Seq(Word \cup {End})
      BY <3>2, InboxTypes
    <3>4. inbox' \in [Clients -> Seq(Word \cup {End})]
      BY <3>1, <3>3 DEF TypeOK
    <3> QED
      BY <2>4, <3>4 DEF HangUp, TypeOK
  <2> QED
    BY <2>1, <2>2, <2>3, <2>4
<1>15. CASE UNCHANGED vars
  BY <1>15 DEF vars, TypeOK
<1> QED
  BY <1>1, <1>2, <1>3, <1>4, <1>5, <1>6, <1>7, <1>8, <1>9, <1>10, <1>11, <1>12, <1>13, <1>14, <1>15 DEF Next, Main, Worker, Reading, Over

(* Every variable keeps its type. *)
THEOREM TypeCorrect == Spec => []TypeOK
  BY TypeInit, TypeNext, PTL DEF Spec

LEMMA LifeInvInit == Init => LifeInv
  BY DEF Init, LifeInv, PollWork, Threads, LoopOutlivesHandles, FatalOnlyWithoutServer

LEMMA LifeInvNext == LifeInv /\ [Next]_vars => LifeInv'
<1> SUFFICES ASSUME LifeInv, [Next]_vars PROVE LifeInv'
  OBVIOUS
<1> USE DEF threadVars, connVars, pollVars, ghosts
<1>0. /\ todo \subseteq Clients /\ accepting \in BOOLEAN /\ DOMAIN conn = Clients
      /\ server \in {"none", "listening", "mute", "closing", "freed"}
      /\ PollWork /\ Threads
      /\ LoopOutlivesHandles /\ FatalOnlyWithoutServer
  BY DEF LifeInv
<1>1. CASE Start
  BY <1>0, <1>1 DEF Start, LifeInv, PollWork, Threads,
       LoopOutlivesHandles, FatalOnlyWithoutServer
<1>2. CASE StopSet
  BY <1>0, <1>2 DEF StopSet, LifeInv, PollWork, Threads,
       LoopOutlivesHandles, FatalOnlyWithoutServer
<1>3. CASE StopCloseLoop
  BY <1>0, <1>3 DEF StopCloseLoop, LoopLeft, LoopBusy, LifeInv, PollWork, Threads,
       LoopOutlivesHandles, FatalOnlyWithoutServer
<1>4. CASE StopJoin
  BY <1>0, <1>4 DEF StopJoin, ThreadEnded, LifeInv, PollWork, Threads,
       LoopOutlivesHandles, FatalOnlyWithoutServer
<1>5. CASE Listen
  BY <1>0, <1>5 DEF Listen, LifeInv, PollWork, Threads,
       LoopOutlivesHandles, FatalOnlyWithoutServer
<1>6. CASE UseClosedLoop
  BY <1>0, <1>6 DEF UseClosedLoop, Die, LifeInv, PollWork, Threads,
       LoopOutlivesHandles, FatalOnlyWithoutServer
<1>7. CASE Check
  BY <1>0, <1>7 DEF Check, Stopped, Readable, Acceptable, LifeInv, PollWork, Threads,
       LoopOutlivesHandles, FatalOnlyWithoutServer
<1>8. CASE Accept
  BY <1>0, <1>8 DEF Accept, Backlog, LifeInv, PollWork, Threads,
       LoopOutlivesHandles, FatalOnlyWithoutServer
<1>9. CASE AcceptFails
  BY <1>0, <1>9 DEF AcceptFails, Backlog, LifeInv, PollWork, Threads,
       LoopOutlivesHandles, FatalOnlyWithoutServer
<1>10. CASE Reading
  <2>1. /\ pc = "poll" /\ todo' \subseteq todo /\ UNCHANGED <<threadVars, server, old, accepting>>
        /\ \/ UNCHANGED conn
           \/ \E c \in todo : conn' = [conn EXCEPT ![c] = "closing"] /\ c \notin todo'
    BY <1>10 DEF Reading, Read, Continues, ReadEnd, Turn
  <2> QED
    BY <1>0, <2>1 DEF LifeInv, PollWork, Threads, LoopOutlivesHandles, FatalOnlyWithoutServer
<1>11. CASE CloseAndSleep
  BY <1>0, <1>11 DEF CloseAndSleep, LifeInv, PollWork, Threads,
       LoopOutlivesHandles, FatalOnlyWithoutServer
<1>12. CASE Teardown
  BY <1>0, <1>12 DEF Teardown, Backlog, LifeInv, PollWork, Threads,
       LoopOutlivesHandles, FatalOnlyWithoutServer
<1>13. CASE TeardownTwice
  BY <1>0, <1>13 DEF TeardownTwice, Die, LifeInv, PollWork, Threads,
       LoopOutlivesHandles, FatalOnlyWithoutServer
<1>14. CASE Controllers
  BY <1>0, <1>14 DEF Controllers, Connect, Send, HangUp, Alive, LifeInv, PollWork, Threads,
       LoopOutlivesHandles, FatalOnlyWithoutServer
<1>15. CASE UNCHANGED vars
  BY <1>15 DEF vars, LifeInv, PollWork, Threads, LoopOutlivesHandles, FatalOnlyWithoutServer
<1> QED
  BY <1>1, <1>2, <1>3, <1>4, <1>5, <1>6, <1>7, <1>8, <1>9, <1>10, <1>11, <1>12, <1>13, <1>14, <1>15 DEF Next, Main, Worker, Reading, Over

LEMMA LifeInvariant == Spec => []LifeInv
  BY LifeInvInit, LifeInvNext, PTL DEF Spec

(* No interleaving of Stop with the loop frees the loop under a handle.    *)
THEOREM LoopAlwaysOutlivesHandles == Spec => []LoopOutlivesHandles
<1>1. LifeInv => LoopOutlivesHandles
  BY DEF LifeInv
<1> QED
  BY <1>1, LifeInvariant, PTL

(* The process dies in Stop only if the server was never made or was lost. *)
THEOREM FatalAlwaysWithoutServer == Spec => []FatalOnlyWithoutServer
<1>1. LifeInv => FatalOnlyWithoutServer
  BY DEF LifeInv
<1> QED
  BY <1>1, LifeInvariant, PTL

(* Once Stop has returned the callback is not called any more. *)
THEOREM AlwaysQuietAfterStop == Spec => QuietAfterStop
<1>1. LifeInv /\ [Next]_vars => [mpc = "stopped" => rung' = rung]_vars
  <2> SUFFICES ASSUME LifeInv, Next, mpc = "stopped" PROVE rung' = rung
    OBVIOUS
  <2>1. pc = "ended"
    BY DEF LifeInv, Threads
  <2> QED
    BY <2>1 DEF Next, Main, Worker, Controllers, Over, Start, StopSet, StopCloseLoop,
         StopJoin, Listen, UseClosedLoop, Check, Accept, AcceptFails, Read, ReadEnd, Turn,
         CloseAndSleep, Teardown, TeardownTwice, Connect, Send, HangUp,
         vars, threadVars, connVars, pollVars, ghosts
<1> QED
  BY <1>1, LifeInvariant, PTL DEF Spec, QuietAfterStop

-----------------------------------------------------------------------------
(* Hanging up.  An end is the last thing on a connection. *)
EndIsLast ==
  \A c \in Clients : \A i \in 1 .. Len(inbox[c]) - 1 : inbox[c][i] # End

LEMMA EndStaysLast == TypeOK /\ EndIsLast /\ [Next]_vars => EndIsLast'
<1> SUFFICES ASSUME TypeOK, EndIsLast, [Next]_vars PROVE EndIsLast'
  OBVIOUS
<1> USE DEF threadVars, connVars, pollVars, ghosts
<1>0. DOMAIN inbox = Clients /\ \A c \in Clients : inbox[c] \in Seq(Word \cup {End})
  BY DEF TypeOK
<1>1. CASE UNCHANGED inbox
  BY <1>1 DEF EndIsLast
<1>2. ASSUME NEW c \in Clients, NEW q \in Seq(Word \cup {End}),
             inbox' = [inbox EXCEPT ![c] = q], \A i \in 1 .. Len(q) - 1 : q[i] # End
      PROVE  EndIsLast'
  BY <1>0, <1>2 DEF EndIsLast
<1>3. ASSUME NEW c \in Clients, Read(c) PROVE EndIsLast'
  <2>1. PICK n \in 0 .. Len(inbox[c]) :
           inbox' = [inbox EXCEPT ![c] = SubSeq(inbox[c], n + 1, Len(inbox[c]))]
    BY <1>3 DEF Read, OnRead
  <2> DEFINE q == SubSeq(inbox[c], n + 1, Len(inbox[c]))
  <2>2. q \in Seq(Word \cup {End}) /\ Len(inbox[c]) \in Nat
    BY <1>0, InboxTypes
  <2>3. Len(q) = Len(inbox[c]) - n /\ \A i \in 1 .. Len(q) : q[i] = inbox[c][i + n]
    BY <1>0, <2>2
  <2> HIDE DEF q
  <2>4. \A i \in 1 .. Len(q) - 1 : q[i] # End
    <3> SUFFICES ASSUME NEW i \in 1 .. Len(q) - 1 PROVE q[i] # End
      OBVIOUS
    <3>1. i + n \in 1 .. Len(inbox[c]) - 1 /\ q[i] = inbox[c][i + n]
      BY <2>2, <2>3
    <3> QED
      BY <3>1 DEF EndIsLast
  <2> QED
    BY <1>2, <2>1, <2>2, <2>4 DEF q
<1>4. ASSUME NEW c \in Clients, Send(c) PROVE EndIsLast'
  <2>1. PICK num \in DWORD, bits \in DWORD :
           inbox' = [inbox EXCEPT ![c] = inbox[c] \o Request(num, bits)]
    BY <1>4, ReceiveWorkerAssumption DEF Send
  <2> DEFINE r == Request(num, bits)
             q == inbox[c] \o r
  <2>2. q \in Seq(Word \cup {End}) /\ Len(inbox[c]) \in Nat
    BY <1>0, InboxTypes
  <2>3. Len(r) = 4 /\ \A i \in 1 .. 4 : r[i] # End
    BY DEF Request, End
  <2>4. /\ Len(q) = Len(inbox[c]) + 4
        /\ \A i \in 1 .. Len(inbox[c]) : q[i] = inbox[c][i]
        /\ \A i \in 1 .. 4 : q[Len(inbox[c]) + i] = r[i]
    BY <1>0, <2>3 DEF Request
  <2>5. ~Ended(c)
    BY <1>4 DEF Send
  <2> HIDE DEF q, r
  <2>6. \A i \in 1 .. Len(inbox[c]) : inbox[c][i] # End
    <3> SUFFICES ASSUME NEW i \in 1 .. Len(inbox[c]), inbox[c][i] = End PROVE FALSE
      OBVIOUS
    <3>1. i = Len(inbox[c])
      BY <2>2 DEF EndIsLast
    <3>2. inbox[c] # <<>>
      BY <1>0, <2>2
    <3> QED
      BY <2>5, <3>1, <3>2 DEF Ended
  <2>7. ASSUME NEW i \in 1 .. Len(q) PROVE q[i] # End
    <3>1. CASE i <= Len(inbox[c])
      BY <2>2, <2>4, <2>6, <3>1
    <3>2. CASE i > Len(inbox[c])
      <4>0. \A m \in Nat, k \in Nat : k >= 1 /\ k <= m + 4 /\ k > m =>
               k - m \in 1 .. 4 /\ m + (k - m) = k
        BY SMT
      <4>1. i - Len(inbox[c]) \in 1 .. 4 /\ Len(inbox[c]) + (i - Len(inbox[c])) = i
        <5>1. i \in Nat /\ i >= 1 /\ i <= Len(inbox[c]) + 4
          BY <2>2, <2>4
        <5> QED
          BY <2>2, <3>2, <4>0, <5>1
      <4> QED
        BY <2>3, <2>4, <4>1
    <3> QED
      BY <2>2, <3>1, <3>2
  <2>8. \A i \in 1 .. Len(q) - 1 : q[i] # End
    BY <2>2, <2>4, <2>7
  <2> QED
    BY <1>2, <2>1, <2>2, <2>8 DEF q, r
<1>5. ASSUME NEW c \in Clients, HangUp(c) PROVE EndIsLast'
  <2>1. PICK kept \in {inbox[c], <<>>} : inbox' = [inbox EXCEPT ![c] = Append(kept, End)]
    BY <1>5 DEF HangUp
  <2>2. kept \in Seq(Word \cup {End}) /\ Len(kept) \in Nat
    <3>1. inbox[c] \in Seq(Word \cup {End}) /\ <<>> \in Seq(Word \cup {End})
      BY <1>0
    <3>2. kept \in Seq(Word \cup {End})
      BY <2>1, <3>1
    <3> QED
      BY <3>2
  <2>3. ~Ended(c)
    BY <1>5 DEF HangUp
  <2>4. \A i \in 1 .. Len(kept) : kept[i] # End
    <3> SUFFICES ASSUME NEW i \in 1 .. Len(kept), kept[i] = End PROVE FALSE
      OBVIOUS
    <3>1. kept = inbox[c] /\ inbox[c] # <<>>
      BY <2>1, <2>2
    <3>2. i = Len(inbox[c])
      BY <2>2, <3>1 DEF EndIsLast
    <3> QED
      BY <2>3, <3>1, <3>2 DEF Ended
  <2>5. Append(kept, End) \in Seq(Word \cup {End})
    BY <2>2, InboxTypes
  <2>6. \A i \in 1 .. Len(Append(kept, End)) - 1 : Append(kept, End)[i] # End
    BY <2>2, <2>4
  <2> QED
    BY <1>2, <2>1, <2>5, <2>6
<1>6. UNCHANGED inbox \/ \E c \in Clients : Read(c) \/ Send(c) \/ HangUp(c)
  BY DEF Next, Main, Worker, Controllers, Over, Start, StopSet, StopCloseLoop, StopJoin,
       Listen, UseClosedLoop, Check, Accept, AcceptFails, ReadEnd, CloseAndSleep,
       Teardown, TeardownTwice, Connect, vars
<1> QED
  BY <1>1, <1>3, <1>4, <1>5, <1>6

LEMMA EndIsAlwaysLast == Spec => [](TypeOK /\ EndIsLast)
<1>1. Init => EndIsLast
  BY DEF Init, EndIsLast
<1> QED
  BY <1>1, EndStaysLast, TypeCorrect, PTL DEF Spec

(* The worker closes an accepted connection only after the last word that  *)
(* the controller sent on it, for every stream and every way to cut it.    *)
THEOREM AlwaysClosedAfterLastWord == Spec => ClosedAfterLastWord
<1>1. TypeOK /\ EndIsLast /\ [Next]_vars =>
        [\A c \in Clients :
           conn[c] = "open" /\ conn'[c] # "open" => inbox[c] = <<End>>]_vars
  <2> SUFFICES ASSUME TypeOK, EndIsLast, Next,
                      NEW c \in Clients, conn[c] = "open", conn'[c] # "open"
               PROVE  inbox[c] = <<End>>
    OBVIOUS
  <2>1. inbox[c] # <<>> /\ inbox[c][1] = End
    <3>1. PICK d \in Clients : ReadEnd(d)
      BY DEF TypeOK, Next, Main, Worker, Controllers, Over, Start, StopSet, StopCloseLoop,
           StopJoin, Listen, UseClosedLoop, Check, Accept, AcceptFails, Read, CloseAndSleep,
           Teardown, TeardownTwice, Connect, Send, HangUp, Backlog,
           vars, threadVars, connVars, pollVars, ghosts
    <3>2. d = c
      BY <3>1 DEF ReadEnd, TypeOK
    <3> QED
      BY <3>1, <3>2 DEF ReadEnd, AtEnd
  <2>2. inbox[c] \in Seq(Word \cup {End}) /\ Len(inbox[c]) \in Nat /\ Len(inbox[c]) > 0
    BY <2>1 DEF TypeOK
  <2>3. Len(inbox[c]) = 1
    <3>1. Len(inbox[c]) > 1 => 1 \in 1 .. Len(inbox[c]) - 1
      BY <2>2
    <3>2. 1 \in 1 .. Len(inbox[c]) - 1 => inbox[c][1] # End
      BY DEF EndIsLast
    <3>3. ~(Len(inbox[c]) > 1)
      BY <2>1, <3>1, <3>2, Zenon
    <3>4. Len(inbox[c]) \in Nat /\ Len(inbox[c]) > 0
      BY <2>2
    <3>5. \A k \in Nat : k > 0 /\ ~(k > 1) => k = 1
      BY SMT
    <3> QED
      BY <3>3, <3>4, <3>5, Zenon
  <2> QED
    BY <2>1, <2>2, <2>3
<1> QED
  BY <1>1, EndIsAlwaysLast, PTL DEF Spec, ClosedAfterLastWord

=============================================================================
