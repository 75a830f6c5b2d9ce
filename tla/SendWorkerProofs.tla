-------------------------- MODULE SendWorkerProofs --------------------------
(***************************************************************************)
(* What TLAPS proves about SendWorker for every set of socket blocks,      *)
(* every width of the number and every bound on the queue.                 *)
(***************************************************************************)
EXTENDS SendWorker, NumGeneratorProofs

USE DEF RunPhases

(* Strengthening of SocketsRecycled.  Without a socket no connection was   *)
(* ever tried, so the reconnect block cannot be skipped on the way to the  *)
(* first uv_run; and Start runs once, before the worker exists.            *)
NoSocketYet == cur = None => status = -1
NotStarted  == mpc = "init" => pc = "none"

SocketInv == TypeOK /\ SocketsRecycled /\ NoSocketYet /\ NotStarted

LEMMA SocketInvInit == Init => SocketInv
<1> SUFFICES ASSUME Init PROVE SocketInv
  OBVIOUS
<1>1. TypeOK
  <2>1. wq \in [Sockets -> Seq(Payload)]
    BY DEF Init
  <2>2. num_ \in Nums
    BY MaxOfTAssumption DEF Init, GenInit, Nums
  <2>3. handle \in [Sockets -> {"free", "open", "closing"}] /\ conn \in [Sockets -> ConnStates]
    BY DEF Init, ConnStates
  <2> QED
    BY <2>1, <2>2, <2>3 DEF Init, TypeOK
<1>2. SocketsRecycled /\ NoSocketYet /\ NotStarted
  BY SendWorkerAssumption DEF Init, SocketsRecycled, NoSocketYet, NotStarted
<1> QED
  BY <1>1, <1>2 DEF SocketInv

(* The queue's operations stay within sequences of payloads.               *)
LEMMA QueueOfPayloads ==
  ASSUME NEW q \in Seq(Payload)
  PROVE  /\ \A p \in Payload : Append(q, p) \in Seq(Payload) /\ <<p>> \in Seq(Payload)
         /\ q # <<>> => Head(q) \in Payload /\ Tail(q) \in Seq(Payload)
  OBVIOUS

(* A step of uv_run or of the network that touches no socket but the       *)
(* current one keeps the life of the blocks.                               *)
LEMMA OnlyCurrentChanges ==
  ASSUME SocketInv, cur # None, UNCHANGED <<cur, handle>>,
         pc' = pc \/ pc' \in RunPhases,
         \A s \in Sockets \ {cur} : conn'[s] = conn[s] /\ wq'[s] = wq[s]
  PROVE  SocketsRecycled'
  BY SendWorkerAssumption DEF SocketInv, SocketsRecycled

(* Inside uv_run there is a current socket, and it is open.                *)
LEMMA CurrentIsOpen ==
  ASSUME SocketInv, pc \in RunPhases \cup {"sleep"}
  PROVE  cur \in Sockets /\ handle[cur] = "open"
  BY DEF SocketInv, SocketsRecycled, TypeOK

LEMMA SocketInvNext == SocketInv /\ [Next]_vars => SocketInv'
<1> SUFFICES ASSUME SocketInv, [Next]_vars PROVE SocketInv'
  OBVIOUS
<1> USE DEF mainVars, sockVars, sendVars
<1>0. TypeOK /\ SocketsRecycled /\ NoSocketYet /\ NotStarted
  BY DEF SocketInv
<1>1. CASE Start
  BY <1>1, SendWorkerAssumption DEF SocketInv, TypeOK, SocketsRecycled, NoSocketYet, NotStarted, Start
<1>2. CASE StopSet
  BY <1>2, SendWorkerAssumption DEF SocketInv, TypeOK, SocketsRecycled, NoSocketYet, NotStarted, StopSet
<1>3. CASE StopCloseLoop
  BY <1>3, SendWorkerAssumption DEF SocketInv, TypeOK, SocketsRecycled, NoSocketYet, NotStarted, StopCloseLoop, LoopLeft
<1>4. CASE Check
  BY <1>4, SendWorkerAssumption DEF SocketInv, TypeOK, SocketsRecycled, NoSocketYet, NotStarted, Check
<1>5. CASE StayConnected
  BY <1>5, SendWorkerAssumption DEF SocketInv, TypeOK, SocketsRecycled, NoSocketYet, NotStarted, StayConnected
<1>6. CASE Dial
  <2>1. PICK s \in Sockets, c \in {"trying", "unrouted", "nofd"} :
           /\ handle[s] = "free"
           /\ cur' = s /\ handle' = Retired(s) /\ conn' = [conn EXCEPT ![s] = c]
    BY <1>6 DEF Dial
  <2>2. TypeOK'
    <3>1. handle' \in [Sockets -> {"free", "open", "closing"}]
      BY <1>0, <2>1 DEF TypeOK, Retired
    <3>2. conn' \in [Sockets -> ConnStates]
      BY <1>0, <2>1 DEF TypeOK, ConnStates
    <3> QED
      BY <1>6, <1>0, <2>1, <3>1, <3>2 DEF Dial, TypeOK
  <2>3. s # cur /\ conn[s] = "none" /\ wq[s] = <<>>
    BY <1>0, <2>1, SendWorkerAssumption DEF SocketsRecycled
  <2>4. \A t \in Sockets : t # s /\ t # cur => handle'[t] = handle[t] /\ handle[t] = "free"
    BY <1>6, <1>0, <2>1 DEF Dial, SocketsRecycled, TypeOK, Retired
  <2>5. SocketsRecycled'
    BY <1>6, <1>0, <2>1, <2>3, <2>4, SendWorkerAssumption
       DEF Dial, SocketsRecycled, TypeOK, Retired
  <2>6. NoSocketYet' /\ NotStarted'
    BY <1>6, <1>0, <2>1, SendWorkerAssumption DEF Dial, NoSocketYet, NotStarted
  <2> QED
    BY <2>2, <2>5, <2>6 DEF SocketInv
<1>7. CASE DialOnClosedLoop
  BY <1>7, SendWorkerAssumption DEF SocketInv, TypeOK, SocketsRecycled, NoSocketYet, NotStarted, DialOnClosedLoop, Die
<1>8. CASE Wake
  BY <1>8, SendWorkerAssumption DEF SocketInv, TypeOK, SocketsRecycled, NoSocketYet, NotStarted, Wake
<1>9. CASE Teardown
  BY <1>9, SendWorkerAssumption DEF SocketInv, TypeOK, SocketsRecycled, NoSocketYet, NotStarted, Teardown, Die
<1>10. CASE TimersIdle
  BY <1>10, SendWorkerAssumption DEF SocketInv, TypeOK, SocketsRecycled, NoSocketYet, NotStarted, TimersIdle
<1>11. CASE OnTimer
  <2>1. cur \in Sockets /\ cur # None
    BY <1>11, CurrentIsOpen, SendWorkerAssumption DEF OnTimer
  <2>2. TypeOK'
    <3>1. PICK p \in Payload : WriteQueued(p) \/ WriteTaken(p) \/ WriteStalled(p)
                               \/ WriteFailed \/ WriteRejected
      BY <1>11, <1>0 DEF OnTimer, Heartbeat, TypeOK, Payload
    <3>2. num_' \in Nums
      BY <1>11, <1>0, NextNumInRange DEF OnTimer, GetNum, TypeOK
    <3>3. wq[cur] \in Seq(Payload)
      BY <1>0, <2>1 DEF TypeOK
    <3>4. Append(wq[cur], p) \in Seq(Payload) /\ <<p>> \in Seq(Payload)
      BY <3>3, QueueOfPayloads
    <3>5. wq' \in [Sockets -> Seq(Payload)]
      BY <1>0, <3>1, <3>4 DEF TypeOK, WriteQueued, WriteTaken, WriteStalled, WriteFailed, WriteRejected
    <3>6. conn' \in [Sockets -> ConnStates]
      BY <1>0, <3>1 DEF TypeOK, ConnStates, WriteQueued, WriteTaken, WriteStalled, WriteFailed, WriteRejected
    <3>7. fed' \in BOOLEAN /\ done' \in {"none", "ok", "err"} /\ sent' \in Payload \cup {None}
      BY <1>0, <3>1 DEF TypeOK, WriteQueued, WriteTaken, WriteStalled, WriteFailed, WriteRejected
    <3> QED
      BY <1>11, <1>0, <3>2, <3>5, <3>6, <3>7 DEF OnTimer, TypeOK
  <2>3. SocketsRecycled'
    <3>1. \A s \in Sockets \ {cur} : conn'[s] = conn[s] /\ wq'[s] = wq[s]
      BY <1>11, <1>0, <2>1 DEF TypeOK, OnTimer, WriteQueued, WriteTaken, WriteStalled, WriteFailed, WriteRejected
    <3> QED
      BY <1>11, <2>1, <3>1, OnlyCurrentChanges DEF OnTimer
  <2>4. NoSocketYet' /\ NotStarted'
    BY <1>11, <1>0, <2>1 DEF OnTimer, NoSocketYet, NotStarted
  <2> QED
    BY <2>2, <2>3, <2>4 DEF SocketInv
<1>12. CASE PendingIdle
  BY <1>12, SendWorkerAssumption DEF SocketInv, TypeOK, SocketsRecycled, NoSocketYet, NotStarted, PendingIdle
<1>13. CASE PendingRun
  <2>1. cur \in Sockets /\ cur # None
    BY <1>13, CurrentIsOpen, SendWorkerAssumption DEF PendingRun
  <2>2. TypeOK'
    <3>1. wq[cur] \in Seq(Payload)
      BY <1>0, <2>1 DEF TypeOK
    <3>2. wq[cur] # <<>> => Head(wq[cur]) \in Payload /\ Tail(wq[cur]) \in Seq(Payload)
      BY <3>1, QueueOfPayloads
    <3>3. wq' \in [Sockets -> Seq(Payload)]
      BY <1>13, <1>0, <3>2 DEF TypeOK, PendingRun, HeadTaken, HeadFailed, HeadKept, HeartbeatFailed
    <3>4. conn' \in [Sockets -> ConnStates]
      BY <1>13, <1>0 DEF TypeOK, ConnStates, PendingRun, HeadTaken, HeadFailed, HeadKept, HeartbeatFailed
    <3>5. sent' \in Payload \cup {None}
      BY <1>13, <1>0, <3>2 DEF TypeOK, PendingRun, HeadTaken, HeadFailed, HeadKept, HeartbeatFailed
    <3> QED
      BY <1>13, <1>0, <3>3, <3>4, <3>5 DEF TypeOK, PendingRun, HeadTaken, HeadFailed, HeadKept, HeartbeatFailed
  <2>3. SocketsRecycled'
    <3>1. \A s \in Sockets \ {cur} : conn'[s] = conn[s] /\ wq'[s] = wq[s]
      BY <1>13, <1>0, <2>1 DEF TypeOK, PendingRun, HeadTaken, HeadFailed, HeadKept, HeartbeatFailed
    <3> QED
      BY <1>13, <2>1, <3>1, OnlyCurrentChanges DEF PendingRun
  <2>4. NoSocketYet' /\ NotStarted'
    BY <1>13, <1>0, <2>1 DEF PendingRun, NoSocketYet, NotStarted
  <2> QED
    BY <2>2, <2>3, <2>4 DEF SocketInv
<1>14. CASE PollConnected
  <2>1. cur \in Sockets /\ cur # None
    BY <1>14, CurrentIsOpen, SendWorkerAssumption DEF PollConnected
  <2>2. TypeOK'
    <3>1. conn' \in [Sockets -> ConnStates]
      BY <1>14, <1>0 DEF TypeOK, ConnStates, PollConnected
    <3> QED
      BY <1>14, <1>0, <3>1 DEF TypeOK, PollConnected
  <2>3. SocketsRecycled'
    <3>1. \A s \in Sockets \ {cur} : conn'[s] = conn[s] /\ wq'[s] = wq[s]
      BY <1>14, <1>0, <2>1 DEF TypeOK, PollConnected
    <3> QED
      BY <1>14, <2>1, <3>1, OnlyCurrentChanges DEF PollConnected
  <2>4. NoSocketYet' /\ NotStarted'
    BY <1>14, <1>0, <2>1 DEF PollConnected, NoSocketYet, NotStarted
  <2> QED
    BY <2>2, <2>3, <2>4 DEF SocketInv
<1>15. CASE PollRefused
  <2>1. cur \in Sockets /\ cur # None
    BY <1>15, CurrentIsOpen, SendWorkerAssumption DEF PollRefused
  <2>2. TypeOK'
    <3>1. conn' \in [Sockets -> ConnStates]
      BY <1>15, <1>0 DEF TypeOK, ConnStates, PollRefused
    <3>2. <<>> \in Seq(Payload)
      OBVIOUS
    <3>3. wq' \in [Sockets -> Seq(Payload)]
      BY <1>15, <1>0, <3>2 DEF TypeOK, PollRefused
    <3> QED
      BY <1>15, <1>0, <3>1, <3>3 DEF TypeOK, PollRefused, ConnectFailed
  <2>3. SocketsRecycled'
    <3>1. \A s \in Sockets \ {cur} : conn'[s] = conn[s] /\ wq'[s] = wq[s]
      BY <1>15, <1>0, <2>1 DEF TypeOK, PollRefused
    <3> QED
      BY <1>15, <2>1, <3>1, OnlyCurrentChanges DEF PollRefused
  <2>4. NoSocketYet' /\ NotStarted'
    BY <1>15, <1>0, <2>1 DEF PollRefused, NoSocketYet, NotStarted
  <2> QED
    BY <2>2, <2>3, <2>4 DEF SocketInv
<1>16. CASE PollWrite
  <2>1. cur \in Sockets /\ cur # None
    BY <1>16, CurrentIsOpen, SendWorkerAssumption DEF PollWrite
  <2>2. TypeOK'
    <3>1. wq[cur] \in Seq(Payload)
      BY <1>0, <2>1 DEF TypeOK
    <3>2. wq[cur] # <<>> => Head(wq[cur]) \in Payload /\ Tail(wq[cur]) \in Seq(Payload)
      BY <3>1, QueueOfPayloads
    <3>3. wq' \in [Sockets -> Seq(Payload)]
      BY <1>16, <1>0, <3>2 DEF TypeOK, PollWrite, HeadTaken, HeadFailed, HeartbeatFailed
    <3>4. conn' \in [Sockets -> ConnStates]
      BY <1>16, <1>0 DEF TypeOK, ConnStates, PollWrite, HeadTaken, HeadFailed, HeartbeatFailed
    <3>5. sent' \in Payload \cup {None}
      BY <1>16, <1>0, <3>2 DEF TypeOK, PollWrite, HeadTaken, HeadFailed, HeartbeatFailed
    <3> QED
      BY <1>16, <1>0, <3>3, <3>4, <3>5 DEF TypeOK, PollWrite, HeadTaken, HeadFailed, HeartbeatFailed
  <2>3. SocketsRecycled'
    <3>1. \A s \in Sockets \ {cur} : conn'[s] = conn[s] /\ wq'[s] = wq[s]
      BY <1>16, <1>0, <2>1 DEF TypeOK, PollWrite, HeadTaken, HeadFailed, HeartbeatFailed
    <3> QED
      BY <1>16, <2>1, <3>1, OnlyCurrentChanges DEF PollWrite
  <2>4. NoSocketYet' /\ NotStarted'
    BY <1>16, <1>0, <2>1 DEF PollWrite, NoSocketYet, NotStarted
  <2> QED
    BY <2>2, <2>3, <2>4 DEF SocketInv
<1>17. CASE PollIdle
  BY <1>17, SendWorkerAssumption DEF SocketInv, TypeOK, SocketsRecycled, NoSocketYet, NotStarted, PollIdle
<1>18. CASE Closing
  <2>1. cur \in Sockets /\ handle[cur] = "open" /\ cur # None
    BY <1>18, CurrentIsOpen, SendWorkerAssumption DEF Closing
  <2>2. TypeOK'
    <3>1. handle' \in [Sockets -> {"free", "open", "closing"}]
      BY <1>18, <1>0 DEF TypeOK, Closing
    <3>2. conn' \in [Sockets -> ConnStates]
      BY <1>18, <1>0 DEF TypeOK, ConnStates, Closing
    <3>3. wq' \in [Sockets -> Seq(Payload)]
      BY <1>18, <1>0 DEF TypeOK, Closing
    <3> QED
      BY <1>18, <1>0, <3>1, <3>2, <3>3 DEF TypeOK, Closing
  <2>3. SocketsRecycled'
    BY <1>18, <1>0, <2>1 DEF TypeOK, SocketsRecycled, Closing
  <2>4. NoSocketYet' /\ NotStarted'
    BY <1>18, <1>0, <2>1 DEF Closing, NoSocketYet, NotStarted
  <2> QED
    BY <2>2, <2>3, <2>4 DEF SocketInv
<1>19. CASE Network
  <2>1. PICK s \in Sockets, c \in {"answered", "refused", "fin", "reset"} :
           /\ handle[s] = "open" /\ conn' = [conn EXCEPT ![s] = c]
           /\ UNCHANGED <<pc, mainVars, loop, status, cur, handle, wq, timer, sendVars>>
    BY <1>19 DEF Network, PeerAnswers, PeerRefuses, PeerCloses, PeerResets, Moves
  <2>2. TypeOK'
    <3>1. conn' \in [Sockets -> ConnStates]
      BY <1>0, <2>1 DEF TypeOK, ConnStates
    <3> QED
      BY <1>0, <2>1, <3>1 DEF TypeOK
  <2>3. s = cur /\ cur # None
    BY <1>0, <2>1, SendWorkerAssumption DEF SocketsRecycled
  <2>4. \A t \in Sockets \ {cur} : conn'[t] = conn[t] /\ wq'[t] = wq[t]
    BY <1>0, <2>1, <2>3 DEF TypeOK
  <2>5. SocketsRecycled'
    BY <2>1, <2>3, <2>4, OnlyCurrentChanges
  <2>6. NoSocketYet' /\ NotStarted'
    BY <1>0, <2>1 DEF NoSocketYet, NotStarted
  <2> QED
    BY <2>2, <2>5, <2>6 DEF SocketInv
<1>20. CASE UNCHANGED vars
  BY <1>20, SendWorkerAssumption DEF SocketInv, TypeOK, SocketsRecycled, NoSocketYet, NotStarted, vars
<1> QED
  BY <1>1, <1>2, <1>3, <1>4, <1>5, <1>6, <1>7, <1>8, <1>9, <1>10, <1>11, <1>12, <1>13, <1>14, <1>15, <1>16, <1>17, <1>18, <1>19, <1>20 DEF Next, Main, Worker, Dead

LEMMA LoopNext == SocketInv /\ LoopOutlivesWorker /\ [Next]_vars => LoopOutlivesWorker'
<1> SUFFICES ASSUME SocketInv, LoopOutlivesWorker, [Next]_vars PROVE LoopOutlivesWorker'
  OBVIOUS
<1> USE SendWorkerAssumption DEF mainVars, sockVars, sendVars
<1>0. TypeOK /\ SocketsRecycled /\ NoSocketYet /\ NotStarted
  BY DEF SocketInv
<1>1. CASE Start
  BY <1>0, <1>1 DEF Start, TypeOK, SocketsRecycled, NoSocketYet, NotStarted, LoopOutlivesWorker
<1>2. CASE StopSet
  BY <1>0, <1>2 DEF StopSet, TypeOK, SocketsRecycled, NoSocketYet, NotStarted, LoopOutlivesWorker
<1>3. CASE StopCloseLoop
  BY <1>0, <1>3 DEF StopCloseLoop, LoopLeft, LoopBusy, TypeOK, SocketsRecycled, NoSocketYet, NotStarted, LoopOutlivesWorker
<1>4. CASE Check
  BY <1>0, <1>4 DEF Check, TypeOK, SocketsRecycled, NoSocketYet, NotStarted, LoopOutlivesWorker
<1>5. CASE StayConnected
  BY <1>0, <1>5 DEF StayConnected, TypeOK, SocketsRecycled, NoSocketYet, NotStarted, LoopOutlivesWorker
<1>6. CASE Dial
  BY <1>0, <1>6 DEF Dial, Retired, TypeOK, SocketsRecycled, NoSocketYet, NotStarted, LoopOutlivesWorker
<1>7. CASE DialOnClosedLoop
  BY <1>0, <1>7 DEF DialOnClosedLoop, Die, TypeOK, SocketsRecycled, NoSocketYet, NotStarted, LoopOutlivesWorker
<1>8. CASE Wake
  BY <1>0, <1>8 DEF Wake, TypeOK, SocketsRecycled, NoSocketYet, NotStarted, LoopOutlivesWorker
<1>9. CASE Teardown
  BY <1>0, <1>9 DEF Teardown, Die, TypeOK, SocketsRecycled, NoSocketYet, NotStarted, LoopOutlivesWorker
<1>10. CASE TimersIdle
  BY <1>0, <1>10 DEF TimersIdle, TypeOK, SocketsRecycled, NoSocketYet, NotStarted, LoopOutlivesWorker
<1>11. CASE OnTimer
  BY <1>0, <1>11 DEF OnTimer, WriteQueued, WriteTaken, WriteStalled, WriteFailed, WriteRejected, TypeOK, SocketsRecycled, NoSocketYet, NotStarted, LoopOutlivesWorker
<1>12. CASE PendingIdle
  BY <1>0, <1>12 DEF PendingIdle, TypeOK, SocketsRecycled, NoSocketYet, NotStarted, LoopOutlivesWorker
<1>13. CASE PendingRun
  BY <1>0, <1>13 DEF PendingRun, HeadTaken, HeadFailed, HeadKept, HeartbeatFailed, TypeOK, SocketsRecycled, NoSocketYet, NotStarted, LoopOutlivesWorker
<1>14. CASE PollConnected
  BY <1>0, <1>14 DEF PollConnected, TypeOK, SocketsRecycled, NoSocketYet, NotStarted, LoopOutlivesWorker
<1>15. CASE PollRefused
  BY <1>0, <1>15 DEF PollRefused, ConnectFailed, TypeOK, SocketsRecycled, NoSocketYet, NotStarted, LoopOutlivesWorker
<1>16. CASE PollWrite
  BY <1>0, <1>16 DEF PollWrite, HeadTaken, HeadFailed, HeartbeatFailed, TypeOK, SocketsRecycled, NoSocketYet, NotStarted, LoopOutlivesWorker
<1>17. CASE PollIdle
  BY <1>0, <1>17 DEF PollIdle, TypeOK, SocketsRecycled, NoSocketYet, NotStarted, LoopOutlivesWorker
<1>18. CASE Closing
  BY <1>0, <1>18 DEF Closing, TypeOK, SocketsRecycled, NoSocketYet, NotStarted, LoopOutlivesWorker
<1>19. CASE Network
  BY <1>0, <1>19 DEF Network, PeerAnswers, PeerRefuses, PeerCloses, PeerResets, Moves, TypeOK, SocketsRecycled, NoSocketYet, NotStarted, LoopOutlivesWorker
<1>20. CASE UNCHANGED vars
  BY <1>20 DEF vars, LoopOutlivesWorker
<1> QED
  BY <1>1, <1>2, <1>3, <1>4, <1>5, <1>6, <1>7, <1>8, <1>9, <1>10, <1>11, <1>12, <1>13, <1>14, <1>15, <1>16, <1>17, <1>18, <1>19, <1>20 DEF Next, Main, Worker, Dead

(* Strengthening of the status properties.  The result of an immediate     *)
(* write is due in the pending phase; a failed socket has its status -1 or *)
(* such a result; status -1 inside a round means a failed socket and never *)
(* outlasts the dial step; status and connection change together.          *)
ResultDue ==
  done # "none" => pc = "pending" /\ fed /\ (done = "err" => conn[cur] = "failed")

FailureIsReported ==
  cur # None /\ conn[cur] = "failed" => status = -1 \/ done = "err"

ErrorIsFinal ==
  status = -1 => /\ pc \notin {"sleep", "timers"}
                 /\ pc \in {"pending", "poll"} => conn[cur] = "failed"

StatusOfConnection ==
  cur # None => /\ conn[cur] \in Established => status # 0
                /\ conn[cur] \in Connecting => status # 1

StatusInv ==
  /\ CallbackHasTimer /\ ConnectedIsBeating
  /\ ResultDue /\ FailureIsReported /\ ErrorIsFinal /\ StatusOfConnection

LEMMA StatusNext == SocketInv /\ StatusInv /\ [Next]_vars => StatusInv'
<1> SUFFICES ASSUME SocketInv, StatusInv, [Next]_vars PROVE StatusInv'
  OBVIOUS
<1> USE SendWorkerAssumption DEF mainVars, sockVars, sendVars
<1>0. TypeOK /\ SocketsRecycled /\ NoSocketYet /\ NotStarted
  BY DEF SocketInv
<1>1. CASE Start
  BY <1>0, <1>1 DEF Start, TypeOK, SocketsRecycled, NoSocketYet, NotStarted, StatusInv, CallbackHasTimer, ConnectedIsBeating, ResultDue, FailureIsReported, ErrorIsFinal, StatusOfConnection, ConnStates, Connecting, Writable, Established
<1>2. CASE StopSet
  BY <1>0, <1>2 DEF StopSet, TypeOK, SocketsRecycled, NoSocketYet, NotStarted, StatusInv, CallbackHasTimer, ConnectedIsBeating, ResultDue, FailureIsReported, ErrorIsFinal, StatusOfConnection, ConnStates, Connecting, Writable, Established
<1>3. CASE StopCloseLoop
  BY <1>0, <1>3 DEF StopCloseLoop, LoopLeft, LoopBusy, TypeOK, SocketsRecycled, NoSocketYet, NotStarted, StatusInv, CallbackHasTimer, ConnectedIsBeating, ResultDue, FailureIsReported, ErrorIsFinal, StatusOfConnection, ConnStates, Connecting, Writable, Established
<1>4. CASE Check
  BY <1>0, <1>4 DEF Check, TypeOK, SocketsRecycled, NoSocketYet, NotStarted, StatusInv, CallbackHasTimer, ConnectedIsBeating, ResultDue, FailureIsReported, ErrorIsFinal, StatusOfConnection, ConnStates, Connecting, Writable, Established
<1>5. CASE StayConnected
  BY <1>0, <1>5 DEF StayConnected, TypeOK, SocketsRecycled, NoSocketYet, NotStarted, StatusInv, CallbackHasTimer, ConnectedIsBeating, ResultDue, FailureIsReported, ErrorIsFinal, StatusOfConnection, ConnStates, Connecting, Writable, Established
<1>6. CASE Dial
  BY <1>0, <1>6 DEF Dial, Retired, TypeOK, SocketsRecycled, NoSocketYet, NotStarted, StatusInv, CallbackHasTimer, ConnectedIsBeating, ResultDue, FailureIsReported, ErrorIsFinal, StatusOfConnection, ConnStates, Connecting, Writable, Established
<1>7. CASE DialOnClosedLoop
  BY <1>0, <1>7 DEF DialOnClosedLoop, Die, TypeOK, SocketsRecycled, NoSocketYet, NotStarted, StatusInv, CallbackHasTimer, ConnectedIsBeating, ResultDue, FailureIsReported, ErrorIsFinal, StatusOfConnection, ConnStates, Connecting, Writable, Established
<1>8. CASE Wake
  BY <1>0, <1>8 DEF Wake, TypeOK, SocketsRecycled, NoSocketYet, NotStarted, StatusInv, CallbackHasTimer, ConnectedIsBeating, ResultDue, FailureIsReported, ErrorIsFinal, StatusOfConnection, ConnStates, Connecting, Writable, Established
<1>9. CASE Teardown
  BY <1>0, <1>9 DEF Teardown, Die, TypeOK, SocketsRecycled, NoSocketYet, NotStarted, StatusInv, CallbackHasTimer, ConnectedIsBeating, ResultDue, FailureIsReported, ErrorIsFinal, StatusOfConnection, ConnStates, Connecting, Writable, Established
<1>10. CASE TimersIdle
  BY <1>0, <1>10 DEF TimersIdle, TypeOK, SocketsRecycled, NoSocketYet, NotStarted, StatusInv, CallbackHasTimer, ConnectedIsBeating, ResultDue, FailureIsReported, ErrorIsFinal, StatusOfConnection, ConnStates, Connecting, Writable, Established
<1>11. CASE OnTimer
  BY <1>0, <1>11 DEF OnTimer, WriteQueued, WriteTaken, WriteStalled, WriteFailed, WriteRejected, TypeOK, SocketsRecycled, NoSocketYet, NotStarted, StatusInv, CallbackHasTimer, ConnectedIsBeating, ResultDue, FailureIsReported, ErrorIsFinal, StatusOfConnection, ConnStates, Connecting, Writable, Established
<1>12. CASE PendingIdle
  BY <1>0, <1>12 DEF PendingIdle, TypeOK, SocketsRecycled, NoSocketYet, NotStarted, StatusInv, CallbackHasTimer, ConnectedIsBeating, ResultDue, FailureIsReported, ErrorIsFinal, StatusOfConnection, ConnStates, Connecting, Writable, Established
<1>13. CASE PendingRun
  BY <1>0, <1>13 DEF PendingRun, HeadTaken, HeadFailed, HeadKept, HeartbeatFailed, TypeOK, SocketsRecycled, NoSocketYet, NotStarted, StatusInv, CallbackHasTimer, ConnectedIsBeating, ResultDue, FailureIsReported, ErrorIsFinal, StatusOfConnection, ConnStates, Connecting, Writable, Established
<1>14. CASE PollConnected
  BY <1>0, <1>14 DEF PollConnected, TypeOK, SocketsRecycled, NoSocketYet, NotStarted, StatusInv, CallbackHasTimer, ConnectedIsBeating, ResultDue, FailureIsReported, ErrorIsFinal, StatusOfConnection, ConnStates, Connecting, Writable, Established
<1>15. CASE PollRefused
  BY <1>0, <1>15 DEF PollRefused, ConnectFailed, TypeOK, SocketsRecycled, NoSocketYet, NotStarted, StatusInv, CallbackHasTimer, ConnectedIsBeating, ResultDue, FailureIsReported, ErrorIsFinal, StatusOfConnection, ConnStates, Connecting, Writable, Established
<1>16. CASE PollWrite
  BY <1>0, <1>16 DEF PollWrite, HeadTaken, HeadFailed, HeartbeatFailed, TypeOK, SocketsRecycled, NoSocketYet, NotStarted, StatusInv, CallbackHasTimer, ConnectedIsBeating, ResultDue, FailureIsReported, ErrorIsFinal, StatusOfConnection, ConnStates, Connecting, Writable, Established
<1>17. CASE PollIdle
  BY <1>0, <1>17 DEF PollIdle, TypeOK, SocketsRecycled, NoSocketYet, NotStarted, StatusInv, CallbackHasTimer, ConnectedIsBeating, ResultDue, FailureIsReported, ErrorIsFinal, StatusOfConnection, ConnStates, Connecting, Writable, Established
<1>18. CASE Closing
  BY <1>0, <1>18 DEF Closing, TypeOK, SocketsRecycled, NoSocketYet, NotStarted, StatusInv, CallbackHasTimer, ConnectedIsBeating, ResultDue, FailureIsReported, ErrorIsFinal, StatusOfConnection, ConnStates, Connecting, Writable, Established
<1>19. CASE Network
  BY <1>0, <1>19 DEF Network, PeerAnswers, PeerRefuses, PeerCloses, PeerResets, Moves, TypeOK, SocketsRecycled, NoSocketYet, NotStarted, StatusInv, CallbackHasTimer, ConnectedIsBeating, ResultDue, FailureIsReported, ErrorIsFinal, StatusOfConnection, ConnStates, Connecting, Writable, Established
<1>20. CASE UNCHANGED vars
  BY <1>20 DEF vars, StatusInv, CallbackHasTimer, ConnectedIsBeating, ResultDue, FailureIsReported, ErrorIsFinal, StatusOfConnection
<1> QED
  BY <1>1, <1>2, <1>3, <1>4, <1>5, <1>6, <1>7, <1>8, <1>9, <1>10, <1>11, <1>12, <1>13, <1>14, <1>15, <1>16, <1>17, <1>18, <1>19, <1>20 DEF Next, Main, Worker, Dead

(* The step that LossForcesRedial speaks about. *)
RedialsOnLoss ==
  status = -1 /\ status' # -1 =>
    /\ status' = 0 /\ cur' # cur
    /\ cur # None => handle'[cur] = "closing"

LEMMA RedialStep ==
  SocketInv /\ StatusInv /\ [Next]_vars => RedialsOnLoss
<1> SUFFICES ASSUME SocketInv, StatusInv, [Next]_vars PROVE RedialsOnLoss
  OBVIOUS
<1> USE SendWorkerAssumption DEF mainVars, sockVars, sendVars
<1>0. TypeOK /\ SocketsRecycled /\ NoSocketYet /\ NotStarted
  BY DEF SocketInv
<1>1. CASE Start
  BY <1>0, <1>1 DEF Start, TypeOK, SocketsRecycled, NoSocketYet, NotStarted, RedialsOnLoss, StatusInv, ErrorIsFinal, Connecting
<1>2. CASE StopSet
  BY <1>0, <1>2 DEF StopSet, TypeOK, SocketsRecycled, NoSocketYet, NotStarted, RedialsOnLoss, StatusInv, ErrorIsFinal, Connecting
<1>3. CASE StopCloseLoop
  BY <1>0, <1>3 DEF StopCloseLoop, LoopLeft, LoopBusy, TypeOK, SocketsRecycled, NoSocketYet, NotStarted, RedialsOnLoss, StatusInv, ErrorIsFinal, Connecting
<1>4. CASE Check
  BY <1>0, <1>4 DEF Check, TypeOK, SocketsRecycled, NoSocketYet, NotStarted, RedialsOnLoss, StatusInv, ErrorIsFinal, Connecting
<1>5. CASE StayConnected
  BY <1>0, <1>5 DEF StayConnected, TypeOK, SocketsRecycled, NoSocketYet, NotStarted, RedialsOnLoss, StatusInv, ErrorIsFinal, Connecting
<1>6. CASE Dial
  BY <1>0, <1>6 DEF Dial, Retired, TypeOK, SocketsRecycled, NoSocketYet, NotStarted, RedialsOnLoss, StatusInv, ErrorIsFinal, Connecting
<1>7. CASE DialOnClosedLoop
  BY <1>0, <1>7 DEF DialOnClosedLoop, Die, TypeOK, SocketsRecycled, NoSocketYet, NotStarted, RedialsOnLoss, StatusInv, ErrorIsFinal, Connecting
<1>8. CASE Wake
  BY <1>0, <1>8 DEF Wake, TypeOK, SocketsRecycled, NoSocketYet, NotStarted, RedialsOnLoss, StatusInv, ErrorIsFinal, Connecting
<1>9. CASE Teardown
  BY <1>0, <1>9 DEF Teardown, Die, TypeOK, SocketsRecycled, NoSocketYet, NotStarted, RedialsOnLoss, StatusInv, ErrorIsFinal, Connecting
<1>10. CASE TimersIdle
  BY <1>0, <1>10 DEF TimersIdle, TypeOK, SocketsRecycled, NoSocketYet, NotStarted, RedialsOnLoss, StatusInv, ErrorIsFinal, Connecting
<1>11. CASE OnTimer
  BY <1>0, <1>11 DEF OnTimer, WriteQueued, WriteTaken, WriteStalled, WriteFailed, WriteRejected, TypeOK, SocketsRecycled, NoSocketYet, NotStarted, RedialsOnLoss, StatusInv, ErrorIsFinal, Connecting
<1>12. CASE PendingIdle
  BY <1>0, <1>12 DEF PendingIdle, TypeOK, SocketsRecycled, NoSocketYet, NotStarted, RedialsOnLoss, StatusInv, ErrorIsFinal, Connecting
<1>13. CASE PendingRun
  BY <1>0, <1>13 DEF PendingRun, HeadTaken, HeadFailed, HeadKept, HeartbeatFailed, TypeOK, SocketsRecycled, NoSocketYet, NotStarted, RedialsOnLoss, StatusInv, ErrorIsFinal, Connecting
<1>14. CASE PollConnected
  BY <1>0, <1>14 DEF PollConnected, TypeOK, SocketsRecycled, NoSocketYet, NotStarted, RedialsOnLoss, StatusInv, ErrorIsFinal, Connecting
<1>15. CASE PollRefused
  BY <1>0, <1>15 DEF PollRefused, ConnectFailed, TypeOK, SocketsRecycled, NoSocketYet, NotStarted, RedialsOnLoss, StatusInv, ErrorIsFinal, Connecting
<1>16. CASE PollWrite
  BY <1>0, <1>16 DEF PollWrite, HeadTaken, HeadFailed, HeartbeatFailed, TypeOK, SocketsRecycled, NoSocketYet, NotStarted, RedialsOnLoss, StatusInv, ErrorIsFinal, Connecting
<1>17. CASE PollIdle
  BY <1>0, <1>17 DEF PollIdle, TypeOK, SocketsRecycled, NoSocketYet, NotStarted, RedialsOnLoss, StatusInv, ErrorIsFinal, Connecting
<1>18. CASE Closing
  BY <1>0, <1>18 DEF Closing, TypeOK, SocketsRecycled, NoSocketYet, NotStarted, RedialsOnLoss, StatusInv, ErrorIsFinal, Connecting
<1>19. CASE Network
  BY <1>0, <1>19 DEF Network, PeerAnswers, PeerRefuses, PeerCloses, PeerResets, Moves, TypeOK, SocketsRecycled, NoSocketYet, NotStarted, RedialsOnLoss, StatusInv, ErrorIsFinal, Connecting
<1>20. CASE UNCHANGED vars
  BY <1>20 DEF vars, RedialsOnLoss, StatusInv, ErrorIsFinal, Connecting
<1> QED
  BY <1>1, <1>2, <1>3, <1>4, <1>5, <1>6, <1>7, <1>8, <1>9, <1>10, <1>11, <1>12, <1>13, <1>14, <1>15, <1>16, <1>17, <1>18, <1>19, <1>20 DEF Next, Main, Worker, Dead

LEMMA FlightNext ==
  SyncErrors = FALSE /\ SocketInv /\ ConnectingIsInFlight /\ [Next]_vars => ConnectingIsInFlight'
<1> SUFFICES ASSUME SyncErrors = FALSE, SocketInv, ConnectingIsInFlight, [Next]_vars PROVE ConnectingIsInFlight'
  OBVIOUS
<1> USE SendWorkerAssumption DEF mainVars, sockVars, sendVars
<1>0. TypeOK /\ SocketsRecycled /\ NoSocketYet /\ NotStarted
  BY DEF SocketInv
<1>1. CASE Start
  BY <1>0, <1>1 DEF Start, TypeOK, SocketsRecycled, NoSocketYet, NotStarted, ConnectingIsInFlight, Connecting, ConnStates, Writable, Established
<1>2. CASE StopSet
  BY <1>0, <1>2 DEF StopSet, TypeOK, SocketsRecycled, NoSocketYet, NotStarted, ConnectingIsInFlight, Connecting, ConnStates, Writable, Established
<1>3. CASE StopCloseLoop
  BY <1>0, <1>3 DEF StopCloseLoop, LoopLeft, LoopBusy, TypeOK, SocketsRecycled, NoSocketYet, NotStarted, ConnectingIsInFlight, Connecting, ConnStates, Writable, Established
<1>4. CASE Check
  BY <1>0, <1>4 DEF Check, TypeOK, SocketsRecycled, NoSocketYet, NotStarted, ConnectingIsInFlight, Connecting, ConnStates, Writable, Established
<1>5. CASE StayConnected
  BY <1>0, <1>5 DEF StayConnected, TypeOK, SocketsRecycled, NoSocketYet, NotStarted, ConnectingIsInFlight, Connecting, ConnStates, Writable, Established
<1>6. CASE Dial
  BY <1>0, <1>6 DEF Dial, Retired, TypeOK, SocketsRecycled, NoSocketYet, NotStarted, ConnectingIsInFlight, Connecting, ConnStates, Writable, Established
<1>7. CASE DialOnClosedLoop
  BY <1>0, <1>7 DEF DialOnClosedLoop, Die, TypeOK, SocketsRecycled, NoSocketYet, NotStarted, ConnectingIsInFlight, Connecting, ConnStates, Writable, Established
<1>8. CASE Wake
  BY <1>0, <1>8 DEF Wake, TypeOK, SocketsRecycled, NoSocketYet, NotStarted, ConnectingIsInFlight, Connecting, ConnStates, Writable, Established
<1>9. CASE Teardown
  BY <1>0, <1>9 DEF Teardown, Die, TypeOK, SocketsRecycled, NoSocketYet, NotStarted, ConnectingIsInFlight, Connecting, ConnStates, Writable, Established
<1>10. CASE TimersIdle
  BY <1>0, <1>10 DEF TimersIdle, TypeOK, SocketsRecycled, NoSocketYet, NotStarted, ConnectingIsInFlight, Connecting, ConnStates, Writable, Established
<1>11. CASE OnTimer
  BY <1>0, <1>11 DEF OnTimer, WriteQueued, WriteTaken, WriteStalled, WriteFailed, WriteRejected, TypeOK, SocketsRecycled, NoSocketYet, NotStarted, ConnectingIsInFlight, Connecting, ConnStates, Writable, Established
<1>12. CASE PendingIdle
  BY <1>0, <1>12 DEF PendingIdle, TypeOK, SocketsRecycled, NoSocketYet, NotStarted, ConnectingIsInFlight, Connecting, ConnStates, Writable, Established
<1>13. CASE PendingRun
  BY <1>0, <1>13 DEF PendingRun, HeadTaken, HeadFailed, HeadKept, HeartbeatFailed, TypeOK, SocketsRecycled, NoSocketYet, NotStarted, ConnectingIsInFlight, Connecting, ConnStates, Writable, Established
<1>14. CASE PollConnected
  BY <1>0, <1>14 DEF PollConnected, TypeOK, SocketsRecycled, NoSocketYet, NotStarted, ConnectingIsInFlight, Connecting, ConnStates, Writable, Established
<1>15. CASE PollRefused
  BY <1>0, <1>15 DEF PollRefused, ConnectFailed, TypeOK, SocketsRecycled, NoSocketYet, NotStarted, ConnectingIsInFlight, Connecting, ConnStates, Writable, Established
<1>16. CASE PollWrite
  BY <1>0, <1>16 DEF PollWrite, HeadTaken, HeadFailed, HeartbeatFailed, TypeOK, SocketsRecycled, NoSocketYet, NotStarted, ConnectingIsInFlight, Connecting, ConnStates, Writable, Established
<1>17. CASE PollIdle
  BY <1>0, <1>17 DEF PollIdle, TypeOK, SocketsRecycled, NoSocketYet, NotStarted, ConnectingIsInFlight, Connecting, ConnStates, Writable, Established
<1>18. CASE Closing
  BY <1>0, <1>18 DEF Closing, TypeOK, SocketsRecycled, NoSocketYet, NotStarted, ConnectingIsInFlight, Connecting, ConnStates, Writable, Established
<1>19. CASE Network
  BY <1>0, <1>19 DEF Network, PeerAnswers, PeerRefuses, PeerCloses, PeerResets, Moves, TypeOK, SocketsRecycled, NoSocketYet, NotStarted, ConnectingIsInFlight, Connecting, ConnStates, Writable, Established
<1>20. CASE UNCHANGED vars
  BY <1>20 DEF vars, ConnectingIsInFlight, Connecting, ConnStates, Writable, Established
<1> QED
  BY <1>1, <1>2, <1>3, <1>4, <1>5, <1>6, <1>7, <1>8, <1>9, <1>10, <1>11, <1>12, <1>13, <1>14, <1>15, <1>16, <1>17, <1>18, <1>19, <1>20 DEF Next, Main, Worker, Dead

(* A socket whose uv_tcp_connect failed has sent nothing and queued nothing. *)
NothingUnconnected ==
  cur # None /\ conn[cur] \in {"unrouted", "nofd"} => wq[cur] = <<>> /\ sent = None

FeedInv == HeartbeatsConsecutive /\ NothingUnconnected

(* A run of consecutive payloads stays one when a follower is appended and *)
(* when its head is taken.                                                 *)
LEMMA AppendConsecutive ==
  ASSUME NEW q \in Seq(Payload), NEW p \in Payload, Consecutive(q),
         q # <<>> => Follows(q[Len(q)], p)
  PROVE  /\ Consecutive(Append(q, p))
         /\ Append(q, p) # <<>>
         /\ Append(q, p)[Len(Append(q, p))] = p
         /\ Append(q, p)[1] = IF q = <<>> THEN p ELSE q[1]
<1>1. Len(Append(q, p)) = Len(q) + 1 /\ Append(q, p)[Len(q) + 1] = p
  OBVIOUS
<1>2. \A i \in 1 .. Len(q) : Append(q, p)[i] = q[i]
  OBVIOUS
<1>3. q # <<>> => Len(q) > 0
  OBVIOUS
<1>4. q = <<>> => Len(q) = 0
  OBVIOUS
<1>5. Consecutive(Append(q, p))
  <2> SUFFICES ASSUME NEW i \in 1 .. Len(Append(q, p)) - 1
               PROVE  Follows(Append(q, p)[i], Append(q, p)[i + 1])
    BY DEF Consecutive
  <2>1. i \in 1 .. Len(q) /\ Append(q, p)[i] = q[i]
    BY <1>1, <1>2
  <2>2. CASE i = Len(q)
    BY <1>1, <1>4, <2>1, <2>2
  <2>3. CASE i # Len(q)
    <3>1. i \in 1 .. Len(q) - 1 /\ i + 1 \in 1 .. Len(q)
      BY <2>1, <2>3
    <3> QED
      BY <1>2, <2>1, <3>1 DEF Consecutive
  <2> QED
    BY <2>2, <2>3
<1>6. Append(q, p) # <<>>
  OBVIOUS
<1>7. q # <<>> => Append(q, p)[1] = q[1]
  BY <1>2, <1>3
<1> QED
  BY <1>1, <1>4, <1>5, <1>6, <1>7

LEMMA TailConsecutive ==
  ASSUME NEW q \in Seq(Payload), Consecutive(q), q # <<>>
  PROVE  /\ Consecutive(Tail(q))
         /\ Tail(q) # <<>> => /\ Follows(Head(q), Tail(q)[1])
                               /\ Tail(q)[Len(Tail(q))] = q[Len(q)]
         /\ Tail(q) = <<>> => Head(q) = q[Len(q)]
<1>1. Len(q) > 0 /\ Len(Tail(q)) = Len(q) - 1 /\ Head(q) = q[1]
  OBVIOUS
<1>2. \A i \in 1 .. Len(q) - 1 : Tail(q)[i] = q[i + 1]
  OBVIOUS
<1>3. Tail(q) = <<>> => Len(q) = 1
  BY <1>1
<1>4. Tail(q) # <<>> => Len(q) > 1
  BY <1>1
<1>5. Consecutive(Tail(q))
  <2> SUFFICES ASSUME NEW i \in 1 .. Len(Tail(q)) - 1
               PROVE  Follows(Tail(q)[i], Tail(q)[i + 1])
    BY DEF Consecutive
  <2>1. i \in 1 .. Len(q) - 1 /\ i + 1 \in 1 .. Len(q) - 1
    BY <1>1
  <2>2. Tail(q)[i] = q[i + 1] /\ Tail(q)[i + 1] = q[(i + 1) + 1]
    BY <1>2, <2>1
  <2> QED
    BY <2>1, <2>2 DEF Consecutive
<1>6. Tail(q) # <<>> => Follows(Head(q), Tail(q)[1]) /\ Tail(q)[Len(Tail(q))] = q[Len(q)]
  <2> SUFFICES ASSUME Tail(q) # <<>>
               PROVE  Follows(Head(q), Tail(q)[1]) /\ Tail(q)[Len(Tail(q))] = q[Len(q)]
    OBVIOUS
  <2>1. 1 \in 1 .. Len(q) - 1 /\ Len(q) - 1 \in 1 .. Len(q) - 1
    BY <1>1, <1>4
  <2>2. Tail(q)[1] = q[1 + 1] /\ Tail(q)[Len(q) - 1] = q[(Len(q) - 1) + 1]
    BY <1>2, <2>1
  <2>3. (Len(q) - 1) + 1 = Len(q)
    BY <1>1
  <2>4. Follows(q[1], q[1 + 1])
    BY <2>1 DEF Consecutive
  <2> QED
    BY <1>1, <2>2, <2>3, <2>4
<1> QED
  BY <1>1, <1>3, <1>5, <1>6

(* Taking the head off the queue, whether the kernel accepts it or not,    *)
(* keeps the feed consecutive.                                             *)
LEMMA HeadLeavesQueue ==
  ASSUME TypeOK, FeedInv, cur \in Sockets, UNCHANGED <<cur, num_>>,
         HeadTaken \/ HeadFailed
  PROVE  FeedInv'
<1> DEFINE q == wq[cur]
<1>1. cur # None
  BY SendWorkerAssumption
<1>2. q \in Seq(Payload) /\ q # <<>> /\ Consecutive(q) /\ num_ = NextNum(q[Len(q)].dbw0)
  BY <1>1 DEF TypeOK, FeedInv, HeartbeatsConsecutive, HeadTaken, HeadFailed
<1>3. wq'[cur] = Tail(q)
  BY DEF TypeOK, HeadTaken, HeadFailed
<1>4. /\ Consecutive(Tail(q))
      /\ Tail(q) # <<>> => Follows(Head(q), Tail(q)[1]) /\ Tail(q)[Len(Tail(q))] = q[Len(q)]
      /\ Tail(q) = <<>> => Head(q) = q[Len(q)]
  BY <1>2, TailConsecutive
<1>5. sent' = Head(q) \/ conn'[cur] = "failed"
  BY DEF TypeOK, HeadTaken, HeadFailed
<1>6. conn'[cur] \notin {"unrouted", "nofd"}
  BY DEF TypeOK, HeadTaken, HeadFailed, Writable
<1>7. NothingUnconnected'
  BY <1>6 DEF NothingUnconnected
<1>8. HeartbeatsConsecutive'
  BY <1>1, <1>2, <1>3, <1>4, <1>5 DEF HeartbeatsConsecutive
<1> QED
  BY <1>7, <1>8 DEF FeedInv

LEMMA FeedNextStep ==
  SocketInv /\ FeedInv /\ [Next]_vars => FeedInv'
<1> SUFFICES ASSUME SocketInv, FeedInv, [Next]_vars PROVE FeedInv'
  OBVIOUS
<1> USE SendWorkerAssumption DEF mainVars, sockVars, sendVars
<1>0. TypeOK /\ SocketsRecycled /\ NoSocketYet /\ NotStarted
  BY DEF SocketInv
<1>1. CASE Start
  BY <1>0, <1>1 DEF Start, TypeOK, SocketsRecycled, NoSocketYet, NotStarted, FeedInv, HeartbeatsConsecutive, NothingUnconnected, Connecting, Writable, Consecutive
<1>2. CASE StopSet
  BY <1>0, <1>2 DEF StopSet, TypeOK, SocketsRecycled, NoSocketYet, NotStarted, FeedInv, HeartbeatsConsecutive, NothingUnconnected, Connecting, Writable, Consecutive
<1>3. CASE StopCloseLoop
  BY <1>0, <1>3 DEF StopCloseLoop, LoopLeft, LoopBusy, TypeOK, SocketsRecycled, NoSocketYet, NotStarted, FeedInv, HeartbeatsConsecutive, NothingUnconnected, Connecting, Writable, Consecutive
<1>4. CASE Check
  BY <1>0, <1>4 DEF Check, TypeOK, SocketsRecycled, NoSocketYet, NotStarted, FeedInv, HeartbeatsConsecutive, NothingUnconnected, Connecting, Writable, Consecutive
<1>5. CASE StayConnected
  BY <1>0, <1>5 DEF StayConnected, TypeOK, SocketsRecycled, NoSocketYet, NotStarted, FeedInv, HeartbeatsConsecutive, NothingUnconnected, Connecting, Writable, Consecutive
<1>6. CASE Dial
  BY <1>0, <1>6 DEF Dial, Retired, TypeOK, SocketsRecycled, NoSocketYet, NotStarted, FeedInv, HeartbeatsConsecutive, NothingUnconnected, Connecting, Writable, Consecutive
<1>7. CASE DialOnClosedLoop
  BY <1>0, <1>7 DEF DialOnClosedLoop, Die, TypeOK, SocketsRecycled, NoSocketYet, NotStarted, FeedInv, HeartbeatsConsecutive, NothingUnconnected, Connecting, Writable, Consecutive
<1>8. CASE Wake
  BY <1>0, <1>8 DEF Wake, TypeOK, SocketsRecycled, NoSocketYet, NotStarted, FeedInv, HeartbeatsConsecutive, NothingUnconnected, Connecting, Writable, Consecutive
<1>9. CASE Teardown
  BY <1>0, <1>9 DEF Teardown, Die, TypeOK, SocketsRecycled, NoSocketYet, NotStarted, FeedInv, HeartbeatsConsecutive, NothingUnconnected, Connecting, Writable, Consecutive
<1>10. CASE TimersIdle
  BY <1>0, <1>10 DEF TimersIdle, TypeOK, SocketsRecycled, NoSocketYet, NotStarted, FeedInv, HeartbeatsConsecutive, NothingUnconnected, Connecting, Writable, Consecutive
<1>11. CASE OnTimer
  <2>1. cur \in Sockets /\ cur # None
    BY <1>11, CurrentIsOpen, SendWorkerAssumption DEF OnTimer
  <2>2. wq[cur] \in Seq(Payload) /\ Consecutive(wq[cur])
    BY <1>0, <2>1 DEF TypeOK, FeedInv, HeartbeatsConsecutive
  <2>3. PICK p \in Payload : /\ p.dbw0 = num_
                             /\ \/ WriteQueued(p) \/ WriteTaken(p) \/ WriteStalled(p)
                                \/ WriteFailed \/ WriteRejected
    BY <1>11, <1>0 DEF OnTimer, Heartbeat, TypeOK, Payload
  <2>4. cur' = cur /\ num_' = NextNum(p.dbw0)
    BY <1>11, <2>3 DEF OnTimer, GetNum
  <2>5. CASE WriteQueued(p)
    <3>1. wq[cur] # <<>> => Follows(wq[cur][Len(wq[cur])], p)
      BY <2>1, <2>3 DEF FeedInv, HeartbeatsConsecutive, Follows
    <3>2. /\ Consecutive(Append(wq[cur], p))
          /\ Append(wq[cur], p) # <<>>
          /\ Append(wq[cur], p)[Len(Append(wq[cur], p))] = p
          /\ Append(wq[cur], p)[1] = IF wq[cur] = <<>> THEN p ELSE wq[cur][1]
      BY <2>2, <3>1, AppendConsecutive
    <3>3. wq'[cur] = Append(wq[cur], p) /\ conn' = conn /\ sent' = sent
      BY <1>0, <2>1, <2>5 DEF WriteQueued, TypeOK
    <3>4. sent # None /\ conn[cur] # "failed" =>
            IF wq[cur] = <<>> THEN Follows(sent, p) ELSE Follows(sent, wq[cur][1])
      BY <2>1, <2>3 DEF FeedInv, HeartbeatsConsecutive, Follows
    <3>5. HeartbeatsConsecutive'
      BY <2>1, <2>4, <3>2, <3>3, <3>4 DEF HeartbeatsConsecutive
    <3>6. NothingUnconnected'
      BY <2>1, <2>4, <2>5, <3>3 DEF FeedInv, NothingUnconnected, WriteQueued, Connecting
    <3> QED
      BY <3>5, <3>6 DEF FeedInv
  <2>6. CASE WriteTaken(p)
    BY <1>0, <2>1, <2>4, <2>6 DEF WriteTaken, FeedInv, HeartbeatsConsecutive, NothingUnconnected, TypeOK, Writable, Consecutive
  <2>7. CASE WriteStalled(p)
    <3>1. /\ wq'[cur] = <<p>> /\ conn' = conn /\ sent' = sent
          /\ wq[cur] = <<>> /\ conn[cur] \in Writable
      BY <1>0, <2>1, <2>7 DEF WriteStalled, TypeOK
    <3>2. sent # None /\ conn[cur] # "failed" => Follows(sent, p)
      BY <2>1, <2>3, <3>1 DEF FeedInv, HeartbeatsConsecutive, Follows
    <3>3. <<p>> # <<>> /\ Len(<<p>>) = 1 /\ <<p>>[1] = p
      OBVIOUS
    <3>4. Consecutive(<<p>>)
      BY <3>3 DEF Consecutive
    <3>5. HeartbeatsConsecutive'
      BY <2>1, <2>4, <3>1, <3>2, <3>3, <3>4 DEF HeartbeatsConsecutive
    <3>6. NothingUnconnected'
      BY <2>1, <2>4, <3>1 DEF NothingUnconnected, Writable
    <3> QED
      BY <3>5, <3>6 DEF FeedInv
  <2>8. CASE WriteFailed
    BY <1>0, <2>1, <2>4, <2>8 DEF WriteFailed, FeedInv, HeartbeatsConsecutive, NothingUnconnected, TypeOK
  <2>9. CASE WriteRejected
    BY <1>0, <2>1, <2>4, <2>9 DEF WriteRejected, FeedInv, HeartbeatsConsecutive, NothingUnconnected, TypeOK
  <2> QED
    BY <2>3, <2>5, <2>6, <2>7, <2>8, <2>9
<1>12. CASE PendingIdle
  BY <1>0, <1>12 DEF PendingIdle, TypeOK, SocketsRecycled, NoSocketYet, NotStarted, FeedInv, HeartbeatsConsecutive, NothingUnconnected, Connecting, Writable, Consecutive
<1>13. CASE PendingRun
  <2>1. cur \in Sockets /\ cur' = cur /\ num_' = num_
    BY <1>13, CurrentIsOpen DEF PendingRun
  <2>2. CASE HeadTaken \/ HeadFailed
    BY <1>0, <2>1, <2>2, HeadLeavesQueue
  <2>3. CASE UNCHANGED <<conn, wq, sent>>
    BY <2>1, <2>3 DEF FeedInv, HeartbeatsConsecutive, NothingUnconnected
  <2> QED
    BY <1>13, <2>2, <2>3 DEF PendingRun, HeadKept
<1>14. CASE PollConnected
  BY <1>0, <1>14 DEF PollConnected, TypeOK, SocketsRecycled, NoSocketYet, NotStarted, FeedInv, HeartbeatsConsecutive, NothingUnconnected, Connecting, Writable, Consecutive
<1>15. CASE PollRefused
  BY <1>0, <1>15 DEF PollRefused, ConnectFailed, TypeOK, SocketsRecycled, NoSocketYet, NotStarted, FeedInv, HeartbeatsConsecutive, NothingUnconnected, Connecting, Writable, Consecutive
<1>16. CASE PollWrite
  <2>1. cur \in Sockets /\ cur' = cur /\ num_' = num_
    BY <1>16, CurrentIsOpen DEF PollWrite
  <2> QED
    BY <1>16, <1>0, <2>1, HeadLeavesQueue DEF PollWrite
<1>17. CASE PollIdle
  BY <1>0, <1>17 DEF PollIdle, TypeOK, SocketsRecycled, NoSocketYet, NotStarted, FeedInv, HeartbeatsConsecutive, NothingUnconnected, Connecting, Writable, Consecutive
<1>18. CASE Closing
  BY <1>0, <1>18 DEF Closing, TypeOK, SocketsRecycled, NoSocketYet, NotStarted, FeedInv, HeartbeatsConsecutive, NothingUnconnected, Connecting, Writable, Consecutive
<1>19. CASE Network
  BY <1>0, <1>19 DEF Network, PeerAnswers, PeerRefuses, PeerCloses, PeerResets, Moves, TypeOK, SocketsRecycled, NoSocketYet, NotStarted, FeedInv, HeartbeatsConsecutive, NothingUnconnected, Connecting, Writable, Consecutive
<1>20. CASE UNCHANGED vars
  BY <1>20 DEF vars, FeedInv, HeartbeatsConsecutive, NothingUnconnected, Connecting, Writable, Consecutive
<1> QED
  BY <1>1, <1>2, <1>3, <1>4, <1>5, <1>6, <1>7, <1>8, <1>9, <1>10, <1>11, <1>12, <1>13, <1>14, <1>15, <1>16, <1>17, <1>18, <1>19, <1>20 DEF Next, Main, Worker, Dead

-----------------------------------------------------------------------------
(***************************************************************************)
(* The theorems.                                                           *)
(***************************************************************************)

LEMMA SocketInvariant == Spec => []SocketInv
  BY SocketInvInit, SocketInvNext, PTL DEF Spec

(* Every variable keeps its type, whatever the sizes. *)
THEOREM TypeCorrect == Spec => []TypeOK
<1>1. SocketInv => TypeOK
  BY DEF SocketInv
<1> QED
  BY <1>1, SocketInvariant, PTL

(* conn_struct.socket is always a live handle, and reconnects never hold   *)
(* more than two blocks, over any number of losses and reconnects.         *)
THEOREM SocketsAlwaysRecycled == Spec => []SocketsRecycled
<1>1. SocketInv => SocketsRecycled
  BY DEF SocketInv
<1> QED
  BY <1>1, SocketInvariant, PTL

(* Two blocks are enough: when the worker is about to make a socket, every *)
(* block but the one it holds has been freed, so the model's choice of a   *)
(* free block never waits where malloc would not.                          *)
THEOREM TwoBlocksSuffice ==
  Spec => [](pc = "dial" => \A s \in Sockets \ {cur} : handle[s] = "free")
<1>1. SocketInv => (pc = "dial" => \A s \in Sockets \ {cur} : handle[s] = "free")
  BY DEF SocketInv, SocketsRecycled, RunPhases
<1> QED
  BY <1>1, SocketInvariant, PTL

(* Stop's uv_loop_close never succeeds on a loop the worker has used.      *)
THEOREM LoopNotClosedInUse == Spec => []LoopOutlivesWorker
<1>1. Init => LoopOutlivesWorker
  BY DEF Init, LoopOutlivesWorker
<1> QED
  BY <1>1, SocketInvariant, LoopNext, PTL DEF Spec

LEMMA StatusInvariant == Spec => []StatusInv
<1>1. Init => StatusInv
  BY SendWorkerAssumption DEF Init, StatusInv, CallbackHasTimer, ConnectedIsBeating,
       ResultDue, FailureIsReported, ErrorIsFinal, StatusOfConnection
<1> QED
  BY <1>1, SocketInvariant, StatusNext, PTL DEF Spec

(* send_heartbeat_cb never stops a timer that was not made.                *)
THEOREM CallbackAlwaysHasTimer == Spec => []CallbackHasTimer
<1>1. StatusInv => CallbackHasTimer
  BY DEF StatusInv
<1> QED
  BY <1>1, StatusInvariant, PTL

(* A connection reported as up is being probed by heartbeats.              *)
THEOREM ConnectedAlwaysBeats == Spec => []ConnectedIsBeating
<1>1. StatusInv => ConnectedIsBeating
  BY DEF StatusInv
<1> QED
  BY <1>1, StatusInvariant, PTL

(* A lost link is always followed by a new socket.                         *)
THEOREM LossAlwaysRedials == Spec => LossForcesRedial
<1>1. SocketInv /\ StatusInv /\ [Next]_vars => [RedialsOnLoss]_vars
  BY RedialStep
<1> QED
  BY <1>1, SocketInvariant, StatusInvariant, PTL DEF Spec, LossForcesRedial, RedialsOnLoss

LEMMA FeedInvariant == Spec => []FeedInv
<1>1. Init => FeedInv
  BY DEF Init, FeedInv, HeartbeatsConsecutive, NothingUnconnected
<1> QED
  BY <1>1, SocketInvariant, FeedNextStep, PTL DEF Spec

(* Per connection the controller hears consecutive numbers, however many   *)
(* writes pile up.                                                         *)
THEOREM FeedAlwaysConsecutive == Spec => []HeartbeatsConsecutive
<1>1. FeedInv => HeartbeatsConsecutive
  BY DEF FeedInv
<1> QED
  BY <1>1, FeedInvariant, PTL

(* Where uv_tcp_connect cannot fail at once, status 0 always has a connect *)
(* in flight that on_connect will end.                                     *)
THEOREM ConnectingAlwaysInFlight ==
  ASSUME SyncErrors = FALSE
  PROVE  Spec => []ConnectingIsInFlight
<1>1. Init => ConnectingIsInFlight
  BY DEF Init, ConnectingIsInFlight
<1>2. SocketInv /\ ConnectingIsInFlight /\ [Next]_vars => ConnectingIsInFlight'
  BY FlightNext
<1> QED
  BY <1>1, <1>2, SocketInvariant, PTL DEF Spec

(* Only on_timer draws a number, and only by GetNum. *)
LEMMA NumberStep == [Next]_vars => [GetNum]_num_
<1> SUFFICES ASSUME [Next]_vars PROVE GetNum \/ num_' = num_
  OBVIOUS
<1> USE DEF mainVars, sockVars, sendVars
<1>1. CASE Main
  BY <1>1 DEF Main, Start, StopSet, StopCloseLoop
<1>2. CASE OnTimer
  BY <1>2 DEF OnTimer
<1>3. CASE Worker /\ ~OnTimer
  BY <1>3 DEF Worker, Check, StayConnected, Dial, DialOnClosedLoop, Wake, Teardown,
       TimersIdle, PendingIdle, PendingRun, PollConnected, PollRefused, PollWrite, PollIdle,
       Closing, HeadTaken, HeadFailed, HeadKept
<1>4. CASE Network
  BY <1>4 DEF Network, PeerAnswers, PeerRefuses, PeerCloses, PeerResets, Moves
<1>5. CASE UNCHANGED vars \/ Dead
  BY <1>5 DEF vars, Dead
<1> QED
  BY <1>1, <1>2, <1>3, <1>4, <1>5 DEF Next

(* Whatever becomes of the heartbeats, their numbers count up by one and   *)
(* restart at zero after the last.                                         *)
THEOREM WorkerRestartsAfterLast == Spec => RestartsAfterLast
<1>1. Init => GenInit
  BY DEF Init
<1> QED
  BY <1>1, NumberStep, AlwaysRestartsAfterLast, PTL DEF Spec, GenSpec

=============================================================================
