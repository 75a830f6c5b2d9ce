------------------------ MODULE SendWorkerRefinement ------------------------
(***************************************************************************)
(* SendWorker implements HeartbeatFeed, for every value of the constants:  *)
(* the initial states map to initial states, and under the invariants of   *)
(* SendWorkerProofs every step maps to a step of the feed or to a stutter. *)
(***************************************************************************)
EXTENDS SendWorkerProofs

(* The numbers of a queue follow its payloads through Append, Head, Tail.  *)
LEMMA NumbersOfEmpty == Numbers(<<>>) = <<>>
  BY DEF Numbers

LEMMA NumbersOfAppend ==
  ASSUME NEW q \in Seq(Payload), NEW p \in Payload
  PROVE  Numbers(Append(q, p)) = Append(Numbers(q), p.dbw0)
  BY DEF Numbers, Payload

LEMMA NumbersOfTail ==
  ASSUME NEW q \in Seq(Payload), q # <<>>
  PROVE  /\ Numbers(q) # <<>>
         /\ Head(Numbers(q)) = Head(q).dbw0
         /\ Numbers(Tail(q)) = Tail(Numbers(q))
  BY DEF Numbers, Payload

LEMMA FeedInit == Init => Feed!FeedInit
  BY SendWorkerAssumption, NumbersOfEmpty
     DEF Init, Feed!FeedInit, Feed!GenInit, GenInit, Link, Broken, Waiting, Heard

(* Whatever leaves the socket, its queue and the status alone is a stutter. *)
LEMMA Stutters ==
  ASSUME UNCHANGED <<num_, status, cur, conn, wq, sent>>
  PROVE  UNCHANGED Feed!feedVars
  BY DEF Feed!feedVars, Link, Broken, Waiting, Heard

(* The head of the queue is heard, or lost together with the session.      *)
LEMMA HeadIsHeardOrLost ==
  ASSUME SocketInv, StatusInv, pc \in {"pending", "poll"}, done # "err",
         UNCHANGED <<cur, num_>>, HeadTaken \/ HeadFailed
  PROVE  Feed!Hear \/ Feed!Lose
<1> USE SendWorkerAssumption
<1>0. TypeOK
  BY DEF SocketInv
<1>1. cur \in Sockets /\ cur # None
  BY CurrentIsOpen DEF RunPhases
<1>2. wq[cur] \in Seq(Payload) /\ wq[cur] # <<>>
  BY <1>0, <1>1 DEF TypeOK, HeadTaken, HeadFailed
<1>3. wq'[cur] = Tail(wq[cur])
  BY <1>0, <1>1 DEF TypeOK, HeadTaken, HeadFailed
<1>4. Waiting # <<>> /\ Waiting' = Tail(Waiting) /\ Head(Waiting) = Head(wq[cur]).dbw0
  BY <1>1, <1>2, <1>3, NumbersOfTail DEF Waiting
<1>5. CASE HeadTaken
  <2>1. Link = "up" /\ Link' = "up"
    BY <1>0, <1>1, <1>5 DEF HeadTaken, Link, Broken, TypeOK, StatusInv, ErrorIsFinal,
         StatusOfConnection, Writable, Established
  <2>2. Heard' = Head(wq[cur]).dbw0
    <3>1. Head(wq[cur]) \in Payload
      BY <1>2, QueueOfPayloads
    <3> QED
      BY <1>5, <3>1 DEF HeadTaken, Heard
  <2> QED
    BY <1>4, <2>1, <2>2 DEF Feed!Hear
<1>6. CASE HeadFailed
  <2>1. Link' = "down" /\ Heard' = Heard
    BY <1>6 DEF HeadFailed, HeartbeatFailed, Link, Broken, Heard
  <2> QED
    BY <1>4, <2>1 DEF Feed!Lose
<1> QED
  BY <1>5, <1>6

(* Every step of the worker, of the main thread and of the network is a    *)
(* step of the feed or a stutter.                                          *)
LEMMA FeedStep ==
  SocketInv /\ StatusInv /\ FeedInv /\ [Next]_vars => [Feed!FeedNext]_(Feed!feedVars)
<1> SUFFICES ASSUME SocketInv, StatusInv, FeedInv, [Next]_vars
             PROVE  Feed!FeedNext \/ UNCHANGED Feed!feedVars
  OBVIOUS
<1> USE SendWorkerAssumption DEF mainVars, sockVars, sendVars
<1>0. TypeOK /\ SocketsRecycled
  BY DEF SocketInv
<1>1. CASE Start
  BY <1>1, Stutters DEF Start
<1>2. CASE StopSet
  BY <1>2, Stutters DEF StopSet
<1>3. CASE StopCloseLoop
  BY <1>3, Stutters DEF StopCloseLoop
<1>4. CASE Check
  BY <1>4, Stutters DEF Check
<1>5. CASE StayConnected
  BY <1>5, Stutters DEF StayConnected
<1>6. CASE DialOnClosedLoop
  BY <1>6, Stutters DEF DialOnClosedLoop
<1>7. CASE Wake
  BY <1>7, Stutters DEF Wake
<1>8. CASE Teardown
  BY <1>8, Stutters DEF Teardown
<1>9. CASE TimersIdle
  BY <1>9, Stutters DEF TimersIdle
<1>10. CASE PendingIdle
  BY <1>10, Stutters DEF PendingIdle
<1>11. CASE PollIdle
  BY <1>11, Stutters DEF PollIdle
<1>12. CASE Dial
  <2>1. PICK s \in Sockets, c \in {"trying", "unrouted", "nofd"} :
           /\ handle[s] = "free" /\ cur' = s /\ conn' = [conn EXCEPT ![s] = c]
    BY <1>12 DEF Dial
  <2>2. s # cur /\ wq[s] = <<>> /\ conn'[s] = c /\ s # None
    BY <1>0, <2>1 DEF SocketsRecycled, TypeOK
  <2>3. Link = "down" /\ Link' \in {"dialing", "down"}
    BY <1>12, <2>1, <2>2 DEF Dial, Link, Broken
  <2>4. Waiting' = <<>> /\ Heard' = None /\ num_' = num_
    BY <1>12, <2>1, <2>2, NumbersOfEmpty DEF Dial, Waiting, Heard
  <2> QED
    BY <2>3, <2>4 DEF Feed!Redial, Feed!FeedNext
<1>13. CASE OnTimer
  <2>1. cur \in Sockets /\ cur # None /\ cur' = cur /\ status' = status
    BY <1>13, CurrentIsOpen DEF OnTimer, RunPhases
  <2>2. PICK p \in Payload : /\ p.dbw0 = num_
                             /\ \/ WriteQueued(p) \/ WriteTaken(p) \/ WriteStalled(p)
                                \/ WriteFailed \/ WriteRejected
    BY <1>13, <1>0 DEF OnTimer, Heartbeat, TypeOK, Payload
  <2>3. Feed!GetNum
    BY <1>13 DEF OnTimer, GetNum, Feed!GetNum, NextNum, Feed!NextNum, Incremented, Feed!Incremented
  <2>4. status # -1 /\ conn[cur] # "failed"
    BY <1>13, <2>1 DEF OnTimer, StatusInv, ErrorIsFinal, FailureIsReported, ResultDue
  <2>5. wq[cur] \in Seq(Payload)
    BY <1>0, <2>1 DEF TypeOK
  <2>6. CASE WriteQueued(p)
    <3>1. Link # "down"
      BY <2>1, <2>4, <2>6 DEF Link, Broken, WriteQueued, FeedInv, NothingUnconnected, Connecting
    <3>2. wq'[cur] = Append(wq[cur], p) /\ conn' = conn /\ sent' = sent
      BY <1>0, <2>1, <2>6 DEF WriteQueued, TypeOK
    <3>3. Waiting' = Append(Waiting, num_)
      BY <2>1, <2>2, <2>5, <3>2, NumbersOfAppend DEF Waiting
    <3>4. Link' = Link /\ Heard' = Heard
      BY <2>1, <3>2 DEF Link, Broken, Heard
    <3> QED
      BY <2>3, <3>1, <3>3, <3>4 DEF Feed!Issue, Feed!FeedNext
  <2>7. CASE WriteTaken(p)
    <3>1. Link = "up" /\ Link' = "up"
      BY <1>0, <2>1, <2>4, <2>7 DEF WriteTaken, Link, Broken, StatusInv, StatusOfConnection,
           Writable, Established, TypeOK
    <3>2. Waiting = <<>> /\ Waiting' = Waiting /\ Heard' = num_
      BY <2>1, <2>2, <2>7, NumbersOfEmpty DEF WriteTaken, Waiting, Heard
    <3> QED
      BY <2>3, <3>1, <3>2 DEF Feed!Issue, Feed!FeedNext
  <2>8. CASE WriteStalled(p)
    <3>1. Link # "down"
      BY <2>1, <2>4, <2>8 DEF WriteStalled, Link, Broken, Writable
    <3>2. wq'[cur] = Append(wq[cur], p) /\ conn' = conn /\ sent' = sent
      BY <1>0, <2>1, <2>8 DEF WriteStalled, TypeOK
    <3>3. Waiting' = Append(Waiting, num_)
      BY <2>1, <2>2, <2>5, <3>2, NumbersOfAppend DEF Waiting
    <3>4. Link' = Link /\ Heard' = Heard
      BY <2>1, <3>2 DEF Link, Broken, Heard
    <3> QED
      BY <2>3, <3>1, <3>3, <3>4 DEF Feed!Issue, Feed!FeedNext
  <2>9. CASE WriteFailed \/ WriteRejected
    <3>1. Link' = "down"
      BY <1>0, <2>1, <2>9 DEF WriteFailed, WriteRejected, Link, Broken, TypeOK
    <3>2. Waiting' = Waiting /\ Heard' = Heard
      BY <2>1, <2>9 DEF WriteFailed, WriteRejected, Waiting, Heard
    <3> QED
      BY <2>3, <3>1, <3>2 DEF Feed!Lose, Feed!FeedNext
  <2> QED
    BY <2>2, <2>6, <2>7, <2>8, <2>9
<1>14. CASE PendingRun
  <2>1. cur \in Sockets /\ cur # None /\ cur' = cur /\ num_' = num_
    BY <1>14, CurrentIsOpen DEF PendingRun, RunPhases
  <2>2. CASE done = "err"
    <3>1. conn[cur] = "failed" /\ UNCHANGED <<conn, wq, sent>>
      BY <1>14, <2>2 DEF PendingRun, StatusInv, ResultDue
    <3>2. Link = "down" /\ Link' = "down"
      BY <2>1, <3>1 DEF Link, Broken
    <3>3. Waiting' = Waiting /\ Heard' = Heard
      BY <2>1, <3>1 DEF Waiting, Heard
    <3> QED
      BY <2>1, <3>2, <3>3 DEF Feed!feedVars
  <2>3. CASE done # "err" /\ (HeadTaken \/ HeadFailed)
    BY <1>14, <2>1, <2>3, HeadIsHeardOrLost DEF PendingRun, Feed!FeedNext
  <2>4. CASE done # "err" /\ HeadKept
    BY <1>14, <2>1, <2>4, Stutters DEF PendingRun, HeadKept
  <2> QED
    BY <1>14, <2>2, <2>3, <2>4 DEF PendingRun
<1>15. CASE PollConnected
  <2>1. cur \in Sockets /\ cur # None
    BY <1>15, CurrentIsOpen DEF PollConnected, RunPhases
  <2>2. Link = "dialing" /\ Link' = "up"
    BY <1>15, <1>0, <2>1 DEF PollConnected, Link, Broken, TypeOK, StatusInv, ErrorIsFinal,
         StatusOfConnection, Connecting
  <2>3. Waiting' = Waiting /\ Heard' = Heard /\ num_' = num_
    BY <1>15 DEF PollConnected, Waiting, Heard
  <2> QED
    BY <2>2, <2>3 DEF Feed!ComeUp, Feed!FeedNext
<1>16. CASE PollRefused
  <2>1. cur \in Sockets /\ cur # None
    BY <1>16, CurrentIsOpen DEF PollRefused, RunPhases
  <2>2. Link' = "down" /\ Waiting' = <<>>
    BY <1>16, <1>0, <2>1, NumbersOfEmpty DEF PollRefused, ConnectFailed, Link, Broken, Waiting, TypeOK
  <2>3. Heard' = Heard /\ num_' = num_
    BY <1>16 DEF PollRefused, Heard
  <2> QED
    BY <2>2, <2>3 DEF Feed!Lose, Feed!FeedNext
<1>17. CASE PollWrite
  <2>1. done # "err"
    BY <1>17 DEF PollWrite, StatusInv, ResultDue
  <2> QED
    BY <1>17, <2>1, HeadIsHeardOrLost DEF PollWrite, Feed!FeedNext
<1>18. CASE Closing
  <2>1. cur \in Sockets /\ cur # None /\ handle[cur] = "open"
    BY <1>18, CurrentIsOpen DEF Closing, RunPhases
  <2>2. cur' = cur /\ conn'[cur] = conn[cur] /\ wq'[cur] = wq[cur] /\ sent' = sent /\ num_' = num_
    BY <1>18, <1>0, <2>1 DEF Closing, TypeOK
  <2>3. Waiting' = Waiting /\ Heard' = Heard
    BY <2>1, <2>2 DEF Waiting, Heard
  <2>4. CASE status' = -1
    <3>1. Link' = "down"
      BY <2>4 DEF Link, Broken
    <3> QED
      BY <2>2, <2>3, <3>1 DEF Feed!Lose, Feed!FeedNext
  <2>5. CASE status' = status
    <3>1. Link' = Link
      BY <2>1, <2>2, <2>5 DEF Link, Broken
    <3> QED
      BY <2>2, <2>3, <3>1 DEF Feed!feedVars
  <2> QED
    BY <1>18, <2>4, <2>5 DEF Closing
<1>19. CASE Network
  <2>1. PICK s \in Sockets, c \in {"answered", "refused", "fin", "reset"} :
           /\ conn[s] \in {"trying", "up", "fin"} /\ conn' = [conn EXCEPT ![s] = c]
           /\ UNCHANGED <<status, cur, wq, sent, num_>>
    BY <1>19 DEF Network, PeerAnswers, PeerRefuses, PeerCloses, PeerResets, Moves
  <2>2. Link' = Link
    BY <1>0, <2>1 DEF Link, Broken, TypeOK
  <2>3. Waiting' = Waiting /\ Heard' = Heard
    BY <2>1 DEF Waiting, Heard
  <2> QED
    BY <2>1, <2>2, <2>3 DEF Feed!feedVars
<1>20. CASE UNCHANGED vars
  BY <1>20, Stutters DEF vars
<1> QED
  BY <1>1, <1>2, <1>3, <1>4, <1>5, <1>6, <1>7, <1>8, <1>9, <1>10, <1>11, <1>12, <1>13, <1>14, <1>15, <1>16, <1>17, <1>18, <1>19, <1>20 DEF Next, Main, Worker, Dead

(* Every behaviour of the worker, projected on the current session's state,*)
(* its queue and what the kernel took last, is one the feed allows.        *)
THEOREM FeedImplemented == Spec => ImplementsFeed
  BY FeedInit, FeedStep, SocketInvariant, StatusInvariant, FeedInvariant, PTL
     DEF Spec, ImplementsFeed, Feed!FeedSpec

FeedProofs == INSTANCE HeartbeatFeedProofs WITH
  Nothing <- None, link <- Link, waiting <- Waiting, heard <- Heard

(* What the feed promises holds of the code: while one connection stays    *)
(* up, the kernel takes consecutive heartbeat numbers, in order, whatever  *)
(* stalls, errors and reconnects lie between the timer's ticks.            *)
THEOREM ControllerHearsInOrder == Spec => FeedProofs!HeardInOrder
<1>1. Feed!FeedInit => FeedProofs!FeedInit
  BY DEF Feed!FeedInit, FeedProofs!FeedInit, Feed!GenInit, FeedProofs!GenInit
<1>2. [Feed!FeedNext]_(Feed!feedVars) => [FeedProofs!FeedNext]_(FeedProofs!feedVars)
  BY DEF Feed!feedVars, FeedProofs!feedVars, Feed!FeedNext, FeedProofs!FeedNext,
         Feed!Redial, FeedProofs!Redial, Feed!ComeUp, FeedProofs!ComeUp,
         Feed!Hear, FeedProofs!Hear, Feed!Issue, FeedProofs!Issue,
         Feed!Lose, FeedProofs!Lose, Feed!GetNum, FeedProofs!GetNum,
         Feed!NextNum, FeedProofs!NextNum, Feed!Incremented, FeedProofs!Incremented
<1>3. FeedProofs!FeedSpec => FeedProofs!HeardInOrder
  BY FeedProofs!FeedHeardInOrder, MaxOfTAssumption
<1> QED
  BY <1>1, <1>2, <1>3, FeedImplemented, PTL
     DEF ImplementsFeed, Feed!FeedSpec, FeedProofs!FeedSpec

=============================================================================
