----------------------------- MODULE SendWorker -----------------------------
(***************************************************************************)
(* L1SendWorker (src/src/l1_send_worker.cc): the thread that connects to   *)
(* the L1 controller, sends it a heartbeat on a timer and reconnects when  *)
(* a heartbeat cannot be written.                                          *)
(*                                                                         *)
(* One process, three actors.  The worker thread runs the loop of          *)
(* thread_task; one round is                                               *)
(*     check -> dial -> sleep -> timers -> pending -> poll -> closing      *)
(* where the last four are the phases of uv_run(UV_RUN_NOWAIT) in libuv    *)
(* 1.38, in their order, with the callbacks each phase makes.  The main    *)
(* thread calls Start and Stop.  The network moves every open socket.      *)
(*                                                                         *)
(* libuv is external: it is modelled from how this code uses it (what each *)
(* call does to a handle, when it calls back, with which status).          *)
(***************************************************************************)
EXTENDS NumGenerator, Integers, Sequences, FiniteSets

CONSTANTS
  Sockets,     \* blocks malloc can hand out for a uv_tcp_t
  None,        \* nullptr, and "nothing sent yet"
  MaxQueued,   \* bound: writes the network lets pile up behind a full socket
  SyncErrors   \* may uv_tcp_connect fail at once (no route, no descriptor)?

(* A heartbeat: dbw0 and bit 0 of dbw2 ("signal with heartbeat").          *)
Payload == [dbw0 : Nums, signal : BOOLEAN]

ASSUME SendWorkerAssumption ==
  /\ None \notin Sockets \cup Payload
  /\ MaxQueued \in Nat \ {0}
  /\ SyncErrors \in BOOLEAN

VARIABLES
  pc,          \* where the worker thread is
  mpc,         \* where the main thread is in Start/Stop
  stop,        \* stop_, shared by the two threads
  loop,        \* the static loop of GetLoop: "none", "open" or "closed"
  status,      \* conn_struct.status: -1, 0 or 1
  cur,         \* conn_struct.socket, equal to thread_task's local socket
  handle,      \* [Sockets -> "free" | "open" | "closing"] life of each block
  conn,        \* [Sockets -> ConnStates] its connection
  wq,          \* [Sockets -> Seq(Payload)] its libuv write queue
  fed,         \* is the current socket's watcher in the loop's pending queue?
  done,        \* uv_write's immediate outcome, reported in the pending phase
  timer,       \* conn_struct.timer
  sent         \* last payload the kernel took on this connection, or None

mainVars == <<mpc, stop>>
sockVars == <<cur, handle, conn, wq>>
sendVars == <<fed, done, sent, num_>>
vars == <<pc, mainVars, loop, status, sockVars, timer, sendVars>>

(***************************************************************************)
(* A connection is "trying" from uv_tcp_connect until the handshake is     *)
(* decided ("answered", "refused"); on_connect reports that in the next    *)
(* poll phase.  "up" is a live link, "fin" one the peer has closed, which  *)
(* still takes writes, "reset" one whose next write fails, "failed" one    *)
(* whose error libuv has reported.  When uv_tcp_connect itself fails there *)
(* is no connect request: "unrouted" has a descriptor, "nofd" has none.    *)
(***************************************************************************)
ConnStates  == {"none", "trying", "answered", "refused", "unrouted", "nofd",
                "up", "fin", "reset", "failed"}
Connecting  == {"trying", "answered", "refused"}   \* connect_req is set
Writable    == {"up", "fin"}
Established == {"up", "fin", "reset"}

RunPhases == {"timers", "pending", "poll", "closing"}

Init ==
  /\ GenInit
  /\ pc = "none" /\ mpc = "init" /\ stop = FALSE
  /\ loop = "none"
  /\ status = -1
  /\ cur = None
  /\ handle = [s \in Sockets |-> "free"]
  /\ conn   = [s \in Sockets |-> "none"]
  /\ wq     = [s \in Sockets |-> <<>>]
  /\ fed = FALSE /\ done = "none" /\ sent = None
  /\ timer = "none"

-----------------------------------------------------------------------------
(***************************************************************************)
(* The main thread.                                                        *)
(***************************************************************************)

(* bool Start(): clear stop_ and create the thread. *)
Start ==
  /\ mpc = "init"
  /\ stop' = FALSE
  /\ pc' = "check"
  /\ mpc' = "running"
  /\ UNCHANGED <<loop, status, sockVars, timer, sendVars>>

(* bool Stop(), first statement. *)
StopSet ==
  /\ mpc = "running"
  /\ stop' = TRUE
  /\ mpc' = "stopping"
  /\ UNCHANGED <<pc, loop, status, sockVars, timer, sendVars>>

(* uv_loop_close refuses (UV_EBUSY) while a handle is linked in the loop.  *)
(* The timer stays linked: it is freed without uv_close.                   *)
LoopBusy == timer # "none" \/ \E s \in Sockets : handle[s] # "free"

(* Mutant of LoopLeft: Stop deletes the loop whatever uv_loop_close says. *)
LoopDeleted == "closed"

(* What Stop leaves of the loop: UV_EBUSY is ignored. *)
LoopLeft == IF LoopBusy THEN loop ELSE "closed"

(* Stop, its uv_loop_close: GetLoop makes a loop when there is none.  Then *)
(* the main thread waits in uv_thread_join.                                *)
StopCloseLoop ==
  /\ mpc = "stopping"
  /\ loop' = LoopLeft
  /\ mpc' = "joining"
  /\ UNCHANGED <<pc, stop, status, sockVars, timer, sendVars>>

-----------------------------------------------------------------------------
(***************************************************************************)
(* The worker thread outside uv_run.                                       *)
(***************************************************************************)

(* The process is gone: an abort or a fault takes both threads. *)
Die == pc' = "dead" /\ mpc' = "dead"

(* while (false == pthis->Stopped()) *)
Check ==
  /\ pc = "check"
  /\ pc' = IF stop THEN "teardown" ELSE "dial"
  /\ UNCHANGED <<mainVars, loop, status, sockVars, timer, sendVars>>

(* The status is not -1: no reconnect this round. *)
StayConnected ==
  /\ pc = "dial" /\ status # -1
  /\ pc' = "sleep"
  /\ UNCHANGED <<mainVars, loop, status, sockVars, timer, sendVars>>

(* Mutant of Retired: the old socket is replaced without uv_close. *)
Forgotten(s) == [handle EXCEPT ![s] = "open"]

(* uv_close of the old socket, if any, and uv_tcp_init of the new one. *)
Retired(s) ==
  [t \in Sockets |-> IF t = s THEN "open" ELSE IF t = cur THEN "closing" ELSE handle[t]]

(* The reconnect block: status 0, uv_close of the old socket (which leaves *)
(* the pending queue), a new socket, uv_tcp_connect.  Its return value is  *)
(* dropped: after an immediate error no callback will ever come.           *)
Dial ==
  /\ pc = "dial" /\ status = -1
  /\ loop # "closed"
  /\ loop' = "open"
  /\ status' = 0
  /\ \E s \in {t \in Sockets : handle[t] = "free"},
        c \in {"trying"} \cup (IF SyncErrors THEN {"unrouted", "nofd"} ELSE {}) :
       /\ cur' = s
       /\ handle' = Retired(s)
       /\ conn' = [conn EXCEPT ![s] = c]
  /\ fed' = FALSE
  /\ sent' = None
  /\ pc' = "sleep"
  /\ UNCHANGED <<mainVars, wq, done, timer, num_>>

(* uv_tcp_init on a loop that Stop has closed (and wiped): a fault. *)
DialOnClosedLoop ==
  /\ pc = "dial" /\ status = -1
  /\ loop = "closed"
  /\ Die
  /\ UNCHANGED <<stop, loop, status, sockVars, timer, sendVars>>

(* sleep_for 100 ms or 1000 ms, then uv_run. *)
Wake ==
  /\ pc = "sleep"
  /\ pc' = "timers"
  /\ UNCHANGED <<mainVars, loop, status, sockVars, timer, sendVars>>

(* After the loop: uv_close of the uv_connect_t, which is a request and no *)
(* handle.  Its handle type reads as the untouched (zero) words of a fresh *)
(* block, so libuv's assertion ends the process before the socket and the  *)
(* timer are released.                                                     *)
Teardown ==
  /\ pc = "teardown"
  /\ Die
  /\ UNCHANGED <<stop, loop, status, sockVars, timer, sendVars>>

-----------------------------------------------------------------------------
(***************************************************************************)
(* uv_run, timers phase: on_timer and the immediate attempt of uv_write.   *)
(***************************************************************************)

(* No timer is due: none runs, or the first 5000 ms are not over.  A       *)
(* repeating timer (1 ms) is due in every round, the rounds being 100 ms.  *)
TimersIdle ==
  /\ pc = "timers" /\ timer # "repeating"
  /\ pc' = "pending"
  /\ UNCHANGED <<mainVars, loop, status, sockVars, timer, sendVars>>

(* uv_write behind a connect request or other writes: queued. *)
WriteQueued(p) ==
  /\ conn[cur] \in Connecting \/ wq[cur] # <<>>
  /\ wq' = [wq EXCEPT ![cur] = Append(@, p)]
  /\ UNCHANGED <<conn, fed, done, sent>>

(* uv_write on an idle stream tries the socket at once: taken ... *)
WriteTaken(p) ==
  /\ conn[cur] \in Writable /\ wq[cur] = <<>>
  /\ sent' = p
  /\ done' = "ok" /\ fed' = TRUE
  /\ UNCHANGED <<conn, wq>>

(* ... or the socket is full ... *)
WriteStalled(p) ==
  /\ conn[cur] \in Writable /\ wq[cur] = <<>>
  /\ wq' = [wq EXCEPT ![cur] = <<p>>]
  /\ UNCHANGED <<conn, fed, done, sent>>

(* ... or the write fails, which the pending phase reports. *)
WriteFailed ==
  /\ conn[cur] \in {"reset", "unrouted"} /\ wq[cur] = <<>>
  /\ conn' = [conn EXCEPT ![cur] = "failed"]
  /\ done' = "err" /\ fed' = TRUE
  /\ UNCHANGED <<wq, sent>>

(* No descriptor: uv_write returns an error, which on_timer drops.  Nobody *)
(* is called back and the payload leaks.                                   *)
WriteRejected ==
  /\ conn[cur] = "nofd"
  /\ UNCHANGED <<conn, wq, fed, done, sent>>

(* Mutant of Heartbeat: the number after it was advanced. *)
AdvancedHeartbeat(bit) == [dbw0 |-> NextNum(num_), signal |-> bit]

(* The malloced payload: only dbw0 is written, the other words are what    *)
(* the block held.                                                         *)
Heartbeat(bit) == [dbw0 |-> num_, signal |-> bit]

(* on_timer: draw a number, make the payload and write it. *)
OnTimer ==
  /\ pc = "timers" /\ timer \in {"armed", "repeating"}
  /\ timer' = "repeating"
  /\ GetNum
  /\ \E bit \in BOOLEAN :
       LET p == Heartbeat(bit)
       IN  \/ WriteQueued(p) \/ WriteTaken(p) \/ WriteStalled(p)
           \/ WriteFailed \/ WriteRejected
  /\ pc' = "pending"
  /\ UNCHANGED <<mainVars, loop, status, cur, handle>>

-----------------------------------------------------------------------------
(***************************************************************************)
(* uv_run, pending and poll phases: uv__stream_io of the current socket.   *)
(***************************************************************************)

(* Mutants of HeartbeatFailed: the timer is stopped but the status kept;   *)
(* the timer is also freed and its pointer cleared.                        *)
HeartbeatGivenUp == UNCHANGED status /\ timer' = "stopped"
HeartbeatDiscarded == status' = -1 /\ timer' = "none"

(* send_heartbeat_cb with status < 0. *)
HeartbeatFailed == status' = -1 /\ timer' = "stopped"

(* Write the head of the queue: taken, so its callback reports success and *)
(* the watcher is fed to the next pending phase ...                        *)
HeadTaken ==
  /\ conn[cur] \in Writable /\ wq[cur] # <<>>
  /\ sent' = Head(wq[cur])
  /\ wq' = [wq EXCEPT ![cur] = Tail(@)]
  /\ fed' = TRUE
  /\ UNCHANGED <<status, timer, conn>>

(* ... or failed: only the head is reported, the rest stays queued.        *)
HeadFailed ==
  /\ conn[cur] = "reset" /\ wq[cur] # <<>>
  /\ wq' = [wq EXCEPT ![cur] = Tail(@)]
  /\ conn' = [conn EXCEPT ![cur] = "failed"]
  /\ fed' = TRUE
  /\ HeartbeatFailed
  /\ UNCHANGED sent

(* Nothing to write, or (EAGAIN) no room for it. *)
HeadKept ==
  /\ wq[cur] = <<>> \/ conn[cur] \in Writable
  /\ UNCHANGED <<status, timer, conn, wq, sent>>

PendingIdle ==
  /\ pc = "pending" /\ ~fed
  /\ pc' = "poll"
  /\ UNCHANGED <<mainVars, loop, status, sockVars, timer, sendVars>>

(* A fed watcher: try the queue, then run the callbacks of what completed. *)
PendingRun ==
  /\ pc = "pending" /\ fed
  /\ IF done = "err"
     THEN HeartbeatFailed /\ fed' = FALSE /\ UNCHANGED <<conn, wq, sent>>
     ELSE HeadTaken \/ HeadFailed \/ (HeadKept /\ fed' = FALSE)
  /\ done' = "none"
  /\ pc' = "poll"
  /\ UNCHANGED <<mainVars, loop, cur, handle, num_>>

(* on_connect with status 0: stop and free the old timer, start a new one. *)
PollConnected ==
  /\ pc = "poll" /\ conn[cur] = "answered"
  /\ conn' = [conn EXCEPT ![cur] = "up"]
  /\ status' = 1
  /\ timer' = "armed"
  /\ pc' = "closing"
  /\ UNCHANGED <<mainVars, loop, cur, handle, wq, sendVars>>

(* Mutant of ConnectFailed: the error is only logged. *)
ConnectIgnored == UNCHANGED status

(* on_connect with status < 0. *)
ConnectFailed == status' = -1

(* A refused connect is reported; libuv then cancels the writes queued on  *)
(* the socket, each with its send_heartbeat_cb.                            *)
PollRefused ==
  /\ pc = "poll" /\ conn[cur] = "refused"
  /\ conn' = [conn EXCEPT ![cur] = "failed"]
  /\ wq' = [wq EXCEPT ![cur] = <<>>]
  /\ ConnectFailed
  /\ timer' = IF wq[cur] # <<>> THEN "stopped" ELSE timer
  /\ pc' = "closing"
  /\ UNCHANGED <<mainVars, loop, cur, handle, sendVars>>

(* The socket is writable or in error: one attempt at the queue. *)
PollWrite ==
  /\ pc = "poll"
  /\ HeadTaken \/ HeadFailed
  /\ pc' = "closing"
  /\ UNCHANGED <<mainVars, loop, cur, handle, done, num_>>

(* No event on the socket.  The bound: a full socket makes room, and a     *)
(* connect in flight is decided, before MaxQueued + 1 writes wait.         *)
PollIdle ==
  /\ pc = "poll"
  /\ \/ conn[cur] \in {"unrouted", "nofd", "failed"}
     \/ conn[cur] \in Established /\ wq[cur] = <<>>
     \/ conn[cur] \in Writable \cup {"trying"} /\ Len(wq[cur]) < MaxQueued
  /\ pc' = "closing"
  /\ UNCHANGED <<mainVars, loop, status, sockVars, timer, sendVars>>

(* uv_run, closing phase: each closing socket is destroyed.  A connect in  *)
(* flight gets on_connect(UV_ECANCELED), queued writes their callback with *)
(* UV_ECANCELED, both of which act on the one conn_struct; on_close frees. *)
Closing ==
  /\ pc = "closing"
  /\ LET old  == {s \in Sockets : handle[s] = "closing"}
         lost == {s \in old : wq[s] # <<>>}
     IN  /\ status' = IF lost # {} \/ \E s \in old : conn[s] \in Connecting
                      THEN -1 ELSE status
         /\ timer'  = IF lost # {} THEN "stopped" ELSE timer
         /\ handle' = [s \in Sockets |-> IF s \in old THEN "free" ELSE handle[s]]
         /\ conn'   = [s \in Sockets |-> IF s \in old THEN "none" ELSE conn[s]]
         /\ wq'     = [s \in Sockets |-> IF s \in old THEN <<>> ELSE wq[s]]
  /\ pc' = "check"
  /\ UNCHANGED <<mainVars, loop, cur, sendVars>>

-----------------------------------------------------------------------------
(***************************************************************************)
(* The network and the L1 controller, at any moment, on an open socket.    *)
(***************************************************************************)

Moves(s, from, to) ==
  /\ pc # "dead"
  /\ handle[s] = "open" /\ conn[s] \in from
  /\ conn' = [conn EXCEPT ![s] = to]
  /\ UNCHANGED <<pc, mainVars, loop, status, cur, handle, wq, timer, sendVars>>

PeerAnswers(s) == Moves(s, {"trying"}, "answered")
PeerRefuses(s) == Moves(s, {"trying"}, "refused")      \* or the SYN times out
PeerCloses(s)  == Moves(s, {"up"}, "fin")
PeerResets(s)  == Moves(s, {"up", "fin"}, "reset")     \* or the link times out

-----------------------------------------------------------------------------

Main == Start \/ StopSet \/ StopCloseLoop

Worker ==
  \/ Check \/ StayConnected \/ Dial \/ DialOnClosedLoop \/ Wake \/ Teardown
  \/ TimersIdle \/ OnTimer \/ PendingIdle \/ PendingRun
  \/ PollConnected \/ PollRefused \/ PollWrite \/ PollIdle \/ Closing

Network ==
  \E s \in Sockets :
    PeerAnswers(s) \/ PeerRefuses(s) \/ PeerCloses(s) \/ PeerResets(s)

(* The process has ended. *)
Dead == pc = "dead" /\ UNCHANGED vars

Next == Main \/ Worker \/ Network \/ Dead

Spec == Init /\ [][Next]_vars

(***************************************************************************)
(* Fairness.  Both threads are scheduled; a running timer fires once its   *)
(* 5000 ms are over (SF: rounds come and go while it waits); the kernel    *)
(* gives up an unanswered connect; heartbeats written to a closed peer are *)
(* answered by a reset.                                                    *)
(***************************************************************************)
Fairness ==
  /\ WF_vars(Worker)
  /\ WF_vars(StopCloseLoop)
  /\ SF_vars(OnTimer)
  /\ \A s \in Sockets : /\ WF_vars(PeerRefuses(s))
                        /\ WF_vars(conn[s] = "fin" /\ PeerResets(s))

(* The controller is there: while the worker sleeps (1000 ms) it answers   *)
(* the connect in flight, not every time but again and again.              *)
PeerAnswersInSleep(s) == pc = "sleep" /\ PeerAnswers(s)
PeerReachable == \A s \in Sockets : SF_vars(PeerAnswersInSleep(s))

FairSpec == Spec /\ Fairness /\ PeerReachable

-----------------------------------------------------------------------------
(***************************************************************************)
(* Properties.                                                             *)
(***************************************************************************)

TypeOK ==
  /\ num_ \in Nums
  /\ pc \in {"none", "check", "dial", "sleep", "teardown", "dead"} \cup RunPhases
  /\ mpc \in {"init", "running", "stopping", "joining", "dead"}
  /\ stop \in BOOLEAN
  /\ loop \in {"none", "open", "closed"}
  /\ status \in {-1, 0, 1}
  /\ cur \in Sockets \cup {None}
  /\ handle \in [Sockets -> {"free", "open", "closing"}]
  /\ conn \in [Sockets -> ConnStates]
  /\ wq \in [Sockets -> Seq(Payload)]
  /\ fed \in BOOLEAN
  /\ done \in {"none", "ok", "err"}
  /\ timer \in {"none", "stopped", "armed", "repeating"}
  /\ sent \in Payload \cup {None}

(* Handles across reconnects: conn_struct.socket, which on_timer writes to *)
(* and the reconnect block closes, is always a live handle that has not    *)
(* been closed; every other block is free or on its way out; and what a    *)
(* reconnect closes is freed before the next one, so two blocks suffice.   *)
SocketsRecycled ==
  /\ cur = None => pc \in {"none", "check", "dial", "teardown", "dead"}
  /\ cur # None => handle[cur] = "open"
  /\ \A s \in Sockets \ {cur} :
       \/ handle[s] = "free" /\ conn[s] = "none" /\ wq[s] = <<>>
       \/ handle[s] = "closing" /\ pc \in {"sleep"} \cup RunPhases \cup {"dead"}
  /\ \A s, t \in Sockets \ {cur} :
       handle[s] = "closing" /\ handle[t] = "closing" => s = t

(* send_heartbeat_cb dereferences conn_struct.timer without a test: while  *)
(* any write can still fail, on the current socket or on one being closed, *)
(* a timer has been made.                                                  *)
CallbackHasTimer ==
  (done # "none" \/ \E s \in Sockets : wq[s] # <<>>) => timer # "none"

(* Status 1 promises a completed handshake on the current socket and a     *)
(* running heartbeat timer: that timer is the only thing that can notice a *)
(* lost link, a connection without it would look healthy for ever.         *)
ConnectedIsBeating ==
  status = 1 => /\ cur # None /\ timer \in {"armed", "repeating"}
                /\ conn[cur] \in Established \/ done = "err"

(* A payload carries the number handed out right after the given one.      *)
Follows(p, q) == q.dbw0 = NextNum(p.dbw0)

Consecutive(q) == \A i \in 1 .. Len(q) - 1 : Follows(q[i], q[i + 1])

(* What the peer hears on one connection is consecutive: the heartbeat the *)
(* kernel took last, those queued behind it and the generator's next       *)
(* number form one run without gap, repetition or reordering, across       *)
(* stalls and stale timers, until the connection's first write error.      *)
HeartbeatsConsecutive ==
  cur # None =>
    LET q == wq[cur]
    IN  /\ Consecutive(q)
        /\ q # <<>> => num_ = NextNum(q[Len(q)].dbw0)
        /\ sent # None /\ conn[cur] # "failed" =>
             IF q # <<>> THEN Follows(sent, q[1]) ELSE num_ = NextNum(sent.dbw0)

(* Stop's uv_loop_close never takes the loop from a worker that uses it:   *)
(* it succeeds only before the worker's first socket, and the worker is    *)
(* then not inside uv_run.                                                 *)
LoopOutlivesWorker ==
  loop = "closed" => /\ cur = None
                     /\ pc \in {"none", "check", "dial", "teardown", "dead"}

(* A lost link is never papered over: status leaves -1 only for 0, in the  *)
(* step that retires the socket in use (if any) for a new one.  A connect  *)
(* that succeeds late, or a callback of an older socket, cannot set it.    *)
LossForcesRedial ==
  [][status = -1 /\ status' # -1 =>
       /\ status' = 0 /\ cur' # cur
       /\ cur # None => handle'[cur] = "closing"]_vars

(* A peer that closed or reset the connection is noticed, though nothing   *)
(* is ever read: some heartbeat fails, unless the program stops.           *)
LinkLost == status = 1 /\ conn[cur] \in {"fin", "reset"}
DeadPeerNoticed == LinkLost ~> status # 1 \/ pc = "dead"

(* Against a reachable controller the worker connects again and again,     *)
(* whatever refusals, closed links and cancelled requests lie between.     *)
KeepsConnecting == <>stop \/ (mpc # "init" ~> status = 1)

(***************************************************************************)
(* The refinement: a session is down as soon as its first error is known   *)
(* to libuv (the callback that stores -1 may run a phase later); payloads  *)
(* are heard as their numbers.                                             *)
(***************************************************************************)
Broken == cur = None \/ status = -1 \/ conn[cur] \in {"unrouted", "nofd", "failed"}
Link   == IF Broken THEN "down" ELSE IF status = 0 THEN "dialing" ELSE "up"

Numbers(q) == [i \in DOMAIN q |-> q[i].dbw0]
Waiting == IF cur = None THEN <<>> ELSE Numbers(wq[cur])
Heard   == IF sent = None THEN None ELSE sent.dbw0

Feed == INSTANCE HeartbeatFeed WITH
  Nothing <- None, link <- Link, waiting <- Waiting, heard <- Heard

(* Every behaviour of the worker is one of the promised feed: consecutive  *)
(* numbers per session, sessions never mixed.                              *)
ImplementsFeed == Feed!FeedSpec

(* conn_struct's comment (l1_send_worker.cc:21) on status, "-1: disconnect;*)
(* 0: connecting; 1: connected".  Minus one: when the worker acts on it,   *)
(* the current socket has no working connection.                           *)
DisconnectMeansDown ==
  pc = "dial" /\ status = -1 /\ cur # None => conn[cur] # "up"

(* Zero: a connect of the current socket is in flight, so that on_connect  *)
(* will end it.                                                            *)
ConnectingIsInFlight == status = 0 => conn[cur] \in Connecting

(* dbw2's comment (l1.h:107-108): bit 0 is 0 in a plain heartbeat.         *)
HeartbeatIsPlain ==
  /\ \A s \in Sockets : \A i \in DOMAIN wq[s] : ~wq[s][i].signal
  /\ sent # None => ~sent.signal

(* doc/sequence.plantuml:15-16, Master stops the workers: Stop returns and *)
(* the process lives on to "end of main." (sample/main.cc:57).             *)
StopSurvives == pc # "dead"

=============================================================================
