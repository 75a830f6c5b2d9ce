---------------------------- MODULE ReceiveWorker ---------------------------
(***************************************************************************)
(* L1ReceiveWorker (src/src/l1_receive_worker.cc): the thread that listens *)
(* for L1 controllers, reads their requests and calls the registered       *)
(* callback for a signal.                                                  *)
(*                                                                         *)
(* Actors: the worker thread (thread_task and uv_run), the main thread     *)
(* (Start, Stop) and the controllers.  A connection is a stream: one read  *)
(* takes any prefix of what was sent, as far as the buffer holds it,       *)
(* counted in 16-bit words, while on_read takes every read for one         *)
(* request.                                                                *)
(***************************************************************************)
EXTENDS L1, Sequences, FiniteSets

CONSTANTS
  Clients,   \* connections the controllers make
  MaxSent,   \* bound: requests sent on a connection
  MaxStarts, \* bound: calls of Start
  Buffer,    \* words that the buffer of a read holds (64 KB)
  Numbers,   \* values of dbw0 that are sent
  Flags      \* values of dbw2 that are sent

ASSUME ReceiveWorkerAssumption ==
  /\ MaxSent \in Nat \ {0} /\ MaxStarts \in Nat \ {0} /\ Buffer \in Nat \ {0}
  /\ Numbers \cup Flags \subseteq DWORD

VARIABLES
  pc,        \* where the worker thread is
  mpc,       \* where the main thread is
  starts,    \* calls of Start
  stop,      \* stop_
  loop,      \* the static loop of GetLoop: "none", "open" or "closed"
  server,    \* the listening handle
  old,       \* does one of an earlier Start still wait for its on_close?
  conn,      \* [Clients -> life of the connection]
  inbox,     \* [Clients -> words, perhaps an end, not yet read]
  sent,      \* [Clients -> requests sent]
  todo,      \* clients, and accepting: is the server, still to be handled
  accepting, \*   in this poll phase
  again,     \* the client, if any, whose last read filled the buffer
  rung,      \* toggled by every call of the callback
  torn       \* clients with a read that was not a number of whole requests

threadVars == <<pc, mpc, starts, stop, loop>>
connVars   == <<server, old, conn, inbox, sent>>
pollVars   == <<todo, accepting, again>>
ghosts     == <<rung, torn>>
vars       == <<threadVars, connVars, pollVars, ghosts>>

(* A word knows its place in its request; an end is a FIN or an error. *)
Word    == [at : 0 .. 3, value : DWORD]
End     == [at |-> 4, value |-> 0]
(* Mutant of Request: the number is not narrowed to a DWORD. *)
WideRequest(num, bits) ==
  <<[at |-> 0, value |-> num + 2^16], [at |-> 1, value |-> bits],
    [at |-> 2, value |-> 0], [at |-> 3, value |-> 0]>>

(* The four words of an L1Request. *)
Request(num, bits) ==
  <<[at |-> 0, value |-> num], [at |-> 1, value |-> bits],
    [at |-> 2, value |-> 0], [at |-> 3, value |-> 0]>>

Ended(c) == inbox[c] # <<>> /\ inbox[c][Len(inbox[c])] = End
Backlog  == {c \in Clients : conn[c] = "backlog"}

(* Connections the poll finds readable. *)
Readable == {c \in Clients : conn[c] = "open" /\ inbox[c] # <<>>}

(* Is the server readable? *)
Acceptable == server = "listening" /\ Backlog # {}

Init ==
  /\ pc = "none" /\ mpc = "init" /\ starts = 0 /\ stop = FALSE /\ loop = "none"
  /\ server = "none" /\ old = FALSE
  /\ conn = [c \in Clients |-> "none"]
  /\ inbox = [c \in Clients |-> <<>>]
  /\ sent = [c \in Clients |-> 0]
  /\ todo = {} /\ accepting = FALSE /\ again = {}
  /\ rung = FALSE /\ torn = {}

-----------------------------------------------------------------------------
(* The main thread. *)

(* Also after Stop: the loop and what is left in it are static.  The bound *)
(* is on the calls, not on what happens between them.                      *)
Start ==
  /\ mpc \in {"init", "stopped"} /\ starts < MaxStarts
  /\ starts' = starts + 1
  /\ stop' = FALSE /\ pc' = "setup" /\ mpc' = "running"
  /\ UNCHANGED <<loop, connVars, pollVars, ghosts>>

StopSet ==
  /\ mpc = "running"
  /\ stop' = TRUE /\ mpc' = "stopping"
  /\ UNCHANGED <<pc, starts, loop, connVars, pollVars, ghosts>>

(* uv_loop_close refuses while a handle is linked in the loop. *)
LoopBusy ==
  \/ old \/ server \in {"listening", "mute", "closing"}
  \/ \E c \in Clients : conn[c] \in {"open", "closing"}

(* Mutant of LoopLeft: Stop deletes the loop whatever uv_loop_close says. *)
LoopDeleted == "closed"

(* What Stop leaves of the loop: UV_EBUSY is ignored. *)
LoopLeft == IF LoopBusy THEN loop ELSE "closed"

StopCloseLoop ==
  /\ mpc = "stopping"
  /\ loop' = LoopLeft
  /\ mpc' = "joining"
  /\ UNCHANGED <<pc, starts, stop, connVars, pollVars, ghosts>>

(* Mutant of ThreadEnded: Stop does not wait. *)
NotJoined == TRUE

(* uv_thread_join returns once thread_task has. *)
ThreadEnded == pc = "ended"

StopJoin ==
  /\ mpc = "joining" /\ ThreadEnded
  /\ mpc' = "stopped"
  /\ UNCHANGED <<pc, starts, stop, loop, connVars, pollVars, ghosts>>

-----------------------------------------------------------------------------
(* The worker thread. *)

Die == pc' = "dead" /\ mpc' = "dead"

(* uv_tcp_init, uv_tcp_bind, uv_listen.  A failure is only logged: the     *)
(* server then hears nobody.                                               *)
Listen ==
  /\ pc = "setup" /\ loop # "closed"
  /\ loop' = "open"
  /\ server' \in {"listening", "mute"}
  /\ old' = (old \/ server = "closing")
  /\ pc' = "check"
  /\ UNCHANGED <<mpc, starts, stop, conn, inbox, sent, pollVars, ghosts>>

(* The loop was closed, and wiped, by Stop: before the server was made, or *)
(* after the last handle had gone (a uv_run under way may still get by).   *)
UseClosedLoop ==
  /\ pc \in {"setup", "poll"} /\ loop = "closed"
  /\ Die
  /\ UNCHANGED <<starts, stop, loop, connVars, pollVars, ghosts>>

(* Mutant of Stopped: not before the last controller has gone. *)
StoppedWhenIdle == stop /\ \A c \in Clients : conn[c] # "open"

(* bool Stopped() *)
Stopped == stop

(* while (false == pthis->Stopped()) uv_run(...): the poll phase handles   *)
(* what is ready when it begins.                                           *)
Check ==
  /\ pc = "check"
  /\ IF Stopped THEN pc' = "teardown" /\ UNCHANGED pollVars
             ELSE /\ pc' = "poll" /\ todo' = Readable
                  /\ accepting' = Acceptable /\ UNCHANGED again
  /\ UNCHANGED <<mpc, starts, stop, loop, connVars, ghosts>>

(* on_connection, once per waiting connection.  uv_accept fails for some   *)
(* (bad); for the rest uv_read_start.                                      *)
Accept ==
  /\ pc = "poll" /\ accepting /\ again = {}
  /\ \E bad \in SUBSET Backlog :
       conn' = [c \in Clients |-> IF c \in bad THEN "closing"
                                  ELSE IF c \in Backlog THEN "open" ELSE conn[c]]
  /\ accepting' = FALSE
  /\ UNCHANGED <<threadVars, server, old, inbox, sent, todo, again, ghosts>>

(* Mutant of AcceptFails: the error is only logged. *)
AcceptErrorLogged ==
  /\ pc = "poll" /\ accepting /\ again = {}
  /\ accepting' = FALSE
  /\ UNCHANGED <<threadVars, connVars, todo, again, ghosts>>

(* on_connection with an error, after some connections were accepted: the  *)
(* server itself is closed and its backlog reset.                          *)
AcceptFails ==
  /\ pc = "poll" /\ accepting /\ again = {}
  /\ server' = "closing"
  /\ \E good \in SUBSET Backlog :
       conn' = [c \in Clients |-> IF c \in good THEN "open"
                                  ELSE IF c \in Backlog THEN "refused" ELSE conn[c]]
  /\ accepting' = FALSE
  /\ UNCHANGED <<threadVars, old, inbox, sent, todo, again, ghosts>>

(* Mutant of Rings: any request with a signal, in place or not. *)
RingsForAny(dbw2) == GetRequestType(dbw2) = "HEARTBEAT_AND_SIGNAL"

(* The condition of on_read's callback. *)
Rings(dbw2) == InPlaceSignal(dbw2)

(* Mutant of OnRead: the request is decoded before the data is there. *)
OnReadStale(c, n) ==
  /\ \E dbw2 \in 0 .. 3 : rung' = IF Rings(dbw2) THEN ~rung ELSE rung
  /\ inbox' = [inbox EXCEPT ![c] = SubSeq(@, n + 1, Len(@))]
  /\ torn' = IF n % 4 # 0 \/ n = 0 THEN torn \cup {c} ELSE torn

(* on_read with nread >= 0: n words.  The length is looked at (a wrong one *)
(* is logged) and the first request in the buffer decoded; dbw2 lies in    *)
(* the unwritten part of the malloced buffer when the read is too short.   *)
OnRead(c, n) ==
  /\ \E dbw2 \in IF n >= 2 THEN {inbox[c][2].value} ELSE 0 .. 3 :
       rung' = IF Rings(dbw2) THEN ~rung ELSE rung
  /\ inbox' = [inbox EXCEPT ![c] = SubSeq(@, n + 1, Len(@))]
  /\ torn' = IF n % 4 # 0 \/ n = 0 THEN torn \cup {c} ELSE torn

(* How uv__read goes on after a read of n words.  One that filled the      *)
(* buffer is followed by another, up to 32 times; the model may stop after *)
(* any.  After a shorter one the end is reported at once if the poll saw   *)
(* that the connection is down.                                            *)
Continues(c, n) ==
  \/ todo' = todo \ {c} /\ again' = {}
  \/ n = Buffer /\ again' = {c} /\ UNCHANGED todo
  \/ n \in 1 .. Buffer - 1 /\ inbox'[c] = <<End>> /\ again' = {} /\ UNCHANGED todo

(* Is it the turn of this connection? *)
Turn(c) == pc = "poll" /\ c \in todo /\ again \subseteq {c}

(* A read returns some of the words that came before any end: none only    *)
(* after a read that filled the buffer, when no more has arrived.          *)
Read(c) ==
  /\ Turn(c)
  /\ \E n \in 0 .. Len(inbox[c]) :
       /\ n <= Buffer
       /\ n = 0 => c \in again
       /\ \A i \in 1 .. n : inbox[c][i] # End
       /\ OnRead(c, n)
       /\ Continues(c, n)
  /\ UNCHANGED <<threadVars, server, old, conn, sent, accepting>>

AtEnd(c) == inbox[c] # <<>> /\ inbox[c][1] = End

(* Mutant of ReadEnd: the error is only logged. *)
ReadErrorLogged(c) ==
  /\ Turn(c) /\ AtEnd(c)
  /\ todo' = todo \ {c} /\ again' = {}
  /\ UNCHANGED <<threadVars, connVars, accepting, ghosts>>

(* Mutant of ReadEnd: a read of nothing closes the connection as well. *)
ReadNothingCloses(c) ==
  /\ Turn(c) /\ (AtEnd(c) \/ c \in again)
  /\ conn' = [conn EXCEPT ![c] = "closing"]
  /\ todo' = todo \ {c} /\ again' = {}
  /\ UNCHANGED <<threadVars, server, old, inbox, sent, accepting, ghosts>>

(* on_read with nread < 0: the connection is closed. *)
ReadEnd(c) ==
  /\ Turn(c) /\ AtEnd(c)
  /\ conn' = [conn EXCEPT ![c] = "closing"]
  /\ todo' = todo \ {c} /\ again' = {}
  /\ UNCHANGED <<threadVars, server, old, inbox, sent, accepting, ghosts>>

(* Closing phase, on_close of every closed handle, then 100 ms of sleep. *)
CloseAndSleep ==
  /\ pc = "poll" /\ todo = {} /\ ~accepting
  /\ server' = IF server = "closing" THEN "freed" ELSE server
  /\ old' = FALSE
  /\ conn' = [c \in Clients |-> IF conn[c] = "closing" THEN "freed" ELSE conn[c]]
  /\ pc' = "check"
  /\ UNCHANGED <<mpc, starts, stop, loop, inbox, sent, pollVars, ghosts>>

(* uv_close of the server after the loop, which resets its backlog.        *)
(* Nobody runs the loop, so on_close does not come and the accepted        *)
(* connections stay open, until the next Start.                            *)
Teardown ==
  /\ pc = "teardown" /\ server # "freed"
  /\ server' = "closing"
  /\ conn' = [c \in Clients |-> IF c \in Backlog THEN "refused" ELSE conn[c]]
  /\ pc' = "ended"
  /\ UNCHANGED <<mpc, starts, stop, loop, old, inbox, sent, pollVars, ghosts>>

(* After an accept error the same handle is closed again, when it is freed *)
(* memory that still reads as closed: libuv's assertion aborts.            *)
TeardownTwice ==
  /\ pc = "teardown" /\ server = "freed"
  /\ Die
  /\ UNCHANGED <<starts, stop, loop, connVars, pollVars, ghosts>>

-----------------------------------------------------------------------------
(* The controllers. *)

Alive == pc # "dead"

Connect(c) ==
  /\ Alive /\ conn[c] = "none" /\ server = "listening"
  /\ conn' = [conn EXCEPT ![c] = "backlog"]
  /\ UNCHANGED <<threadVars, server, old, inbox, sent, pollVars, ghosts>>

Send(c) ==
  /\ Alive /\ conn[c] \in {"backlog", "open"} /\ ~Ended(c) /\ sent[c] < MaxSent
  /\ \E num \in Numbers, bits \in Flags :
       inbox' = [inbox EXCEPT ![c] = @ \o Request(num, bits)]
  /\ sent' = [sent EXCEPT ![c] = @ + 1]
  /\ UNCHANGED <<threadVars, server, old, conn, pollVars, ghosts>>

(* The controller closes, or the connection breaks and what was in it is   *)
(* lost.                                                                   *)
HangUp(c) ==
  /\ Alive /\ conn[c] \in {"backlog", "open"} /\ ~Ended(c)
  /\ \E kept \in {inbox[c], <<>>} : inbox' = [inbox EXCEPT ![c] = Append(kept, End)]
  /\ UNCHANGED <<threadVars, server, old, conn, sent, pollVars, ghosts>>

-----------------------------------------------------------------------------

Main == Start \/ StopSet \/ StopCloseLoop \/ StopJoin

Worker ==
  \/ Listen \/ UseClosedLoop \/ Check \/ Accept \/ AcceptFails
  \/ (\E c \in Clients : Read(c) \/ ReadEnd(c))
  \/ CloseAndSleep \/ Teardown \/ TeardownTwice

Controllers == \E c \in Clients : Connect(c) \/ Send(c) \/ HangUp(c)

Over == mpc \in {"stopped", "dead"} /\ UNCHANGED vars

Next == Main \/ Worker \/ Controllers \/ Over

Spec == Init /\ [][Next]_vars

(* Both threads are scheduled. *)
Fairness == WF_vars(Worker) /\ WF_vars(StopCloseLoop) /\ WF_vars(StopJoin)

FairSpec == Spec /\ Fairness

-----------------------------------------------------------------------------
(* Properties. *)

TypeOK ==
  /\ pc \in {"none", "setup", "check", "poll", "teardown", "ended", "dead"}
  /\ mpc \in {"init", "running", "stopping", "joining", "stopped", "dead"}
  /\ starts \in 0 .. MaxStarts
  /\ stop \in BOOLEAN /\ old \in BOOLEAN /\ accepting \in BOOLEAN /\ rung \in BOOLEAN
  /\ loop \in {"none", "open", "closed"}
  /\ server \in {"none", "listening", "mute", "closing", "freed"}
  /\ conn \in [Clients -> {"none", "backlog", "refused", "open", "closing", "freed"}]
  /\ inbox \in [Clients -> Seq(Word \cup {End})]
  /\ sent \in [Clients -> 0 .. MaxSent]
  /\ todo \subseteq Clients /\ again \subseteq Clients /\ torn \subseteq Clients

(* Stop is survivable: main can take the process down in uv_loop_close or  *)
(* uv_close only by stopping before the thread has made its server or      *)
(* after an accept error has closed it.  While it listens, with whatever   *)
(* connections, no interleaving of Stop with the loop is fatal.            *)
FatalOnlyWithoutServer == pc = "dead" => server \in {"none", "freed"}

(* The loop is never taken from a worker that still has a handle in it,    *)
(* nor while a connection or an accept is still to be handled.             *)
LoopOutlivesHandles ==
  loop = "closed" => /\ server \in {"none", "freed"} /\ ~old
                     /\ \A c \in Clients : conn[c] \notin {"open", "closing"}
                     /\ todo = {} /\ ~accepting

(* In-place signals among the words of q; is c the connection of this read? *)
Signals(q) == Cardinality({i \in DOMAIN q : q[i].at = 1 /\ InPlaceSignal(q[i].value)})
Handled(c) == c \in todo /\ (c \notin todo' \/ inbox'[c] # inbox[c])

(* A callback is earned: it consumes at least one in-place signal that a   *)
(* controller sent, unless reads of that connection were torn.             *)
CallbackConsumesSignal ==
  [][rung' # rung =>
       \E c \in Clients :
         Handled(c) /\ (c \in torn' \/ Signals(inbox'[c]) < Signals(inbox[c]))]_vars

(* Signals that wait on each connection; the worker between Start and the  *)
(* return of Stop.                                                         *)
Pending == [c \in Clients |-> Signals(inbox[c])]
Serving == mpc \in {"running", "stopping", "joining"}

Channel == INSTANCE SignalChannel WITH
  pending <- Pending, untied <- torn, called <- rung, serving <- Serving

(* Every behaviour of the worker is one of the promised channel: whatever  *)
(* the controllers, Stop and restarts do, no signal is called back twice   *)
(* and none is called back that was not sent.                              *)
ImplementsChannel == Channel!ChannelSpec

(* Between Stop and the next Start nobody is called back, though the       *)
(* connections that point to the callback stay open.                       *)
QuietAfterStop == [][mpc = "stopped" => rung' = rung]_vars

(* The worker hangs up on nobody: it closes an accepted connection only    *)
(* when all that came before the end has been read, whatever reads of      *)
(* nothing, accept errors, Stop and restarts there are on the way.         *)
ClosedAfterLastWord ==
  [][\A c \in Clients :
       conn[c] = "open" /\ conn'[c] # "open" => inbox[c] = <<End>>]_vars

(* A connection that waits is taken up or refused, unless the program      *)
(* stops.                                                                  *)
Served == \A c \in Clients : conn[c] = "backlog" ~> conn[c] # "backlog" \/ stop

(* What a controller sent on an accepted connection is read to the end,    *)
(* and a connection that ended is freed, unless the program stops.         *)
Drained ==
  \A c \in Clients :
    /\ conn[c] = "open" /\ inbox[c] # <<>> ~> conn[c] # "open" \/ inbox[c] = <<>> \/ stop
    /\ Ended(c) ~> conn[c] \in {"freed", "refused"} \/ stop

(* Stop returns, unless the process dies in it. *)
StopReturns == mpc = "stopping" ~> mpc \in {"stopped", "dead"}

(* README.md:3-4: the callback "will be called if any interesting happen". *)
(* Every in-place signal that is read on a connection read in whole        *)
(* requests is called back.                                                *)
EverySignalRings ==
  [][\A c \in Clients : conn[c] = "open" /\ c \notin torn' =>
       \/ Signals(inbox'[c]) >= Signals(inbox[c])
       \/ Ended(c)' /\ ~Ended(c)
       \/ rung' # rung /\ Signals(inbox'[c]) + 1 = Signals(inbox[c])]_vars

=============================================================================
