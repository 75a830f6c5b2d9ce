--------------------------------- MODULE Demo ---------------------------------
(***************************************************************************)
(* sample/main.cc with the two workers it starts and stops: the life of    *)
(* the process, and the lazy GetLoop of each worker, which the worker's    *)
(* thread and main (in Stop) may be in at the same time.                   *)
(*                                                                         *)
(* A worker is reduced to what it does with its loop: one handle, the      *)
(* listening or the dialling one, which the receiver may lose, and rounds  *)
(* of uv_run.  What libuv does with a loop that is not, or no longer,      *)
(* initialised is what the library in lib/x86_64 does.                     *)
(***************************************************************************)
Workers == {"receiver", "sender"}
Callers == {"thread", "main"}     \* of GetLoop; each makes at most one loop

VARIABLES
  build,   \* which workers are compiled in, and is there a RUN_RANDOM_TIME?
  mpc,     \* where main is
  who,     \* the worker it deals with
  t,       \* [Workers -> where the thread is]
  stop,    \* [Workers -> stop_]
  static,  \* [Workers -> GetLoop's variable: "null" or the maker of the loop]
  life,    \* [Workers -> [Callers -> state of the loop the caller has made]]
  home,    \* [Workers -> the loop the handle was put in, or "none"]
  wiped,   \* workers whose handle a second uv_loop_init removed from the loop
  handles, \* the receiver's: "server", "guests" (only connections) or "none"
  hasty    \* workers that were told to stop before they had put a handle in a loop

mainVars == <<build, mpc, who>>
loopVars == <<static, life, home, wiped, handles>>
vars     == <<mainVars, t, stop, loopVars, hasty>>

(* The programs the Makefile builds: demo, sender, receiver, and the same  *)
(* with a random run time.                                                 *)
Init ==
  /\ build \in [enabled : (SUBSET Workers) \ {{}}, timed : BOOLEAN]
  /\ mpc = "start" /\ who = "receiver"
  /\ t = [w \in Workers |-> "none"]
  /\ stop = [w \in Workers |-> FALSE]
  /\ static = [w \in Workers |-> "null"]
  /\ life = [w \in Workers |-> [c \in Callers |-> "none"]]
  /\ home = [w \in Workers |-> "none"]
  /\ wiped = {} /\ handles = "server" /\ hasty = {}

Enabled == who \in build.enabled

(* The process is gone. *)
Die == mpc' = "dead" /\ UNCHANGED <<build, who>>

-----------------------------------------------------------------------------
(* GetLoop: if (nullptr == loop) { loop = new uv_loop_t(); uv_loop_init(loop); } *)

Null(w)   == static[w] = "null"
Loop(w)   == life[w][static[w]]

(* Mutant of Make: new uv_loop_t, whose memory is not cleared. *)
MakeUncleared(w, c) ==
  /\ static' = [static EXCEPT ![w] = c]
  /\ life' = [life EXCEPT ![w][c] = "garbage"]
  /\ UNCHANGED <<home, wiped, handles>>

(* loop = new uv_loop_t(), whoever may have stored another one meanwhile. *)
Make(w, c) ==
  /\ static' = [static EXCEPT ![w] = c]
  /\ life' = [life EXCEPT ![w][c] = "raw"]
  /\ UNCHANGED <<home, wiped, handles>>

(* uv_loop_init(loop) reads the variable again: it may be the other's.     *)
Prepare(w) ==
  /\ life' = [life EXCEPT ![w][static[w]] = "open"]
  /\ wiped' = IF home[w] = static[w] THEN wiped \cup {w} ELSE wiped
  /\ UNCHANGED <<static, home, handles>>

-----------------------------------------------------------------------------
(* main. *)

(* To the next worker, or on to the next stage. *)
Proceed(stage, next) ==
  IF who = "receiver" THEN who' = "sender" /\ mpc' = stage
                      ELSE who' = "receiver" /\ mpc' = next

(* receiver.Start(), sender.Start().  The receiver's thread takes a loop   *)
(* first; the sender's looks at stop_ first.                               *)
Start ==
  /\ mpc = "start"
  /\ t' = IF Enabled THEN [t EXCEPT ![who] = IF who = "receiver" THEN "get" ELSE "check"]
                     ELSE t
  /\ Proceed("start", "run")
  /\ UNCHANGED <<build, stop, loopVars, hasty>>

(* The run time, any; without RUN_RANDOM_TIME main sleeps for ever. *)
RunTime ==
  /\ mpc = "run" /\ build.timed
  /\ mpc' = "stop"
  /\ UNCHANGED <<build, who, t, stop, loopVars, hasty>>

(* Mutant of StopSet: Stop forgets the flag. *)
StopNotSet ==
  /\ mpc = "stop" /\ Enabled
  /\ mpc' = "get"
  /\ UNCHANGED <<build, who, t, stop, loopVars, hasty>>

(* receiver.Stop(), sender.Stop(): stop_ = true. *)
StopSet ==
  /\ mpc = "stop" /\ Enabled
  /\ stop' = [stop EXCEPT ![who] = TRUE]
  /\ hasty' = IF home[who] = "none" THEN hasty \cup {who} ELSE hasty
  /\ mpc' = "get"
  /\ UNCHANGED <<build, who, t, loopVars>>

StopNone ==
  /\ mpc = "stop" /\ ~Enabled
  /\ Proceed("stop", "over")
  /\ UNCHANGED <<build, t, stop, loopVars, hasty>>

(* if (nullptr != GetLoop()) *)
MainGet ==
  /\ mpc = "get"
  /\ mpc' = IF Null(who) THEN "new" ELSE "close"
  /\ UNCHANGED <<build, who, t, stop, loopVars, hasty>>

MainNew ==
  /\ mpc = "new"
  /\ Make(who, "main") /\ mpc' = "init"
  /\ UNCHANGED <<build, who, t, stop, hasty>>

MainInit ==
  /\ mpc = "init"
  /\ Prepare(who) /\ mpc' = "close"
  /\ UNCHANGED <<build, who, t, stop, hasty>>

(* Mutant of Busy: uv_loop_close closes whatever is in the loop. *)
NeverBusy(w) == FALSE

(* Is there a handle in the loop that the variable holds? *)
Linked(w) == /\ home[w] = static[w] /\ w \notin wiped
             /\ w = "receiver" => handles # "none"

(* uv_loop_close refuses while it finds a handle in the loop. *)
Busy(w) == Loop(w) = "closed" \/ Linked(w)

(* uv_loop_close(GetLoop()): UV_EBUSY is ignored; a raw loop is a fault,   *)
(* and so may be one that is closed while uv_run is under way.             *)
CloseLoop ==
  /\ mpc = "close" /\ Loop(who) # "raw"
  /\ life' = IF Busy(who) THEN life ELSE [life EXCEPT ![who][static[who]] = "closed"]
  /\ mpc' = "join"
  /\ UNCHANGED <<build, who, t, stop, static, home, wiped, handles, hasty>>

CloseFaults ==
  /\ mpc = "close"
  /\ Loop(who) = "raw" \/ (~Busy(who) /\ t[who] = "round")
  /\ Die
  /\ UNCHANGED <<t, stop, loopVars, hasty>>

(* Mutant of Joined: Stop does not wait for the thread. *)
NotJoined(w) == TRUE

(* uv_thread_join *)
Joined(w) == t[w] = "ended"

Join ==
  /\ mpc = "join" /\ Joined(who)
  /\ Proceed("stop", "over")
  /\ UNCHANGED <<build, t, stop, loopVars, hasty>>

-----------------------------------------------------------------------------
(* The threads: thread_task of both workers. *)

Alive == mpc \notin {"dead", "over"}

Goto(w, pc) == t' = [t EXCEPT ![w] = pc]

ThreadGet(w) ==
  /\ t[w] = "get"
  /\ Goto(w, IF Null(w) THEN "new" ELSE "put")
  /\ UNCHANGED <<mainVars, stop, loopVars, hasty>>

ThreadNew(w) ==
  /\ t[w] = "new"
  /\ Make(w, "thread") /\ Goto(w, "init")
  /\ UNCHANGED <<mainVars, stop, hasty>>

ThreadInit(w) ==
  /\ t[w] = "init"
  /\ Prepare(w) /\ Goto(w, "put")
  /\ UNCHANGED <<mainVars, stop, hasty>>

(* uv_tcp_init(GetLoop(), ...) and the bind, listen or connect after it:   *)
(* the handle is put in the loop that the variable holds now.  The sender  *)
(* goes on to run it, the receiver looks at stop_ first.                   *)
Put(w) ==
  /\ t[w] = "put" /\ Loop(w) = "open"
  /\ home' = [home EXCEPT ![w] = static[w]]
  /\ wiped' = wiped \ {w}
  /\ Goto(w, IF w = "receiver" THEN "check" ELSE "round")
  /\ UNCHANGED <<mainVars, stop, static, life, handles, hasty>>

PutFaults(w) ==
  /\ t[w] = "put" /\ Loop(w) \in {"raw", "closed"}
  /\ Die
  /\ UNCHANGED <<t, stop, loopVars, hasty>>

(* while (false == pthis->Stopped()).  The sender dials, for the first     *)
(* time or again, or does not.                                             *)
Check(w) ==
  /\ t[w] = "check"
  /\ IF stop[w] THEN Goto(w, "teardown")
     ELSE \/ w = "sender" /\ Goto(w, "get")
          \/ home[w] # "none" /\ Goto(w, "round")
  /\ UNCHANGED <<mainVars, stop, loopVars, hasty>>

(* uv_run(GetLoop()) is in the receiver's loop. *)
Running == t["receiver"] = "round" /\ Linked("receiver") /\ Loop("receiver") = "open"

(* on_connection with an error closes the server, and on_close frees it    *)
(* before uv_run returns.  Accepted connections stay, if there are any.    *)
AcceptFails ==
  /\ Running /\ handles = "server"
  /\ handles' \in {"guests", "none"}
  /\ UNCHANGED <<mainVars, t, stop, static, life, home, wiped, hasty>>

(* on_read closes the last of them when its controller has gone. *)
LastGuestGoes ==
  /\ Running /\ handles = "guests"
  /\ handles' = "none"
  /\ UNCHANGED <<mainVars, t, stop, static, life, home, wiped, hasty>>

(* uv_run(GetLoop()) returns, at once from a loop that is raw or closed.   *)
Round(w) ==
  /\ t[w] = "round"
  /\ Goto(w, "check")
  /\ UNCHANGED <<mainVars, stop, loopVars, hasty>>

Orphaned(w) == \E c \in Callers : home[w] = c /\ life[w][c] = "closed"

(* The receiver's uv_close of its server, whose loop must not be closed.   *)
Teardown ==
  /\ t["receiver"] = "teardown" /\ handles = "server" /\ ~Orphaned("receiver")
  /\ Goto("receiver", "ended")
  /\ UNCHANGED <<mainVars, stop, loopVars, hasty>>

(* Otherwise a fault.  After an accept error the server is closed for the  *)
(* second time, and the sender's uv_close is that of a request: libuv's    *)
(* assertions abort.                                                       *)
TeardownDies(w) ==
  /\ t[w] = "teardown"
  /\ w = "sender" \/ handles # "server" \/ Orphaned(w)
  /\ Die
  /\ UNCHANGED <<t, stop, loopVars, hasty>>

-----------------------------------------------------------------------------

Main ==
  \/ Start \/ RunTime \/ StopSet \/ StopNone
  \/ MainGet \/ MainNew \/ MainInit \/ CloseLoop \/ CloseFaults \/ Join

Thread(w) ==
  /\ Alive
  /\ \/ ThreadGet(w) \/ ThreadNew(w) \/ ThreadInit(w) \/ Put(w) \/ PutFaults(w)
     \/ Check(w) \/ Round(w)
     \/ w = "receiver" /\ (AcceptFails \/ LastGuestGoes \/ Teardown)
     \/ TeardownDies(w)

Over == ~Alive /\ UNCHANGED vars

Next == Main \/ (\E w \in Workers : Thread(w)) \/ Over

Spec == Init /\ [][Next]_vars

(* All threads are scheduled and the sleep ends. *)
FairSpec == Spec /\ WF_vars(Main) /\ \A w \in Workers : WF_vars(Thread(w))

-----------------------------------------------------------------------------
(* Properties. *)

TypeOK ==
  /\ build \in [enabled : SUBSET Workers, timed : BOOLEAN]
  /\ mpc \in {"start", "run", "stop", "get", "new", "init", "close", "join", "over", "dead"}
  /\ who \in Workers
  /\ t \in [Workers -> {"none", "get", "new", "init", "put", "check", "round", "teardown", "ended"}]
  /\ stop \in [Workers -> BOOLEAN]
  /\ static \in [Workers -> Callers \cup {"null"}]
  /\ life \in [Workers -> [Callers -> {"none", "raw", "open", "closed"}]]
  /\ home \in [Workers -> Callers \cup {"none"}]
  /\ handles \in {"server", "guests", "none"}
  /\ wiped \subseteq Workers /\ hasty \subseteq Workers

(* The race for the loop needs a Stop before the worker has put its handle *)
(* there: only then can main make a second loop.  Where main has made      *)
(* none, early Stop or not, the handle is linked in the loop that GetLoop  *)
(* returns, and no uv_loop_close has closed that loop, unless an accept    *)
(* error had emptied it.                                                   *)
LoopIsSettled ==
  \A w \in Workers :
    /\ life[w]["main"] # "none" => w \in hasty
    /\ home[w] # "none" /\ life[w]["main"] = "none" =>
         /\ home[w] = static[w] /\ w \notin wiped
         /\ Loop(w) = "open" \/ (w = "receiver" /\ handles = "none")

(* The worker whose Stop is under way was told to stop before it had put   *)
(* its handle in a loop; and it has not yet, or main has made a loop too.  *)
LostRace ==
  /\ who \in hasty
  /\ home[who] = "none" \/ life[who]["main"] # "none"

(* The receiver had lost its server to an accept error: its thread closes  *)
(* it again, or main closes the emptied loop while the thread is in uv_run. *)
ClosedTwice ==
  /\ who = "receiver" /\ handles # "server"
  /\ t["receiver"] = "teardown" \/ (t["receiver"] = "round" /\ handles = "none")

(* The sender's thread closes its connect request. *)
ClosedRequest ==
  /\ who = "sender" /\ t["sender"] = "teardown"
  /\ t["receiver"] \in {"none", "ended"}

(* The process dies of these three things only, each of them in the Stop   *)
(* of the worker concerned: a sender that has begun outlives the Stop of   *)
(* the receiver unless that comes too early or after an accept error, and  *)
(* no worker dies while main sleeps.                                       *)
DeathHasCause ==
  mpc = "dead" => build.timed /\ (LostRace \/ ClosedTwice \/ ClosedRequest)

(* A program with a run time ends, one way or the other: no Stop waits for *)
(* ever for its thread.                                                    *)
Ends == build.timed ~> mpc \in {"over", "dead"}

=============================================================================
