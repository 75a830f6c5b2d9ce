# Verification of l1comm

l1comm connects an inspection station to an L1 (steel mill) controller: one
thread sends heartbeats to the controller, another listens for its requests and
calls back when a coil is in place. Both run on libuv, and a script outside
restarts processes that are gone. This directory holds TLA+ modules of the two
workers, of what they are built from, of the program that runs them and of the
script, TLC configurations that check them on small instances, and TLAPS proofs.

Line references below are relative to `src/` unless they name a file.

## Inventory

| Component | Source | State | Operations | Module |
|---|---|---|---|---|
| Number generator | `src/l1_num_generator.h` | static `num_` | `GetNum` | `NumGenerator` |
| Send worker | `src/l1_send_worker.{h,cc}` | `stop_`, static loop, static `conn_struct` (socket, connect request, timer, status), libuv queues | `Start`, `Stop`, `thread_task`, `on_connect`, `on_timer`, `send_heartbeat_cb`, `on_close` | `SendWorker` |
| Receive worker | `src/l1_receive_worker.{h,cc}` | `stop_`, static loop, server, one handle per connection, callback | `Start`, `Stop`, `thread_task`, `on_connection`, `on_read`, `on_close` | `ReceiveWorker` |
| Messages | `src/l1.h` | bits of `dbw2` | setters, getters, `ToString` | `L1` |
| Watchman | `script/watchman.py` | dictionary of searches; outside it the process table | `loadConfig`, `runSearches`, `runSearch`, `restartProcess` with its alert | `Watchman` |
| Demo | `sample/main.cc`, `Makefile`, `GetLoop` of both workers | the two static loops | `Start`, run time, `Stop` of the workers built in | `Demo` |
| libuv | `include/`, `lib/` (vendored) | handles, pending queue, write queues | `uv_run`, `uv_write`, ... | inside the workers, marked external |

**Interaction.** `main` calls `Start` and `Stop` of both workers. Each has a thread
that alternates between a sleep and `uv_run(UV_RUN_NOWAIT)`, which makes the
callbacks. Each keeps its loop in a static variable that `GetLoop` fills at its first
call, whichever thread makes it. Shared between the threads: `stop_` (atomic), the static loop (main
calls `uv_loop_close` on it), and for the sender `conn_struct`, which the thread
and all callbacks, of whatever socket, read and write. The workers share nothing
with each other. The number generator belongs to the sender. The controller is
the TCP peer of both. The watchman knows a process only as a line of `pgrep -fl`.

**What is hard.** Callbacks of an old socket that arrive after a reconnect; a
timer that outlives its connection; one connect request for every attempt; link
failures that only a failing write reveals; TCP streams without message
boundaries; `Stop` racing with the loop, and with its creation; a receiver started
again while the handles of its first life are still open; errors that nobody looks
at; a search that finds its own shell.

**What makes a component correct.**

- Number generator: consecutive numbers, one restart per cycle.
- Send worker: never touches a closed handle; a connection that counts as
  connected is being watched by a heartbeat; a lost one is noticed and redialled;
  heartbeats arrive in order; Stop does not wait for ever.
- Receive worker: every connection is served, read to its end and freed; the
  callback is called for signals and only for signals; the loop is not taken away
  under its handles; nothing is called between Stop and the next Start.
- Messages: getters return what setters set, and leave the rest alone.
- Watchman: a dead process is restarted, a live one is not, an unstartable one is
  reported.
- Demo: main and a thread make or close a loop under each other only where the code
  lets them, in a Stop before the worker has begun or after an accept error; the
  program ends, and dies of nothing else than these two and the sender's teardown.

## Modules

| Module | Content |
|---|---|
| `NumGenerator` | `GetNum` with the wrap of the type and the modulo of its maximum |
| `HeartbeatFeed` | abstract specification of the sender: sessions, and in each the controller hears consecutive numbers |
| `SendWorker` | the send worker, its main thread, libuv and the network; extends `NumGenerator`; instantiates `HeartbeatFeed` under a refinement mapping |
| `L1` | flag setters and getters |
| `ReceiveWorker` | the receive worker, its main thread, libuv and the controllers; extends `L1` |
| `SignalChannel` | abstract specification of the receiver: signals sent, callbacks that consume them, and when |
| `Watchman` | the script, the processes it looks for and other people's command lines |
| `Demo` | main of the six programs the Makefile builds, both threads as far as their loop goes, the unlocked `GetLoop` |
| `MCSendWorker`, `MCReceiveWorker` | the symmetry sets for TLC |
| `NumGeneratorProofs`, `HeartbeatFeedProofs`, `SendWorkerProofs`, `ReceiveWorkerProofs`, `WatchmanProofs`, `DemoProofs` | theorems and proofs about the module they are named after; the laws of `L1` are in `ReceiveWorkerProofs` |
| `SendWorkerRefinement`, `ReceiveWorkerRefinement` | that the workers implement their abstract specifications, and what follows from that |

### SendWorker and the code

One round of `thread_task` is `check` (`while`, line 112), `dial` (113-131),
`sleep` (133-138) and the phases of `uv_run` (140): `timers`, `pending`, `poll`,
`closing`, in the order of libuv 1.38. An action is what happens between two
points where another actor can matter.

| Code | Model |
|---|---|
| `conn_struct.status`, `.timer` | `status`, `timer` |
| `conn_struct.socket` = local `socket` | `cur` |
| malloced `uv_tcp_t` blocks | `Sockets` with `handle`, `conn`, `wq` per block |
| libuv's pending queue and write completion | `fed`, `done` |
| `Start` / `Stop` | `Start` / `StopSet`, `StopCloseLoop`, then waiting in the join |
| reconnect block 113-131 | `Dial`, `StayConnected`, `DialOnClosedLoop` |
| `on_timer` 47-70 with `uv_write`'s immediate attempt | `OnTimer` and the `Write...` outcomes |
| `send_heartbeat_cb` with an error | `HeartbeatFailed`, from a failed write, a refused connect or a destroyed socket |
| `on_connect` | `PollConnected`, `PollRefused`, and inside `Closing` for a cancelled request |
| `on_close`, destruction of closed sockets | `Closing` |
| 145-154 | `Teardown`: `uv_close` of the connect request aborts, so 146-153 are not reached |

`sent` remembers the last payload the kernel took on the connection; no action
reads it. Facts of libuv the model relies on: a write behind a connect or an older
write is queued; an immediate write outcome is reported in the next pending phase;
an error reports the head of the queue only; a refused connect cancels the queued
writes; closing a socket cancels its connect and its writes in the closing phase of
the next `uv_run`; `uv_loop_close` refuses while a handle is linked. They were
compared with runs of the code against the vendored version.

Simplifications. The refusals of a connect (in the socket's error state, by reset,
by time-out) are one. `GetLoop` is atomic here and taken apart in `Demo`. The timer is one
block: `on_connect` frees a timer that is still linked, and the `malloc` after it
returns the same block. `Start` after `Stop` does not occur in the repository and a
sender does not survive `Stop`.

### ReceiveWorker and the code

A round is `check` (105), `poll` (`uv_run`, 106: events of this poll are `todo` and
`accepting`, handled in any order), `CloseAndSleep` (closing phase and 110). A
connection carries words of 16 bits, each knowing its place in its request, and at
most one end (a FIN or an error, with or without loss of what came before). One
read takes any number of the waiting words up to `Buffer`, so requests are split and
merged in all ways; `on_read` takes every read for one request. libuv reads on while
reads fill the buffer (`Continues`; `again` is the connection it is at), and a read of
nothing comes only then. After a shorter read it may report the end in the same poll.
That it stops after 32 reads is the freedom to stop after any. A read shorter than two
words leaves `dbw2` to whatever the buffer held: any value of its two flags.

| Code | Model |
|---|---|
| `on_connection` 59-77 | `Accept` (accept errors of single clients: `bad`), `AcceptFails` (62-67) |
| `alloc_buffer` 8-11, `on_read` 30-56 | `Read`, `OnRead`, `Continues`; the callback toggles `rung` |
| `on_read` 20-28 | `ReadEnd` |
| `thread_task` 84-103 | `Listen`; a failing bind or listen is only logged (`"mute"`) |
| `uv_close` of the server, 120 | `Teardown`; `TeardownTwice` when 65 has closed it before |
| `Start` / `Stop` | `Start` / `StopSet`, `StopCloseLoop`, `StopJoin` |
| `Start` after `Stop` | `starts`; the static loop and the connections stay, the old server keeps waiting for its `on_close` (`old`) |

`rung` and `torn` (connections with a read that was not whole requests) are ghosts.
Requests are whole words; a read of an odd number of bytes differs from a torn read
only in which stale bytes are looked at.

`SignalChannel` is seen through `Pending` (in-place signals among the words of a
connection), `torn`, `rung` and `Serving` (between `Start` and the return of `Stop`).
A step of it may consume several signals for one callback, or signals without a
callback: the code promises no more (`ReceiveSignals`). It does promise that a
callback costs a signal that is then gone, in every life of the worker.

### Watchman and the code

A search is one line of the configuration. `young[s]` counts the shells
that `Popen` has started for it and that have not yet run the process, `up[s]` the
live processes, `noise[s]` a foreign command line that holds the pattern.

| Code | Model |
|---|---|
| `loadConfig` 25-74 | `LoadConfig`: read, replaced by an empty template, or an unbound name |
| 157-170, 178-181 | `RunSearches`, `Sleep` |
| `runSearch` 129-153 | `RunSearch` on `Running` |
| `pgrep -fl` and the filter, 92-100 and 133-144 | `Listing`, `Removed`, `Kept`, `Running` |
| `restartProcess` 78-125 | `Attempt`, `Recheck` with `Exhausted`, `Alert` |

A listing is reduced to whether each line mentions a shell. The filter removes items
from the list it walks, so that each removal skips the next line, and of neighbouring
shell lines every other one stays. The order of the lines does not change whether one
stays (`OnlyLoneShellVanishes`). A process started from a list with `shell=True` loses its arguments and so
matches its pattern only if the pattern has none (`Bare`); its shell, which does
match, stays as long as the process where `sh` is dash (`Wrapped`). One shell line is
always there: that of pgrep. With a waiting shell beside it one of the two stays,
and the process counts as running. The supervision rests on this. It
holds for the searches in `Tracked`. For the others, a command with arguments where
the shell makes way, the script finds nothing and starts another instance each time;
the properties say nothing of them.

### Demo and the code

`Init` chooses among the programs of the Makefile: sender, receiver or both, with a
run time or without. A worker is reduced to what it does with its loop: `GetLoop` in
three steps (read the variable, store a new block, initialise what the variable holds
then), one handle that is put into the loop, and rounds. The Makefile builds with
`-O0`, so every use of the variable is a read. The steps are the same in main, which
calls `GetLoop` in `Stop`.

| Code | Model |
|---|---|
| `main` 31-59 | `Start`, `RunTime`, then per worker `StopSet`, `MainGet`, `MainNew`, `MainInit`, `CloseLoop`, `Join` |
| `GetLoop` (`l1_send_worker.h:33-42`, `l1_receive_worker.h:35-44`) | `ThreadGet`, `ThreadNew`, `ThreadInit` and the three of main, over `Make` and `Prepare` |
| receiver 84-94, sender 113-131 | `Put`, `PutFaults` |
| receiver 105-111, sender 112-140 | `Check`, `Round` |
| receiver 62-66 and 13-17; 19-28 | `AcceptFails`, `LastGuestGoes` inside a round |
| receiver 120; sender 145 | `Teardown`, `TeardownDies` |

`handles` is what the receiver still has in its loop: its server, only the connections
it had accepted before an accept error closed the server, or nothing. In the last case
`uv_loop_close` succeeds, and after an error the thread's own `uv_close` at 120 aborts.
The sender always has a socket in its loop once it has dialled.

`Put` takes `uv_tcp_init` and the bind, listen or connect behind it in one step; a
second `uv_loop_init` between the two is not told from one after them.

`hasty` is a ghost: the workers that were told to stop before they had put their
handle in a loop. What libuv does with a loop that is not initialised (`"raw"`), or
closed, was established with runs against `lib/x86_64/libuv.a`: `uv_tcp_init` faults
on both, `uv_run` returns at once from both, `uv_loop_close` faults on the first and
refuses the second; a second `uv_loop_init` forgets the handles (`wiped`).

## Runs

| Run | Shows | Bounds |
|---|---|---|
| `SendSafety` | the sender's handles, status, timer and order of heartbeats stay coherent, its numbers restart once a cycle, and it implements `HeartbeatFeed` | 3 blocks, numbers 0..5, 3 queued writes, immediate errors |
| `SendLiveness` | a lost link is noticed; a reachable controller is connected to again and again | 2 blocks, 2 queued writes, no immediate errors |
| `ReceiveSafety` | loop and handles under Stop and restart; callbacks are earned, end with Stop, and implement `SignalChannel` | 2 connections, 2 requests each, 2 starts, a buffer of two requests |
| `ReceiveLiveness` | connections are served, drained and freed, also those of an earlier start, and none is closed before its last word was read; Stop comes back | 2 connections, 1 request each, 2 starts, a buffer of half a request |
| `Watchman` | nothing is started twice, no false alarm, what is gone is started again | 2 searches, one with arguments, the shell stays |
| `Demo` | main makes a second loop only in a Stop before the worker has begun, and closes the thread's only when an accept error has emptied it; what the process dies of; the program ends | none: the module has no constants |
| `SendDisconnected`, `SendConnecting`, `SendPayload`, `SendStop`, `ReceiveSignals`, `WatchAlert` | each refutes a sentence of the documentation | as the runs above; `ReceiveSignals` 1 start |

**Why the bounds suffice.** `SocketsRecycled` shows that at most two socket blocks
are in use at once (`TwoBlocksSuffice`, proved), and `SendSafety` has a third to show
that it stays unused or is swapped in. Three queued writes give a head, a middle and a tail, so that order and
loss inside a queue can go wrong; six numbers are more than a queue, a sent one and
the next, so that equal numbers are never confused with consecutive ones; the
theorems lift all three bounds. Two connections are the least with which one can
starve or be confused with another; two requests the least that can be merged; a
request number whose bits read as an in-place signal (3) makes torn reads visible.
With a buffer of two requests a read can merge all that was sent and still fill the
buffer, so that a read of nothing follows; with one of half a request a connection is
read on with data, with nothing and with an end in the same poll. The code's 64 KB are
neither, but what happens on a fill does not depend on the size.
Two starts are the least with a restart, and a third finds nothing that the second
does not: what is left of earlier lives is open connections and one flag (`old`).
Two searches are the least of which one can take the other's rounds; the watchman
keeps no state for a search beyond its round. `Demo` is explored completely.
`PollIdle` lets a full socket make room before `MaxQueued` + 1 writes wait: the code
has no such limit, and the queue of a controller that stays connected and never reads
grows for ever. The proofs hold for every `MaxQueued`.

**Fairness.** `WF(Worker)` and `WF(StopCloseLoop)`, `WF(StopJoin)`: both threads are
scheduled by the kernel. `Start` and the call of `Stop` are never forced.
`SF(OnTimer)`: a running timer is due after 5000 ms whatever rounds pass before.
`WF(PeerRefuses)`: the kernel gives up an unanswered connect. `WF` of a reset of a
half-closed connection: a heartbeat written to a closed peer is answered by RST.
`SF(PeerAnswersInSleep)`: only in `FairSpec`, the assumption that the controller is
there, for `KeepsConnecting`. The receiver needs no more than its threads: a poll
reads from every connection that it found readable. `SendLiveness` excludes immediate connect errors,
since after one the code is stuck (`SendConnecting`). `Watchman`: `WF(Script)`, the
script is scheduled and its sleeps end; nothing is assumed of the processes. `Demo`:
`WF(Main)` and `WF(Thread(w))`, all threads are scheduled and the run time ends; the
program without one sleeps for ever, which is why `Ends` speaks of the others.

**Deadlock** is checked in every run; the ended process is a stuttering action (`Dead`,
`Over`), and around the watchman the processes go on.

## What the code does against its documents

- A write cancelled on the old socket marks the new connection disconnected
  (`l1_send_worker.cc:37` against `:21`), which drops a healthy link.
- An immediate error of `uv_tcp_connect` leaves the status at connecting for ever
  (`:129` against `:21`).
- Heartbeats carry uninitialised flags (`:53` against `l1.h:107-108`).
- Stopping the sender aborts the process (`:145` against
  `doc/sequence.plantuml:15-16`).
- Signals that arrive in one read call back once (`l1_receive_worker.cc:35` against
  `README.md:3-4`).
- After three failed attempts the watchman dies of an undefined name
  (`script/watchman.py:118`) instead of sending the mail that the comment at `:105`
  speaks of; nothing is watched any more.
- After an accept error the end of the receiver's thread closes the freed server again
  and aborts (`l1_receive_worker.cc:65`, then `:120`), where the sequence diagram has
  Stop as an ordinary call. No run refutes it: `FatalOnlyWithoutServer`
  and `DeathHasCause` name it as a way to die.
- Numbers reach 65534, not 32767 (`l1_num_generator.h:11` against `l1.h:13`, `:106`).
  No run: it is `NextNum` at the width of the code.

## Proofs

For every value of the constants, under the named assumptions on them
(`MaxOfTAssumption`, `SendWorkerAssumption`, `ReceiveWorkerAssumption`: natural
numbers, a `None` that is no block, words that fit; `WatchmanAssumption`: a finite
set of searches, as a configuration is). No finiteness of `Sockets` or `Clients` is
assumed.

- **NumGeneratorProofs**: `NextNum` stays in range and is injective; from it the two
  properties of the generator, and in closed form (`NthNumber`): after n calls the
  number is n modulo the maximum of the type. A counter of the calls, a variable of
  the theorem and not of the module, takes the place of an induction over n.
- **HeartbeatFeedProofs**: what the abstract feed is worth. The number heard last,
  those that wait and the generator's next form one run (`InOrder`), hence a session
  hears each number's successor (`FeedHeardInOrder`), across losses that take all,
  one or none of what waits.
- **SendWorkerProofs**: three layers, each inductive relative to those before.
  `SocketInv` is types, `SocketsRecycled` and that a worker without socket has status
  -1 (otherwise the reconnect block could be skipped on the way to `uv_run` with a
  null socket). `StatusInv` relates status, timer, connection and the write outcome
  still to be reported: needed because the error of a write is known to libuv a phase
  before the callback stores -1. `FeedInv` relates the queue, the number taken last
  and the generator. From them `CallbackHasTimer`, `ConnectedIsBeating`,
  `LoopOutlivesWorker`, `LossForcesRedial`, `HeartbeatsConsecutive` and, where
  `SyncErrors = FALSE`, `ConnectingIsInFlight`. `RestartsAfterLast` follows since a
  step that changes the number is one of `GetNum`. `TwoBlocksSuffice`: at `dial` all
  blocks but the current one are free, so that choosing a free one is no restriction.
- **SendWorkerRefinement**: every step is a step of `HeartbeatFeed` or a stutter. A
  session counts as down as soon as libuv knows its first error, which is when no
  later heartbeat of it can be heard. `ControllerHearsInOrder` carries the promise of
  the feed over to the code.
- **ReceiveWorkerProofs**: type correctness, and `LifeInv`, who may be where: nothing
  is left to handle between the rounds (a closed loop is then without events), there
  is no server of this life before `Listen`, `Stop` returns only after the end of the
  thread, and the next `Start` therefore finds none. From it `LoopOutlivesHandles`,
  `FatalOnlyWithoutServer` and `QuietAfterStop`. `ClosedAfterLastWord` needs one fact
  more: an end is the last thing in an `inbox` (`EndIsLast`), through sends and
  hang-ups that come between the poll and the read. The laws of the flags of
  `L1Request` hold for all 65536 words.
- **ReceiveWorkerRefinement**: every step is a step of `SignalChannel` or a stutter,
  and `CallbackConsumesSignal`. The invariant is `Aligned`: the words of a connection
  that was never torn are whole requests. A read that rings then took the first word
  of one with a signal. That the count of signals falls by what was read is proved
  without induction, by an injection between the places of the signals before and
  after (`Places`) and the cardinality theorems of the library. Over a whole behaviour
  this gives `NoMoreCallsThanSignals`, with two counters per connection that are
  variables of the theorem: calls made and signals still waiting never exceed the
  signals sent.
- **WatchmanProofs**: what a list loses that is changed while it is walked. For lines
  in any order nothing is left only of no line and of a single shell line
  (`OnlyLoneShellVanishes`), which is why the model may list the lines without a
  shell first. Hence how far a look can be trusted (`WhatIsFound`): exact for the
  tracked searches without foreign lines, blind for the others, and misled by any
  foreign line. The invariant is types, `OneInstance`, `AlarmIsTrue` and `Busy`: an attempt belongs to a
  search that is left in this round, and the fourth is never begun.

- **DemoProofs**: the module has no constants and TLC explores it completely; the
  proof adds the reason. `IInv` consists of where main may be for each of its tasks
  (`MainInv`), that nobody uses the variable of `GetLoop` before it was filled
  (`NotNull`), and per worker `Settled`: as long as main has made no loop for it
  (`Alone`) the variable holds the loop of the worker's thread, open once the handle is
  in it, except where an accept error has emptied it; and a worker that was not stopped
  too early (`InTime`) gets no loop from main. From it `LoopIsSettled`. `DeathHasCause`
  follows since three steps kill (`CloseFaults`, `PutFaults`, `TeardownDies`), and
  where none of its causes holds `Settled` contradicts their guards. Without a run time
  nothing can be fatal (`OnlyStopKills`).

Every invariant, action property and refinement of the passing runs is stated by a
theorem. Only model-checked: liveness (`DeadPeerNoticed`, `KeepsConnecting`, `Served`,
`Drained`, `StopReturns`, `GoneIsRestarted`, `Ends`), which is beyond the prover under
fairness. The runs that expect a violation stay with TLC as well: a theorem cannot
state that something goes wrong in some behaviour.

## Not modelled

- libuv itself beyond its use here. The vendored headers `include/uv*` are declarations
  of a third party and make up most of the lines of the repository; the program's own
  code is about 900 lines.
- `sample/simple_main.cc` and `test/test_uvstop.cc`, experiments with idle handles of
  libuv that use nothing of this code; the other tests and the build files.
- Memory leaks: a rejected `uv_write` (`l1_send_worker.cc:69`), a failing read
  (`l1_receive_worker.cc:26`), a loop that the other thread's `GetLoop` overwrote.
- `L1Request::ToString` and logging; the fields of `L1Response` that nothing sets.
- The sending of recognition results in `doc/sequence.plantuml`: the code has a TODO
  in its place (`l1_send_worker.cc:142`).
- Several workers of a kind. `Start` after `Stop` for the sender, whose teardown never
  returns.
- SIGPIPE, which the user has to ignore as `sample/main.cc:17` does.
- Watchman: its log, the mail server, an `OSError` when no process can be forked.

Left for later, in this order: the controller's side of the request protocol, should
the code behind the TODO appear; several receivers over one static loop.
