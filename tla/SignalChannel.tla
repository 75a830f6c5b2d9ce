---------------------------- MODULE SignalChannel ----------------------------
(***************************************************************************)
(* What L1ReceiveWorker promises its user, with no threads, sockets, loop  *)
(* or requests: a callback takes at least one in-place signal of one       *)
(* controller away for good, and happens only between Start and the return *)
(* of Stop.                                                                *)
(*                                                                         *)
(* The promise is weak where the code is: one callback may stand for       *)
(* several signals, signals may be read without a callback, and of a       *)
(* controller whose stream was cut into pieces nothing is promised.        *)
(***************************************************************************)
EXTENDS Naturals

CONSTANT Clients

VARIABLES
  pending,   \* [Clients -> in-place signals sent and not yet read]
  untied,    \* clients whose requests were not read one by one
  called,    \* toggled by every callback
  serving    \* is there a worker between Start and the return of Stop?

channelVars == <<pending, untied, called, serving>>

ChannelInit ==
  /\ pending = [c \in Clients |-> 0] /\ untied = {}
  /\ called = FALSE /\ serving = FALSE

(* A controller sends a signal. *)
Signal(c) ==
  /\ pending' = [pending EXCEPT ![c] = @ + 1]
  /\ UNCHANGED <<untied, called, serving>>

(* The controller is gone, and with it what was not read. *)
Forget(c) ==
  /\ pending' = [pending EXCEPT ![c] = 0]
  /\ UNCHANGED <<untied, called, serving>>

(* Signals of one controller are taken, with a callback or without. *)
Take(c) ==
  /\ serving
  /\ \E n \in 0 .. pending[c] : pending' = [pending EXCEPT ![c] = @ - n]
  /\ untied' \in {untied, untied \cup {c}}
  /\ called' # called => c \in untied' \/ pending'[c] < pending[c]
  /\ called' \in BOOLEAN
  /\ UNCHANGED serving

StartOrStop ==
  /\ serving' \in BOOLEAN
  /\ UNCHANGED <<pending, untied, called>>

ChannelNext ==
  \/ \E c \in Clients : Signal(c) \/ Forget(c) \/ Take(c)
  \/ StartOrStop

ChannelSpec == ChannelInit /\ [][ChannelNext]_channelVars

=============================================================================
