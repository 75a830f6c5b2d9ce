---------------------------- MODULE HeartbeatFeed ---------------------------
(***************************************************************************)
(* What L1SendWorker promises the L1 controller, with no threads, sockets, *)
(* callbacks or timers: sessions follow one another, and within a session  *)
(* the controller hears consecutive heartbeat numbers in order.            *)
(*                                                                         *)
(* A session is dialled, comes up or not, and is lost.  Numbers are issued *)
(* from one generator; an issued number is heard at once or waits its      *)
(* turn; what waits when the session ends is never heard.                  *)
(***************************************************************************)
EXTENDS NumGenerator, Sequences

CONSTANT Nothing   \* no number heard in this session yet

VARIABLES
  link,      \* "down", "dialing" or "up"
  waiting,   \* numbers issued in this session and not yet heard
  heard      \* the last number heard in this session, or Nothing

feedVars == <<num_, link, waiting, heard>>

FeedInit == GenInit /\ link = "down" /\ waiting = <<>> /\ heard = Nothing

(* A new session, which may fail at once, forgets the old one's leftovers. *)
Redial ==
  /\ link = "down"
  /\ link' \in {"dialing", "down"} /\ waiting' = <<>> /\ heard' = Nothing
  /\ UNCHANGED num_

ComeUp ==
  /\ link = "dialing"
  /\ link' = "up"
  /\ UNCHANGED <<num_, waiting, heard>>

(* The first waiting number is heard. *)
Hear ==
  /\ link = "up" /\ waiting # <<>>
  /\ heard' = Head(waiting) /\ waiting' = Tail(waiting)
  /\ UNCHANGED <<num_, link>>

(* A number is drawn: heard at once only if none waits before it. *)
Issue ==
  /\ link # "down"
  /\ GetNum
  /\ \/ waiting' = Append(waiting, num_) /\ UNCHANGED heard
     \/ link = "up" /\ waiting = <<>> /\ heard' = num_ /\ UNCHANGED waiting
  /\ UNCHANGED link

(* The session ends; the number being issued or tried, or all of them, go  *)
(* with it.                                                                *)
Lose ==
  /\ link' = "down"
  /\ waiting' \in {waiting, <<>>} \cup (IF waiting = <<>> THEN {} ELSE {Tail(waiting)})
  /\ GetNum \/ UNCHANGED num_
  /\ UNCHANGED heard

FeedNext == Redial \/ ComeUp \/ Hear \/ Issue \/ Lose

FeedSpec == FeedInit /\ [][FeedNext]_feedVars

(* What it amounts to: within a session each number the controller hears   *)
(* is the successor of the one it heard before.                            *)
HeardInOrder ==
  [][heard' # heard /\ heard # Nothing => heard' \in {Nothing, NextNum(heard)}]_feedVars

=============================================================================
