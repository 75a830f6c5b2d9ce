----------------------- MODULE ReceiveWorkerRefinement -----------------------
(***************************************************************************)
(* ReceiveWorker implements SignalChannel, for every value of the          *)
(* constants: under the invariants of ReceiveWorkerProofs, and because the *)
(* stream of an untorn connection is cut into whole requests, every step   *)
(* maps to a step of the channel or to a stutter.                          *)
(***************************************************************************)
EXTENDS ReceiveWorkerProofs, FiniteSetTheorems

(* What waits on a connection is whole requests, and an end may follow.    *)
Whole(q) ==
  /\ \A i \in 1 .. Len(q) : \/ q[i] = End /\ i = Len(q)
                            \/ q[i] # End /\ q[i].at = (i - 1) % 4
  /\ Len(q) % 4 = 0 \/ q[Len(q)] = End

(* Only a connection with a torn read can be out of step. *)
Aligned == \A c \in Clients \ torn : Whole(inbox[c])

Stream == Seq(Word \cup {End})

(* The places of the signals in a stream. *)
Places(q) == {i \in 1 .. Len(q) : q[i].at = 1 /\ InPlaceSignal(q[i].value)}

LEMMA PlacesAreFinite ==
  ASSUME NEW q \in Stream
  PROVE  /\ Signals(q) = Cardinality(Places(q))
         /\ IsFiniteSet(Places(q)) /\ Signals(q) \in Nat
<1>1. Len(q) \in Nat /\ DOMAIN q = 1 .. Len(q)
  BY DEF Stream
<1>2. Signals(q) = Cardinality(Places(q))
  BY <1>1 DEF Signals, Places
<1>3. IsFiniteSet(1 .. Len(q))
  BY <1>1, FS_Interval
<1>4. IsFiniteSet(Places(q))
  <2>1. Places(q) \in SUBSET (1 .. Len(q))
    BY DEF Places
  <2> QED
    BY <1>3, <2>1, FS_Subset
<1> QED
  BY <1>2, <1>4, FS_CardinalityType

(* A read takes signals away, and the one in its first request for sure.   *)
LEMMA SignalsOfRest ==
  ASSUME NEW q \in Stream, NEW n \in 0 .. Len(q)
  PROVE  LET r == SubSeq(q, n + 1, Len(q))
         IN  /\ Signals(r) <= Signals(q)
             /\ n >= 2 /\ 2 \in Places(q) => Signals(r) < Signals(q)
<1> DEFINE r == SubSeq(q, n + 1, Len(q))
           f == [i \in Places(r) |-> i + n]
<1>1. Len(q) \in Nat /\ r \in Stream
  BY DEF Stream
<1>2. Len(r) = Len(q) - n /\ \A i \in 1 .. Len(r) : r[i] = q[i + n]
  BY DEF Stream
<1> HIDE DEF r
<1>3. \A i \in Places(r) : i \in Int /\ i >= 1 /\ i + n \in Places(q)
  BY <1>1, <1>2 DEF Places
<1>4. Signals(r) <= Signals(q)
  <2>1. f \in Injection(Places(r), Places(q))
    BY <1>3 DEF Injection, IsInjective
  <2> QED
    BY <1>1, <2>1, PlacesAreFinite, FS_Injection
<1>5. ASSUME n >= 2, 2 \in Places(q)
      PROVE  Signals(r) < Signals(q)
  <2>1. f \in Injection(Places(r), Places(q) \ {2})
    BY <1>3, <1>5 DEF Injection, IsInjective
  <2>2. /\ IsFiniteSet(Places(q) \ {2})
        /\ Cardinality(Places(q) \ {2}) = Signals(q) - 1
    BY <1>5, PlacesAreFinite, FS_RemoveElement
  <2> QED
    BY <1>1, <2>1, <2>2, PlacesAreFinite, FS_Injection
<1> QED
  BY <1>4, <1>5 DEF r

(* A request adds a signal or none. *)
LEMMA SignalsOfRequest ==
  ASSUME NEW q \in Stream, NEW num \in DWORD, NEW bits \in DWORD
  PROVE  Signals(q \o Request(num, bits)) \in {Signals(q), Signals(q) + 1}
<1> DEFINE r == Request(num, bits)
           s == q \o r
           k == Len(q) + 2
<1>1. Len(q) \in Nat /\ Len(r) = 4 /\ Len(s) = Len(q) + 4
  BY DEF Stream, Request
<1>2. /\ \A i \in 1 .. Len(q) : s[i] = q[i]
      /\ \A i \in 1 .. 4 : s[Len(q) + i] = r[i]
  BY DEF Stream, Request
<1>3. s \in Stream
  BY InboxTypes DEF Stream
<1>4. \A i \in 1 .. 4 : r[i].at = i - 1
  BY DEF Request
<1> HIDE DEF r, s
<1>5. Places(s) \in {Places(q), Places(q) \cup {k}}
  <2>1. \A i \in 1 .. Len(q) : i \in Places(s) <=> i \in Places(q)
    BY <1>1, <1>2 DEF Places
  <2>2. \A i \in Len(q) + 1 .. Len(q) + 4 : i \in Places(s) => i = k
    <3> SUFFICES ASSUME NEW i \in Len(q) + 1 .. Len(q) + 4, i \in Places(s)
                 PROVE  i = k
      OBVIOUS
    <3>1. i - Len(q) \in 1 .. 4 /\ Len(q) + (i - Len(q)) = i
      BY <1>1
    <3>2. s[i] = r[i - Len(q)]
      BY <1>2, <3>1
    <3>3. s[i].at = 1
      BY DEF Places
    <3> QED
      BY <1>1, <1>4, <3>1, <3>2, <3>3
  <2>3. \A i \in Places(s) : i \in 1 .. Len(q) \/ i \in Len(q) + 1 .. Len(q) + 4
    BY <1>1 DEF Places
  <2>4. Places(q) \subseteq 1 .. Len(q)
    BY DEF Places
  <2>5. Places(s) \subseteq Places(q) \cup {k} /\ Places(q) \subseteq Places(s)
    BY <2>1, <2>2, <2>3, <2>4
  <2> QED
    BY <2>5
<1>6. k \notin Places(q)
  BY <1>1 DEF Places
<1> QED
  BY <1>3, <1>5, <1>6, PlacesAreFinite, FS_AddElement DEF s, r

(* An end is no signal. *)
LEMMA SignalsOfEnd ==
  ASSUME NEW q \in Stream
  PROVE  Signals(Append(q, End)) = Signals(q)
<1> DEFINE s == Append(q, End)
<1>1. Len(q) \in Nat /\ Len(s) = Len(q) + 1 /\ s[Len(q) + 1] = End
  BY DEF Stream
<1>2. \A i \in 1 .. Len(q) : s[i] = q[i]
  BY DEF Stream
<1>3. s \in Stream
  BY InboxTypes DEF Stream
<1>4. End.at = 4
  BY DEF End
<1> HIDE DEF s
<1>5. Places(s) = Places(q)
  BY <1>1, <1>2, <1>4 DEF Places
<1> QED
  BY <1>3, <1>5, PlacesAreFinite DEF s

LEMMA SignalsOfNothing == <<>> \in Stream /\ Signals(<<>>) = 0
<1>1. <<>> \in Stream
  BY DEF Stream
<1>2. Places(<<>>) = {}
  BY DEF Places
<1> QED
  BY <1>1, <1>2, PlacesAreFinite, FS_EmptySet

-----------------------------------------------------------------------------
(* The stream of an untorn connection stays cut into requests. *)

LEMMA WordsAndEnd == End \notin Word /\ \A w \in Word : w.at \in 0 .. 3
  BY DEF Word, End

(* Whole requests do not change the place in a request. *)
LEMMA ModShift ==
  ASSUME NEW a \in Nat, NEW n \in Nat, n % 4 = 0
  PROVE  (a + n) % 4 = a % 4
<1>1. n = 4 * (n \div 4) /\ n \div 4 \in Nat
  BY SMT
<1>2. ASSUME NEW m \in Nat PROVE (a + 4 * m) % 4 = a % 4
  BY SMT
<1> QED
  BY <1>1, <1>2

LEMMA WholeRest ==
  ASSUME NEW q \in Stream, Whole(q), NEW n \in 0 .. Len(q), n % 4 = 0,
         \A i \in 1 .. n : q[i] # End
  PROVE  Whole(SubSeq(q, n + 1, Len(q)))
<1> DEFINE r == SubSeq(q, n + 1, Len(q))
<1>1. Len(q) \in Nat /\ n \in Nat
  BY DEF Stream
<1>2. Len(r) = Len(q) - n /\ \A i \in 1 .. Len(r) : r[i] = q[i + n]
  BY DEF Stream
<1> HIDE DEF r
<1>3. \A i \in 1 .. Len(r) : \/ r[i] = End /\ i = Len(r)
                             \/ r[i] # End /\ r[i].at = (i - 1) % 4
  <2> SUFFICES ASSUME NEW i \in 1 .. Len(r)
               PROVE  \/ r[i] = End /\ i = Len(r)
                      \/ r[i] # End /\ r[i].at = (i - 1) % 4
    OBVIOUS
  <2>1. i + n \in 1 .. Len(q) /\ r[i] = q[i + n]
    BY <1>1, <1>2
  <2>2. (i + n - 1) % 4 = (i - 1) % 4
    <3>1. i - 1 \in Nat /\ i + n - 1 = (i - 1) + n
      BY <1>1, <1>2
    <3> QED
      BY <1>1, <3>1, ModShift
  <2> QED
    BY <1>1, <1>2, <2>1, <2>2 DEF Whole
<1>4. Len(r) % 4 = 0 \/ r[Len(r)] = End
  <2>1. CASE Len(q) % 4 = 0
    <3>1. Len(r) \in Nat /\ Len(r) + n = Len(q)
      BY <1>1, <1>2
    <3> QED
      BY <1>1, <2>1, <3>1, ModShift
  <2>2. CASE q[Len(q)] = End
    <3>1. CASE n = Len(q)
      BY <1>1, <1>2, <3>1
    <3>2. CASE n < Len(q)
      <4>1. Len(r) \in 1 .. Len(r) /\ r[Len(r)] = q[Len(q)]
        BY <1>1, <1>2, <3>2
      <4> QED
        BY <2>2, <4>1
    <3> QED
      BY <1>1, <3>1, <3>2
  <2> QED
    BY <2>1, <2>2 DEF Whole
<1> QED
  BY <1>3, <1>4 DEF Whole, r

LEMMA WholeRequest ==
  ASSUME NEW q \in Stream, Whole(q), q = <<>> \/ q[Len(q)] # End,
         NEW num \in DWORD, NEW bits \in DWORD
  PROVE  Whole(q \o Request(num, bits))
<1> DEFINE r == Request(num, bits)
           s == q \o r
<1>1. Len(q) \in Nat /\ Len(r) = 4 /\ Len(s) = Len(q) + 4
  BY DEF Stream, Request
<1>2. /\ \A i \in 1 .. Len(q) : s[i] = q[i]
      /\ \A i \in 1 .. 4 : s[Len(q) + i] = r[i]
  BY DEF Stream, Request
<1>3. \A i \in 1 .. 4 : r[i].at = i - 1 /\ r[i] # End
  BY DEF Request, End
<1>4. Len(q) % 4 = 0 /\ \A i \in 1 .. Len(q) : q[i] # End
  <2>1. q = <<>> => Len(q) = 0
    OBVIOUS
  <2> QED
    BY <1>1, <2>1 DEF Whole
<1> HIDE DEF r, s
<1>5. ASSUME NEW i \in 1 .. Len(s)
      PROVE  s[i] # End /\ s[i].at = (i - 1) % 4
  <2>1. CASE i <= Len(q)
    BY <1>1, <1>2, <1>4, <2>1 DEF Whole
  <2>2. CASE i > Len(q)
    <3> DEFINE j == i - Len(q)
    <3>1. j \in 1 .. 4 /\ i = Len(q) + j
      BY <1>1, <1>5, <2>2
    <3>2. (i - 1) % 4 = j - 1
      BY <1>1, <1>4, <3>1
    <3> QED
      BY <1>2, <1>3, <3>1, <3>2
  <2> QED
    BY <1>1, <2>1, <2>2
<1>6. Len(s) % 4 = 0
  BY <1>1, <1>4
<1> QED
  BY <1>5, <1>6 DEF Whole, s, r

LEMMA WholeEnd ==
  ASSUME NEW q \in Stream, Whole(q), q = <<>> \/ q[Len(q)] # End
  PROVE  Whole(Append(q, End))
<1> DEFINE s == Append(q, End)
<1>1. Len(q) \in Nat /\ Len(s) = Len(q) + 1 /\ s[Len(q) + 1] = End
  BY DEF Stream
<1>2. \A i \in 1 .. Len(q) : s[i] = q[i]
  BY DEF Stream
<1>3. \A i \in 1 .. Len(q) : q[i] # End
  <2>1. q = <<>> => Len(q) = 0
    OBVIOUS
  <2> QED
    BY <1>1, <2>1 DEF Whole
<1> HIDE DEF s
<1>4. \A i \in 1 .. Len(s) : \/ s[i] = End /\ i = Len(s)
                             \/ s[i] # End /\ s[i].at = (i - 1) % 4
  BY <1>1, <1>2, <1>3 DEF Whole
<1> QED
  BY <1>1, <1>4 DEF Whole, s

LEMMA WholeNothing == Whole(<<>>)
  BY DEF Whole

LEMMA AlignedInit == Init => Aligned
  BY WholeNothing DEF Init, Aligned

(* What the steps other than reads and the controllers' leave alone.       *)
Quiet ==
  \/ Main \/ Listen \/ UseClosedLoop \/ Check \/ Accept \/ AcceptFails
  \/ CloseAndSleep \/ Teardown \/ TeardownTwice \/ Over
  \/ \E c \in Clients : ReadEnd(c) \/ Connect(c)

LEMMA QuietSteps == Quiet \/ UNCHANGED vars => UNCHANGED <<inbox, torn, rung>>
  BY DEF Quiet, Main, Start, StopSet, StopCloseLoop, StopJoin, Listen, UseClosedLoop, Check,
       Accept, AcceptFails, CloseAndSleep, Teardown, TeardownTwice, ReadEnd, Connect, Over,
       vars, threadVars, connVars, pollVars, ghosts

LEMMA Steps ==
  Next => Quiet \/ \E c \in Clients : Read(c) \/ Send(c) \/ HangUp(c)
  BY DEF Next, Main, Worker, Controllers, Quiet

LEMMA AlignedNext == TypeOK /\ Aligned /\ [Next]_vars => Aligned'
<1> SUFFICES ASSUME TypeOK, Aligned, [Next]_vars PROVE Aligned'
  OBVIOUS
<1>0. DOMAIN inbox = Clients /\ \A c \in Clients : inbox[c] \in Stream
  BY DEF TypeOK, Stream
<1>1. CASE Quiet \/ UNCHANGED vars
  BY <1>1, QuietSteps DEF Aligned
<1>2. ASSUME NEW c \in Clients, Read(c) PROVE Aligned'
  <2>1. PICK n \in 0 .. Len(inbox[c]) : (\A i \in 1 .. n : inbox[c][i] # End) /\ OnRead(c, n)
    BY <1>2 DEF Read
  <2>2. inbox' = [inbox EXCEPT ![c] = SubSeq(inbox[c], n + 1, Len(inbox[c]))]
    BY <2>1 DEF OnRead
  <2>3. torn' = IF n % 4 # 0 \/ n = 0 THEN torn \cup {c} ELSE torn
    BY <2>1 DEF OnRead
  <2>4. c \notin torn' => Whole(inbox'[c])
    BY <1>0, <2>1, <2>2, <2>3, WholeRest DEF Aligned
  <2> QED
    BY <1>0, <2>2, <2>3, <2>4 DEF Aligned
<1>3. ASSUME NEW c \in Clients, Send(c) PROVE Aligned'
  <2>1. PICK num \in Numbers, bits \in Flags :
           inbox' = [inbox EXCEPT ![c] = inbox[c] \o Request(num, bits)]
    BY <1>3 DEF Send
  <2>2. inbox[c] = <<>> \/ inbox[c][Len(inbox[c])] # End
    BY <1>3 DEF Send, Ended
  <2>3. c \notin torn => Whole(inbox'[c])
    BY <1>0, <2>1, <2>2, WholeRequest, ReceiveWorkerAssumption DEF Aligned
  <2> QED
    BY <1>0, <1>3, <2>1, <2>3 DEF Aligned, Send, ghosts
<1>4. ASSUME NEW c \in Clients, HangUp(c) PROVE Aligned'
  <2>1. PICK kept \in {inbox[c], <<>>} : inbox' = [inbox EXCEPT ![c] = Append(kept, End)]
    BY <1>4 DEF HangUp
  <2>2. kept \in Stream /\ (kept = <<>> \/ kept[Len(kept)] # End)
    BY <1>0, <1>4, <2>1, SignalsOfNothing DEF HangUp, Ended
  <2>3. c \notin torn => Whole(kept)
    BY <2>1, WholeNothing DEF Aligned
  <2>4. c \notin torn => Whole(inbox'[c])
    BY <1>0, <2>1, <2>2, <2>3, WholeEnd
  <2> QED
    BY <1>0, <1>4, <2>1, <2>4 DEF Aligned, HangUp, ghosts
<1> QED
  BY <1>1, <1>2, <1>3, <1>4, Steps

(* A read is a Take of the channel: it leaves no more signals than it      *)
(* found, and if the stream is whole and it calls back, fewer.             *)
LEMMA ReadTakes ==
  ASSUME TypeOK, LifeInv, Aligned, NEW c \in Clients, Read(c)
  PROVE  /\ Channel!Take(c)
         /\ rung' # rung => Handled(c) /\ (c \in torn' \/ Signals(inbox'[c]) < Signals(inbox[c]))
<1>0. inbox[c] \in Stream /\ inbox' \in [Clients -> Stream] /\ DOMAIN inbox = Clients
  <2>1. inbox' \in [Clients -> Stream]
    <3>1. TypeOK'
      BY TypeNext DEF Next, Worker
    <3> QED
      BY <3>1 DEF TypeOK, Stream
  <2> QED
    BY <2>1 DEF TypeOK, Stream
<1>1. PICK n \in 0 .. Len(inbox[c]) :
         (\A i \in 1 .. n : inbox[c][i] # End) /\ OnRead(c, n) /\ Continues(c, n)
  BY DEF Read
<1> DEFINE q == inbox[c]
           r == SubSeq(inbox[c], n + 1, Len(inbox[c]))
<1>2. inbox' = [inbox EXCEPT ![c] = r]
  BY <1>1 DEF OnRead
<1>3. inbox'[c] = r /\ \A d \in Clients \ {c} : inbox'[d] = inbox[d]
  BY <1>0, <1>2
<1>4. torn' = IF n % 4 # 0 \/ n = 0 THEN torn \cup {c} ELSE torn
  BY <1>1 DEF OnRead
<1>5. PICK dbw2 \in (IF n >= 2 THEN {q[2].value} ELSE 0 .. 3) :
         rung' = IF Rings(dbw2) THEN ~rung ELSE rung
  BY <1>1 DEF OnRead
<1>6. /\ Signals(r) <= Signals(q) /\ Signals(r) \in Nat /\ Signals(q) \in Nat
      /\ n >= 2 /\ 2 \in Places(q) => Signals(r) < Signals(q)
  BY <1>0, <1>3, SignalsOfRest, PlacesAreFinite
<1>7. rung' # rung => c \in torn' \/ Signals(r) < Signals(q)
  <2> SUFFICES ASSUME rung' # rung, c \notin torn' PROVE Signals(r) < Signals(q)
    OBVIOUS
  <2>1. n % 4 = 0 /\ n # 0 /\ c \notin torn
    BY <1>4
  <2>2. Len(q) \in Nat /\ n \in Nat /\ n >= 2
    BY <1>0, <2>1 DEF Stream
  <2>3. InPlaceSignal(q[2].value)
    BY <1>5, <2>2 DEF Rings
  <2>4. q[2] # End /\ q[2].at = (2 - 1) % 4
    <3>1. 2 \in 1 .. n /\ 2 \in 1 .. Len(q)
      BY <2>2
    <3>2. Whole(q)
      BY <2>1 DEF Aligned
    <3> QED
      BY <1>1, <3>1, <3>2 DEF Whole
  <2>5. 2 \in Places(q)
    <3>1. q[2].at = 1
      BY <2>4
    <3> QED
      BY <2>2, <2>3, <3>1 DEF Places
  <2> QED
    BY <1>6, <2>2, <2>5
<1>8. Serving /\ Serving'
  <2>1. pc = "poll" /\ mpc' = mpc
    BY DEF Read, Turn, threadVars
  <2> QED
    BY <2>1 DEF LifeInv, Threads, TypeOK, Serving
<1> HIDE DEF q, r
<1>9. Pending' = [Pending EXCEPT ![c] = Pending[c] - (Signals(q) - Signals(r))]
  <2>1. /\ \A d \in Clients \ {c} : Pending'[d] = Pending[d]
        /\ Pending'[c] = Signals(r) /\ Pending[c] = Signals(q)
    BY <1>3 DEF Pending, q
  <2>2. Signals(r) = Signals(q) - (Signals(q) - Signals(r))
    BY <1>6
  <2> QED
    BY <2>1, <2>2 DEF Pending
<1>10. \E m \in 0 .. Pending[c] : Pending' = [Pending EXCEPT ![c] = @ - m]
  <2>1. Signals(q) - Signals(r) \in 0 .. Pending[c]
    BY <1>6 DEF Pending, q
  <2> QED
    BY <1>9, <2>1
<1>11. rung' \in BOOLEAN
  BY <1>5 DEF TypeOK
<1>12. Pending'[c] = Signals(r) /\ Pending[c] = Signals(q)
  BY <1>3 DEF Pending, q
<1>13. Channel!Take(c)
  BY <1>4, <1>7, <1>8, <1>10, <1>11, <1>12 DEF Channel!Take
<1>14. Handled(c)
  <2>1. c \in todo
    BY DEF Read, Turn
  <2>2. CASE n = 0
    BY <1>1, <2>1, <2>2, ReceiveWorkerAssumption DEF Continues, Handled
  <2>3. CASE n # 0
    <3>1. Len(r) = Len(q) - n /\ Len(q) \in Nat
      BY <1>0 DEF Stream, q, r
    <3>2. r # q
      BY <2>3, <3>1
    <3> QED
      BY <1>3, <2>1, <3>2 DEF Handled, q
  <2> QED
    BY <2>2, <2>3
<1> QED
  BY <1>3, <1>7, <1>13, <1>14 DEF q

LEMMA SendSignals ==
  ASSUME TypeOK, NEW c \in Clients, Send(c)
  PROVE  [Channel!ChannelNext]_Channel!channelVars
<1>0. inbox[c] \in Stream /\ DOMAIN inbox = Clients
  BY DEF TypeOK, Stream
<1>1. PICK num \in Numbers, bits \in Flags :
         inbox' = [inbox EXCEPT ![c] = inbox[c] \o Request(num, bits)]
  BY DEF Send
<1>2. Signals(inbox'[c]) \in {Signals(inbox[c]), Signals(inbox[c]) + 1}
  BY <1>0, <1>1, SignalsOfRequest, ReceiveWorkerAssumption
<1>3. \A d \in Clients \ {c} : inbox'[d] = inbox[d]
  BY <1>0, <1>1
<1>4. torn' = torn /\ rung' = rung /\ Serving' = Serving
  BY DEF Send, threadVars, ghosts, Serving
<1>5. CASE Signals(inbox'[c]) = Signals(inbox[c])
  <2>1. Pending' = Pending
    BY <1>3, <1>5 DEF Pending
  <2> QED
    BY <1>4, <2>1 DEF Channel!channelVars
<1>6. CASE Signals(inbox'[c]) = Signals(inbox[c]) + 1
  <2>1. Pending' = [Pending EXCEPT ![c] = @ + 1]
    BY <1>3, <1>6 DEF Pending
  <2> QED
    BY <1>4, <2>1 DEF Channel!ChannelNext, Channel!Signal
<1> QED
  BY <1>2, <1>5, <1>6

LEMMA HangUpForgets ==
  ASSUME TypeOK, NEW c \in Clients, HangUp(c)
  PROVE  [Channel!ChannelNext]_Channel!channelVars
<1>0. inbox[c] \in Stream /\ DOMAIN inbox = Clients
  BY DEF TypeOK, Stream
<1>1. PICK kept \in {inbox[c], <<>>} : inbox' = [inbox EXCEPT ![c] = Append(kept, End)]
  BY DEF HangUp
<1>2. Signals(inbox'[c]) = Signals(kept)
  BY <1>0, <1>1, SignalsOfEnd, SignalsOfNothing
<1>3. \A d \in Clients \ {c} : inbox'[d] = inbox[d]
  BY <1>0, <1>1
<1>4. torn' = torn /\ rung' = rung /\ Serving' = Serving
  BY DEF HangUp, threadVars, ghosts, Serving
<1>5. CASE kept = inbox[c]
  <2>1. Pending' = Pending
    BY <1>2, <1>3, <1>5 DEF Pending
  <2> QED
    BY <1>4, <2>1 DEF Channel!channelVars
<1>6. CASE kept = <<>>
  <2>1. Pending' = [Pending EXCEPT ![c] = 0]
    BY <1>2, <1>3, <1>6, SignalsOfNothing DEF Pending
  <2> QED
    BY <1>4, <2>1 DEF Channel!ChannelNext, Channel!Forget
<1> QED
  BY <1>1, <1>5, <1>6

LEMMA ChannelInit == Init => Channel!ChannelInit
<1> SUFFICES ASSUME Init PROVE Channel!ChannelInit
  OBVIOUS
<1>1. Pending = [c \in Clients |-> 0]
  BY SignalsOfNothing DEF Init, Pending
<1> QED
  BY <1>1 DEF Init, Channel!ChannelInit, Serving

LEMMA ChannelStep ==
  TypeOK /\ LifeInv /\ Aligned /\ [Next]_vars => [Channel!ChannelNext]_Channel!channelVars
<1> SUFFICES ASSUME TypeOK, LifeInv, Aligned, [Next]_vars
             PROVE  [Channel!ChannelNext]_Channel!channelVars
  OBVIOUS
<1>1. CASE Quiet \/ UNCHANGED vars
  <2>1. UNCHANGED <<Pending, torn, rung>>
    BY <1>1, QuietSteps DEF Pending
  <2>2. Serving' \in BOOLEAN
    BY DEF Serving
  <2> QED
    BY <2>1, <2>2 DEF Channel!ChannelNext, Channel!StartOrStop
<1>2. ASSUME NEW c \in Clients, Read(c)
      PROVE  [Channel!ChannelNext]_Channel!channelVars
  BY <1>2, ReadTakes DEF Channel!ChannelNext
<1> QED
  BY <1>1, <1>2, SendSignals, HangUpForgets, Steps

LEMMA ChannelInvariant == Spec => [](TypeOK /\ LifeInv /\ Aligned)
  BY AlignedInit, AlignedNext, TypeCorrect, LifeInvariant, PTL DEF Spec

(* The worker implements the channel: no signal is called back twice, none *)
(* that was not sent, and nobody is called back after Stop, for any number *)
(* of controllers, requests and restarts.                                  *)
THEOREM WorkerImplementsChannel == Spec => ImplementsChannel
<1>1. Channel!ChannelSpec <=> Channel!ChannelInit /\ [][Channel!ChannelNext]_Channel!channelVars
  BY DEF Channel!ChannelSpec
<1> QED
  BY <1>1, ChannelInit, ChannelStep, ChannelInvariant, PTL DEF Spec, ImplementsChannel

(* Every callback consumes an in-place signal of the connection read, or   *)
(* the reads of that connection were torn.                                 *)
THEOREM CallbackAlwaysConsumes == Spec => CallbackConsumesSignal
<1>1. TypeOK /\ LifeInv /\ Aligned /\ [Next]_vars =>
        [rung' # rung =>
           \E c \in Clients :
             Handled(c) /\ (c \in torn' \/ Signals(inbox'[c]) < Signals(inbox[c]))]_vars
  <2> SUFFICES ASSUME TypeOK, LifeInv, Aligned, Next, rung' # rung
               PROVE  \E c \in Clients :
                        Handled(c) /\ (c \in torn' \/ Signals(inbox'[c]) < Signals(inbox[c]))
    OBVIOUS
  <2>1. ~Quiet /\ \A c \in Clients : ~Send(c) /\ ~HangUp(c)
    BY QuietSteps DEF Send, HangUp, ghosts
  <2>2. PICK c \in Clients : Read(c)
    BY <2>1, Steps
  <2> QED
    BY <2>2, ReadTakes
<1> QED
  BY <1>1, ChannelInvariant, PTL DEF Spec, CallbackConsumesSignal

(* No controller whose requests were read one by one is called back for    *)
(* more often than it sent in-place signals, over all its reads and any    *)
(* number of stops and starts.  sends and calls count both per connection. *)
THEOREM NoMoreCallsThanSignals ==
  ASSUME NEW VARIABLE sends, NEW VARIABLE calls
  PROVE  /\ Spec /\ sends = [c \in Clients |-> 0] /\ calls = [c \in Clients |-> 0]
         /\ [][/\ sends' = [c \in Clients |->
                             IF Pending'[c] > Pending[c]
                             THEN sends[c] + (Pending'[c] - Pending[c]) ELSE sends[c]]
               /\ calls' = [c \in Clients |->
                             IF rung' # rung /\ Handled(c)
                             THEN calls[c] + 1 ELSE calls[c]]]_<<vars, sends, calls>>
         => [](\A c \in Clients \ torn : calls[c] <= sends[c])
<1> DEFINE H == /\ sends' = [c \in Clients |->
                              IF Pending'[c] > Pending[c]
                              THEN sends[c] + (Pending'[c] - Pending[c]) ELSE sends[c]]
                /\ calls' = [c \in Clients |->
                              IF rung' # rung /\ Handled(c)
                              THEN calls[c] + 1 ELSE calls[c]]
           Counts == sends \in [Clients -> Nat] /\ calls \in [Clients -> Nat]
           Owed == \A c \in Clients \ torn : calls[c] + Signals(inbox[c]) <= sends[c]
           Base == TypeOK /\ LifeInv /\ Aligned
<1>1. Init /\ sends = [c \in Clients |-> 0] /\ calls = [c \in Clients |-> 0] => Counts /\ Owed
  BY SignalsOfNothing DEF Init
<1>2. Base /\ TypeOK' /\ Counts /\ Owed /\ [Next]_vars /\ [H]_<<vars, sends, calls>>
        => Counts' /\ Owed'
  <2> SUFFICES ASSUME Base, TypeOK', Counts, Owed, [Next]_vars, [H]_<<vars, sends, calls>>
               PROVE  Counts' /\ Owed'
    OBVIOUS
  <2>1. CASE UNCHANGED <<vars, sends, calls>>
    BY <2>1 DEF vars, connVars, ghosts
  <2>2. CASE H
    <3>1. \A c \in Clients : Signals(inbox[c]) \in Nat /\ Signals(inbox'[c]) \in Nat
      BY PlacesAreFinite DEF TypeOK, Stream
    <3>2. \A c \in Clients : Pending[c] = Signals(inbox[c]) /\ Pending'[c] = Signals(inbox'[c])
      BY DEF Pending
    <3>3. torn \subseteq torn'
      BY DEF Next, Main, Worker, Controllers, Over, Start, StopSet, StopCloseLoop, StopJoin,
           Listen, UseClosedLoop, Check, Accept, AcceptFails, Read, OnRead, ReadEnd,
           CloseAndSleep, Teardown, TeardownTwice, Connect, Send, HangUp,
           vars, threadVars, connVars, pollVars, ghosts
    <3>4. ASSUME NEW c \in Clients \ torn', rung' # rung, Handled(c)
          PROVE  Signals(inbox'[c]) < Signals(inbox[c])
      <4>1. ~(Quiet \/ UNCHANGED vars) /\ \A d \in Clients : ~Send(d) /\ ~HangUp(d)
        BY <3>4, QuietSteps DEF Send, HangUp, ghosts
      <4>2. PICK d \in Clients : Read(d)
        BY <4>1, Steps
      <4>3. d = c
        <5>1. todo \ todo' \subseteq {d}
          BY <4>2 DEF Read, Continues
        <5>2. \A e \in Clients \ {d} : inbox'[e] = inbox[e]
          BY <4>2 DEF Read, OnRead, TypeOK
        <5> QED
          BY <3>4, <5>1, <5>2 DEF Handled
      <4> QED
        BY <3>4, <4>2, <4>3, ReadTakes
    <3>5. Counts'
      BY <2>2, <3>1, <3>2
    <3>6. ASSUME NEW c \in Clients \ torn'
          PROVE  calls'[c] + Signals(inbox'[c]) <= sends'[c]
      <4>1. /\ calls[c] \in Nat /\ sends[c] \in Nat
            /\ Signals(inbox[c]) \in Nat /\ Signals(inbox'[c]) \in Nat
            /\ calls[c] + Signals(inbox[c]) <= sends[c]
        BY <3>1, <3>3
      <4>2. sends'[c] = IF Signals(inbox'[c]) > Signals(inbox[c])
                        THEN sends[c] + (Signals(inbox'[c]) - Signals(inbox[c])) ELSE sends[c]
        BY <2>2, <3>2
      <4>3. calls'[c] = IF rung' # rung /\ Handled(c) THEN calls[c] + 1 ELSE calls[c]
        BY <2>2
      <4> QED
        BY <3>4, <4>1, <4>2, <4>3
    <3> QED
      BY <3>5, <3>6
  <2> QED
    BY <2>1, <2>2
<1>3. Base /\ Counts /\ Owed => \A c \in Clients \ torn : calls[c] <= sends[c]
  <2> SUFFICES ASSUME Base, Counts, Owed, NEW c \in Clients \ torn PROVE calls[c] <= sends[c]
    OBVIOUS
  <2>1. Signals(inbox[c]) \in Nat
    BY PlacesAreFinite DEF TypeOK, Stream
  <2> QED
    BY <2>1
<1> QED
  BY <1>1, <1>2, <1>3, ChannelInvariant, PTL DEF Spec

=============================================================================
