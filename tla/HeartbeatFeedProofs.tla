------------------------- MODULE HeartbeatFeedProofs -------------------------
(***************************************************************************)
(* What the abstract feed amounts to: in a session the controller hears    *)
(* consecutive numbers.                                                    *)
(***************************************************************************)
EXTENDS HeartbeatFeed, NumGeneratorProofs

(* The last number heard, those that wait and the next one form a run. *)
InOrder ==
  link # "down" =>
    /\ \A i \in 1 .. Len(waiting) - 1 : waiting[i + 1] = NextNum(waiting[i])
    /\ waiting # <<>> => num_ = NextNum(waiting[Len(waiting)])
    /\ heard # Nothing =>
         IF waiting # <<>> THEN waiting[1] = NextNum(heard) ELSE num_ = NextNum(heard)

FeedInv == waiting \in Seq(Nums) /\ num_ \in Nums /\ InOrder

LEMMA FeedInvInit == FeedInit => FeedInv
  BY NumsInit DEF FeedInit, FeedInv, InOrder, MaxIsSkipped

LEMMA FeedInvNext == FeedInv /\ [FeedNext]_feedVars => FeedInv'
<1> SUFFICES ASSUME FeedInv, [FeedNext]_feedVars PROVE FeedInv'
  OBVIOUS
<1> USE DEF FeedInv, InOrder
<1>1. CASE Redial
  BY <1>1 DEF Redial
<1>2. CASE ComeUp
  BY <1>2 DEF ComeUp
<1>3. CASE Hear
  <2>1. /\ waiting' \in Seq(Nums) /\ Len(waiting') = Len(waiting) - 1
        /\ \A i \in 1 .. Len(waiting) - 1 : waiting'[i] = waiting[i + 1]
        /\ waiting # <<>> /\ heard' = waiting[1] /\ Len(waiting) \in Nat /\ Len(waiting) > 0
    BY <1>3 DEF Hear
  <2>2. num_' = num_ /\ link' = link /\ link = "up"
    BY <1>3 DEF Hear
  <2>3. CASE Len(waiting) = 1
    <3>1. waiting' = <<>>
      BY <2>1, <2>3
    <3>2. num_' = NextNum(heard')
      BY <2>1, <2>2, <2>3
    <3> QED
      BY <2>2, <3>1, <3>2
  <2>4. CASE Len(waiting) > 1
    <3>1. waiting' # <<>> /\ waiting'[1] = NextNum(heard')
      BY <2>1, <2>2, <2>4
    <3>2. num_' = NextNum(waiting'[Len(waiting')])
      BY <2>1, <2>2, <2>4
    <3>3. \A i \in 1 .. Len(waiting') - 1 : waiting'[i + 1] = NextNum(waiting'[i])
      BY <2>1, <2>2, <2>4
    <3> QED
      BY <2>1, <2>2, <3>1, <3>2, <3>3
  <2> QED
    BY <2>1, <2>3, <2>4
<1>4. CASE Issue
  <2>1. num_' = NextNum(num_) /\ num_' \in Nums /\ link' = link /\ link # "down"
    BY <1>4, NextNumInRange DEF Issue, GetNum
  <2>2. CASE waiting' = Append(waiting, num_) /\ heard' = heard
    <3>1. /\ waiting' \in Seq(Nums) /\ Len(waiting') = Len(waiting) + 1 /\ Len(waiting) \in Nat
          /\ \A i \in 1 .. Len(waiting) : waiting'[i] = waiting[i]
          /\ waiting'[Len(waiting) + 1] = num_
      BY <2>2
    <3> QED
      BY <2>1, <2>2, <3>1
  <2>3. CASE waiting = <<>> /\ heard' = num_ /\ waiting' = waiting
    BY <2>1, <2>3
  <2> QED
    BY <1>4, <2>2, <2>3 DEF Issue
<1>5. CASE Lose
  <2>1. num_' \in Nums
    BY <1>5, NextNumInRange DEF Lose, GetNum
  <2>2. waiting' \in Seq(Nums)
    <3>1. waiting # <<>> => Tail(waiting) \in Seq(Nums)
      OBVIOUS
    <3>2. waiting' = waiting \/ waiting' = <<>> \/ (waiting # <<>> /\ waiting' = Tail(waiting))
      BY <1>5, Zenon DEF Lose
    <3>3. waiting \in Seq(Nums) /\ <<>> \in Seq(Nums)
      OBVIOUS
    <3> QED
      BY <3>1, <3>2, <3>3, Zenon
  <2> QED
    BY <1>5, <2>1, <2>2 DEF Lose
<1>6. CASE UNCHANGED feedVars
  BY <1>6 DEF feedVars
<1> QED
  BY <1>1, <1>2, <1>3, <1>4, <1>5, <1>6 DEF FeedNext

(* Every behaviour of the feed is heard in order: neither a queue, nor a   *)
(* loss, nor a redial makes the controller hear a number twice or skip one *)
(* within a session.                                                       *)
THEOREM FeedHeardInOrder == FeedSpec => HeardInOrder
<1>1. FeedInv /\ [FeedNext]_feedVars =>
        [heard' # heard /\ heard # Nothing => heard' \in {Nothing, NextNum(heard)}]_feedVars
  BY DEF FeedInv, InOrder, FeedNext, Redial, ComeUp, Hear, Issue, Lose
<1> QED
  BY <1>1, FeedInvInit, FeedInvNext, PTL DEF FeedSpec, HeardInOrder

=============================================================================
