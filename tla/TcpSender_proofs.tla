-------------------------- MODULE TcpSender_proofs --------------------------
(***************************************************************************)
(* Proofs about TcpSender, for every value of its constants: the           *)
(* scoreboard and the recovery point are right in every reachable state,   *)
(* nothing SACKed is sent again, the socket's assertions hold, and as long *)
(* as the window holds a segment the timer runs and the head is resent.    *)
(***************************************************************************)
EXTENDS TcpSender, NumberFacts, TLAPS

\* The fields of the socket.
Fields == {"una", "nxt", "written", "sacked", "lost", "retrans", "highSack", "cwnd",
           "cwndInfl", "ssThresh", "congState", "recover", "recoverActive", "dupAckCount",
           "isFirstPartialAck", "bytesInFlight", "retxEvent", "retries", "ackSeen", "oldCwnd",
           "maxSentSeq", "recovery", "prrDelivered", "prrOut", "recoveryFlight", "out",
           "alive", "build", "failed"}

\* The types of what the proofs speak about; the windows are left open.
Typed(s) ==
    /\ DOMAIN s = Fields
    /\ s.una \in Int /\ s.nxt \in Int /\ s.written \in Int /\ s.highSack \in Int
    /\ s.recover \in Int /\ s.dupAckCount \in Int
    /\ s.recoverActive \in BOOLEAN /\ s.isFirstPartialAck \in BOOLEAN
    /\ s.retxEvent \in BOOLEAN /\ s.alive \in BOOLEAN
    /\ s.congState \in CongStates

\* The highest SACK is SACKed, and so is all between it and any SACKed beyond it.
HighOK(s) ==
    /\ s.highSack = None <=> s.sacked = {}
    /\ s.highSack # None =>
         s.highSack \in s.sacked /\ \A j \in s.sacked : s.highSack..j \subseteq s.sacked

\* Below a lost segment everything outstanding is lost or SACKed.
LostBelow(s) == \A j \in s.lost : s.una..j \subseteq s.lost \cup s.sacked

Board(s) ==
    /\ 0 <= s.una /\ s.una <= s.nxt /\ s.nxt <= s.written /\ s.written <= NumSegs
    /\ s.sacked \subseteq Sent(s) /\ s.lost \subseteq Sent(s) /\ s.retrans \subseteq Sent(s)
    /\ s.lost \cap s.sacked = {} /\ s.una \notin s.sacked
    /\ HighOK(s) /\ LostBelow(s)

\* A timeout finds nothing outstanding only where the window let nothing go out.
Point(s) ==
    /\ s.congState = "RECOVERY" => s.recoverActive /\ s.una < s.recover /\ s.recover <= s.nxt
    /\ s.congState = "LOSS" => s.recoverActive /\ s.una <= s.recover /\ s.recover <= s.nxt
    /\ s.congState = "CWR" => s.una <= s.recover /\ s.recover <= s.nxt
    /\ s.recoverActive => s.congState \in {"RECOVERY", "LOSS", "CWR"}

\* After a timeout all that was sent before it is lost or SACKed, and is sent
\* again from the first on; new data only after that.
LossOK(s) ==
    s.congState = "LOSS" =>
        /\ s.una..(s.recover - 1) \subseteq s.lost \cup s.sacked
        /\ s.nxt # s.recover => s.una..(s.recover - 1) \subseteq s.retrans \cup s.sacked
        /\ \A i \in s.retrans : s.una..i \subseteq s.retrans \cup s.sacked

\* A duplicate ACK in CA_DISORDER finds fewer than RetxThresh before it.
CountOK(s) ==
    Running(s) /\ s.build = "debug" /\ s.congState = "DISORDER" => s.dupAckCount < RetxThresh

AssertionsHold(s) == s.failed \notin {"RtoInFlight", "RtoFlight", "DisorderCount"}

Socket(s) == Typed(s) /\ Board(s) /\ Point(s) /\ LossOK(s) /\ CountOK(s) /\ AssertionsHold(s)

\* An ACK reports what the peer has, and its own number is in no SACK list.
AckOK(a) ==
    /\ a.ack \in 0..NumSegs /\ 0..(a.ack - 1) \subseteq rcvd /\ a.sack \subseteq rcvd
    /\ \A i \in a.sack : i > a.ack
    /\ a.ack \notin snd.sacked /\ snd.una \notin a.sack
    /\ \A b \in acks : a.ack \notin b.sack

Truthful ==
    /\ net \subseteq 0..(snd.nxt - 1) /\ rcvd \subseteq 0..(snd.nxt - 1)
    /\ 0..(snd.una - 1) \subseteq rcvd /\ snd.sacked \subseteq rcvd
    /\ \A a \in acks : AckOK(a)

\* The window is all that keeps the loop of SendPendingData from sending.
Blocked == BytesInFlight(snd) = 0 /\ ~(AvailableWindow(snd) >= SegSize)

Timer ==
    /\ phase = "afterRto" =>
         /\ snd.congState = "LOSS" /\ snd.una < snd.written
         /\ snd.cwnd = SegSize /\ BytesInFlight(snd) <= SegSize
         /\ ~snd.retxEvent => snd.retrans = {} /\ snd.nxt = snd.recover
    /\ Running(snd) /\ phase # "afterRto" /\ snd.una < snd.nxt => snd.retxEvent
    /\ Idle /\ snd.una = snd.nxt /\ snd.una < snd.written => Blocked
    /\ Idle /\ snd.congState = "LOSS" /\ snd.una < snd.recover /\ snd.una \notin snd.retrans =>
         Blocked

Inv ==
    /\ Socket(snd) /\ snd.out = {} /\ phase \in {"idle", "sending", "afterRto"}
    /\ phase # "idle" => Running(snd)
    /\ Truthful /\ Timer

----------------------------------------------------------------------------
(* What the windows' operators leave alone.                                *)

Same(q, s) ==
    /\ DOMAIN q = DOMAIN s
    /\ q.una = s.una /\ q.nxt = s.nxt /\ q.written = s.written /\ q.sacked = s.sacked
    /\ q.lost = s.lost /\ q.retrans = s.retrans /\ q.highSack = s.highSack
    /\ q.congState = s.congState /\ q.recover = s.recover /\ q.recoverActive = s.recoverActive
    /\ q.dupAckCount = s.dupAckCount /\ q.isFirstPartialAck = s.isFirstPartialAck
    /\ q.retxEvent = s.retxEvent /\ q.out = s.out /\ q.alive = s.alive /\ q.build = s.build
    /\ q.failed = s.failed

LEMMA SameTrans ==
    ASSUME NEW p, NEW q, NEW s, Same(p, q), Same(q, s)
    PROVE  Same(p, s)
  BY DEF Same

LEMMA CerlSame ==
    ASSUME NEW s, DOMAIN s = Fields, NEW c
    PROVE  Same(CerlEnterRecovery(s, c), s) /\ Same(CerlExitRecovery(s), s)
  <1>1. Same(CerlEnterRecovery(s, c), s)
    BY DEF CerlEnterRecovery, Same, Fields
  <1>2. Same(CerlExitRecovery(s), s)
    BY DEF CerlExitRecovery, Same, Fields
  <1> QED  BY <1>1, <1>2

LEMMA IncreaseSame ==
    ASSUME NEW s, DOMAIN s = Fields, NEW n
    PROVE  Same(IncreaseWindow(s, n), s)
  <1>1. ASSUME NEW t, DOMAIN t = Fields PROVE Same(t, t) /\ Same(SlowStart(t), t) /\ Same(CongestionAvoidance(t), t)
    BY <1>1 DEF SlowStart, CongestionAvoidance, Same, Fields
  <1> DEFINE u == SlowStart(s)
  <1>2. DOMAIN u = Fields /\ Same(u, s)
    BY <1>1 DEF Same
  <1>3. Same(CongestionAvoidance(u), s)
    BY <1>1, <1>2, SameTrans
  <1> QED  BY <1>1, <1>2, <1>3 DEF IncreaseWindow

LEMMA PrrSame ==
    ASSUME NEW s, DOMAIN s = Fields, NEW d, NEW r
    PROVE  Same(PrrDoRecovery(s, d, r), s)
  BY DEF PrrDoRecovery, Same, Fields

LEMMA RecoverySame ==
    ASSUME NEW s, DOMAIN s = Fields, NEW d, NEW r
    PROVE  Same(DoRecovery(s, d, r), s) /\ Same(RecoveryOpsEnter(s, d, r), s) /\ Same(RecoveryOpsExit(s), s)
  <1>1. Same(DoRecovery(s, d, r), s)
    BY PrrSame DEF DoRecovery, Same, Fields
  <1>2. Same(RecoveryOpsEnter(s, d, r), s)
    <2> DEFINE t == [s EXCEPT !.prrOut = 0, !.prrDelivered = 0,
                              !.recoveryFlight = SegSize * (s.nxt - s.una)]
    <2>1. DOMAIN t = Fields /\ Same(t, s)
      BY DEF Same, Fields
    <2>2. Same(PrrDoRecovery(t, d, r), s)
      BY <2>1, PrrSame, SameTrans
    <2> HIDE DEF t
    <2>3. CASE s.recovery = "PRR"
      BY <2>2, <2>3 DEF RecoveryOpsEnter, t
    <2>4. CASE s.recovery # "PRR"
      BY <2>4 DEF RecoveryOpsEnter, Same, Fields
    <2> QED  BY <2>3, <2>4
  <1>3. Same(RecoveryOpsExit(s), s)
    BY DEF RecoveryOpsExit, Same, Fields
  <1> QED  BY <1>1, <1>2, <1>3

----------------------------------------------------------------------------
(* The scoreboard.                                                         *)

\* All but una and the marks.
Ctl(q, s) ==
    /\ DOMAIN q = DOMAIN s
    /\ q.nxt = s.nxt /\ q.written = s.written
    /\ q.congState = s.congState /\ q.recover = s.recover /\ q.recoverActive = s.recoverActive
    /\ q.dupAckCount = s.dupAckCount /\ q.isFirstPartialAck = s.isFirstPartialAck
    /\ q.retxEvent = s.retxEvent /\ q.out = s.out /\ q.alive = s.alive /\ q.build = s.build
    /\ q.failed = s.failed

LEMMA SentFinite ==
    ASSUME NEW s, Typed(s), NEW S, S \subseteq Sent(s)
    PROVE  IsFiniteSet(S) /\ Cardinality(S) \in Nat
  <1>1. IsFiniteSet(Sent(s))
    BY FS_Interval DEF Sent, Typed
  <1>2. IsFiniteSet(S)
    BY <1>1, FS_Subset
  <1> QED  BY <1>2, FS_CardinalityType

LEMMA LostCountFacts ==
    ASSUME NEW s, Typed(s), Board(s)
    PROVE  LET q == LostCount(s) IN
           /\ Ctl(q, s) /\ q.una = s.una /\ q.sacked = s.sacked /\ q.retrans = s.retrans
           /\ q.highSack = s.highSack /\ s.lost \subseteq q.lost /\ Board(q)
  <1> DEFINE q == LostCount(s)
             above(i) == {j \in s.sacked : i <= j /\ j <= s.highSack}
             others == {j \in s.sacked : j # s.una /\ j <= s.highSack}
             marked == {i \in Sent(s) : /\ i # s.una /\ i <= s.highSack /\ i \notin s.sacked
                                        /\ Cardinality(above(i)) >= RetxThresh}
             head == {i \in {s.una} : Cardinality({j \in s.sacked : j # i /\ j <= s.highSack})
                                        >= RetxThresh}
  <1>1. q = [s EXCEPT !.lost = @ \cup marked \cup head]
    BY DEF LostCount
  <1>2. head = IF Cardinality(others) >= RetxThresh THEN {s.una} ELSE {}
    OBVIOUS
  <1>3. RetxThresh \in Nat /\ RetxThresh > 0
    BY SenderAssumption
  <1>4. s.sacked \subseteq Sent(s) /\ s.una \notin s.sacked /\ s.una \in Int /\ s.nxt \in Int /\ s.highSack \in Int
    BY DEF Board, Typed
  <1>5. ASSUME NEW j \in marked, NEW i \in s.una..j, i \notin s.sacked
        PROVE  i \in marked \cup head
    <2>1. j \in Sent(s) /\ j <= s.highSack /\ j # s.una /\ Cardinality(above(j)) >= RetxThresh
      OBVIOUS
    <2>2. j \in Int /\ i \in Int /\ j < s.nxt /\ s.una <= i /\ i <= j
      BY <1>4, <2>1 DEF Sent
    <2>3. /\ above(j) \subseteq above(i) /\ above(j) \subseteq others
      <3>1. \A x \in s.sacked : x \in Int
        BY <1>4 DEF Sent
      <3> QED  BY <1>4, <2>2, <3>1
    <2>4. /\ IsFiniteSet(above(i)) /\ IsFiniteSet(others)
          /\ Cardinality(above(i)) \in Nat /\ Cardinality(others) \in Nat /\ Cardinality(above(j)) \in Nat
      <3>1. above(i) \subseteq Sent(s) /\ above(j) \subseteq Sent(s) /\ others \subseteq Sent(s)
        BY <1>4
      <3> QED  BY <3>1, SentFinite
    <2>5. Cardinality(above(j)) <= Cardinality(above(i)) /\ Cardinality(above(j)) <= Cardinality(others)
      BY <2>3, <2>4, FS_Subset
    <2>6. Cardinality(above(i)) >= RetxThresh /\ Cardinality(others) >= RetxThresh
      BY <1>3, <2>1, <2>4, <2>5
    <2>7. CASE i = s.una
      BY <1>2, <2>6, <2>7
    <2>8. CASE i # s.una
      <3>1. i \in Sent(s) /\ i <= s.highSack
        BY <1>4, <2>1, <2>2 DEF Sent
      <3> QED  BY <1>5, <2>6, <2>8, <3>1
    <2> QED  BY <2>7, <2>8
  <1>6. head \subseteq {s.una} /\ head \cap s.sacked = {}
    BY <1>4
  <1>7. marked \cap s.sacked = {} /\ marked \subseteq Sent(s)
    OBVIOUS
  <1>12. marked # {} \/ head # {} => s.una < s.nxt
    <2>1. marked # {} => s.una < s.nxt
      BY <1>4 DEF Sent
    <2>2. head # {} => others # {}
      <3>1. others = {} => Cardinality(others) = 0
        BY FS_EmptySet
      <3> HIDE DEF others, head
      <3> QED  BY <1>2, <1>3, <3>1
    <2>3. others # {} => s.una < s.nxt
      BY <1>4 DEF Sent
    <2> QED  BY <2>1, <2>2, <2>3
  <1> HIDE DEF marked, head
  <1>8. /\ Ctl(q, s) /\ q.una = s.una /\ q.sacked = s.sacked /\ q.retrans = s.retrans
        /\ q.highSack = s.highSack /\ q.lost = s.lost \cup marked \cup head
    BY <1>1 DEF Ctl, Typed, Fields
  <1> HIDE DEF q
  <1>9. q.lost \subseteq Sent(q)
    <2>1. Sent(q) = Sent(s)
      BY <1>8 DEF Sent, Ctl
    <2>2. head \subseteq Sent(s)
      BY <1>4, <1>6, <1>12 DEF Sent
    <2> QED  BY <1>7, <1>8, <2>1, <2>2 DEF Board
  <1>10. LostBelow(q)
    <2> SUFFICES ASSUME NEW j \in q.lost, NEW i \in q.una..j, i \notin q.sacked
                 PROVE  i \in q.lost
      BY DEF LostBelow
    <2>1. CASE j \in s.lost
      BY <1>8, <2>1 DEF Board, LostBelow
    <2>2. CASE j \in marked
      BY <1>5, <1>8, <2>2
    <2>3. CASE j \in head
      <3>1. j = s.una /\ i = j
        BY <1>4, <1>6, <1>8, <2>3
      <3> QED  BY <1>8, <2>3, <3>1
    <2> QED  BY <1>8, <2>1, <2>2, <2>3
  <1>11. Board(q)
    BY <1>4, <1>6, <1>7, <1>8, <1>9, <1>10 DEF Board, Sent, HighOK, Ctl
  <1> QED  BY <1>8, <1>11 DEF q

LEMMA UpdateFacts ==
    ASSUME NEW s, Typed(s), Board(s), NEW list, s.una \notin list
    PROVE  LET q == Update(s, list)
               new == NewlySacked(s, list) IN
           /\ Ctl(q, s) /\ q.una = s.una /\ q.sacked = s.sacked \cup new
           /\ q.retrans = s.retrans /\ s.lost \ new \subseteq q.lost /\ q.highSack \in Int
           /\ Board(q)
  <1> DEFINE new == NewlySacked(s, list)
             h == HighestSack(s, new)
             u == [s EXCEPT !.sacked = @ \cup new, !.lost = @ \ new, !.highSack = h]
  <1>1. CASE new = {}
    <2>1. Update(s, list) = s
      BY <1>1 DEF Update
    <2> QED  BY <1>1, <2>1 DEF Ctl, Typed
  <1>2. CASE new # {}
    <2>1. Update(s, list) = LostCount(u)
      BY <1>2 DEF Update
    <2>2. /\ new \subseteq Sent(s) /\ new \cap s.sacked = {} /\ s.una \notin new
      BY DEF NewlySacked
    <2>3. /\ s.una \in Int /\ s.nxt \in Int /\ s.highSack \in Int /\ 0 <= s.una
          /\ s.nxt <= NumSegs /\ s.sacked \subseteq Sent(s)
      BY SenderAssumption DEF Board, Typed
    <2>4. Max(new) \in new /\ \A x \in new : x <= Max(new)
      <3>1. NumSegs \in Nat /\ new \subseteq 0..NumSegs
        BY <2>2, <2>3, SenderAssumption DEF Sent
      <3> QED  BY <1>2, <3>1, MaxFacts
    <2> DEFINE m == Max(new)
    <2>5. h = IF s.highSack = None \/ s.highSack <= m + 1 THEN m ELSE s.highSack
      BY DEF HighestSack
    <2>6. m \in Int /\ m >= 0 /\ \A x \in new : x \in Int /\ x <= m
      BY <2>2, <2>3, <2>4 DEF Sent
    <2> HIDE DEF new, h
    <2>7. /\ Ctl(u, s) /\ u.una = s.una /\ u.sacked = s.sacked \cup new /\ u.lost = s.lost \ new
          /\ u.retrans = s.retrans /\ u.highSack = h
      BY DEF Ctl, Typed, Fields
    <2> HIDE DEF m, u
    <2>8. h \in s.sacked \cup new /\ h # None /\ h \in Int
      <3>1. CASE s.highSack = None \/ s.highSack <= m + 1
        BY <2>4, <2>5, <2>6, <3>1 DEF m, None
      <3>2. CASE ~(s.highSack = None \/ s.highSack <= m + 1)
        BY <2>3, <2>5, <3>2 DEF Board, HighOK
      <3> QED  BY <3>1, <3>2
    <2>14. \A y \in s.sacked \cup new : y \in Int
      <3>1. \A y \in Sent(s) : y \in Int
        BY <2>3 DEF Sent
      <3> QED  BY <2>2, <2>3, <3>1
    <2>9. ASSUME NEW j \in s.sacked \cup new, NEW x \in h..j
          PROVE  x \in s.sacked \cup new
      <3>0. j \in Int /\ x \in Int /\ h <= x /\ x <= j
        BY <2>8, <2>14
      <3>1. CASE j \in new
        <4>1. j <= m
          BY <2>6, <3>1
        <4>2. CASE s.highSack = None \/ s.highSack <= m + 1
          BY <2>4, <2>5, <2>6, <3>0, <4>1, <4>2 DEF m
        <4>3. CASE ~(s.highSack = None \/ s.highSack <= m + 1)
          BY <2>3, <2>5, <2>6, <3>0, <4>1, <4>3
        <4> QED  BY <4>2, <4>3
      <3>2. CASE j \in s.sacked
        <4>1. s.highSack # None /\ s.highSack..j \subseteq s.sacked
          BY <3>2 DEF Board, HighOK
        <4>2. CASE x < s.highSack
          <5>1. h = m /\ x = m
            BY <2>3, <2>5, <2>6, <3>0, <4>1, <4>2
          <5> QED  BY <2>4, <5>1 DEF m
        <4>3. CASE x >= s.highSack
          BY <2>3, <3>0, <4>1, <4>3
        <4> QED  BY <2>3, <3>0, <4>2, <4>3
      <3> QED  BY <3>1, <3>2
    <2>10. Typed(u)
      BY <2>7, <2>8 DEF Typed, Ctl
    <2>11. Board(u)
      <3>1. HighOK(u)
        BY <1>2, <2>7, <2>8, <2>9 DEF HighOK
      <3>2. LostBelow(u)
        BY <2>7 DEF LostBelow, Board
      <3>3. Sent(u) = Sent(s)
        BY <2>7 DEF Sent, Ctl
      <3> QED  BY <2>2, <2>7, <3>1, <3>2, <3>3 DEF Board, Ctl
    <2>12. /\ Ctl(LostCount(u), u) /\ LostCount(u).una = u.una /\ LostCount(u).sacked = u.sacked
           /\ LostCount(u).retrans = u.retrans /\ LostCount(u).highSack = u.highSack
           /\ u.lost \subseteq LostCount(u).lost /\ Board(LostCount(u))
      BY <2>10, <2>11, LostCountFacts
    <2> DEFINE q == LostCount(u)
    <2> HIDE DEF q
    <2>13. /\ Ctl(q, s) /\ q.una = s.una /\ q.sacked = s.sacked \cup new
           /\ q.retrans = s.retrans /\ s.lost \ new \subseteq q.lost /\ q.highSack \in Int
           /\ Board(q)
      BY <2>7, <2>8, <2>12 DEF Ctl, q
    <2> QED  BY <2>1, <2>13 DEF q, new
  <1> QED  BY <1>1, <1>2

LEMMA DiscardFacts ==
    ASSUME NEW s, Typed(s), Board(s), NEW ack \in Int, s.una <= ack, ack <= s.nxt,
           ack \notin s.sacked
    PROVE  LET q == DiscardUpTo(s, ack)
               kept == ack..(s.nxt - 1) IN
           /\ Ctl(q, s) /\ q.una = ack /\ q.sacked = s.sacked \cap kept
           /\ q.lost = s.lost \cap kept /\ q.retrans = s.retrans \cap kept
           /\ Typed(q) /\ Board(q)
  <1> DEFINE q == DiscardUpTo(s, ack)
             kept == ack..(s.nxt - 1)
             h == IF s.highSack <= ack THEN None ELSE s.highSack
  <1>1. /\ Ctl(q, s) /\ q.una = ack /\ q.sacked = s.sacked \cap kept
        /\ q.lost = s.lost \cap kept /\ q.retrans = s.retrans \cap kept
        /\ q.highSack = h
    BY DEF DiscardUpTo, Ctl, Typed, Fields
  <1>2. h \in Int
    BY DEF Typed, None
  <1>3. Typed(q)
    BY <1>1, <1>2 DEF Typed, Ctl
  <1>4. /\ s.una \in Int /\ s.nxt \in Int /\ s.highSack \in Int /\ 0 <= s.una
        /\ s.sacked \subseteq s.una..(s.nxt - 1)
    BY DEF Board, Typed, Sent
  <1>5. HighOK(q)
    <2>1. CASE s.highSack = None
      <3>1. s.sacked = {} /\ h = None
        BY <2>1 DEF Board, HighOK
      <3> QED  BY <1>1, <3>1 DEF HighOK
    <2>2. CASE s.highSack # None /\ s.highSack <= ack
      <3>1. s.highSack < ack /\ \A j \in s.sacked : s.highSack..j \subseteq s.sacked
        BY <1>4, <2>2 DEF Board, HighOK
      <3>2. ASSUME NEW j \in s.sacked \cap kept PROVE FALSE
        <4>1. ack \in s.highSack..j
          BY <1>4, <3>1, <3>2
        <4> QED  BY <3>1, <3>2, <4>1
      <3> QED  BY <1>1, <2>2, <3>2 DEF HighOK
    <2>3. CASE s.highSack # None /\ ~(s.highSack <= ack)
      <3>1. s.highSack \in s.sacked /\ \A j \in s.sacked : s.highSack..j \subseteq s.sacked
        BY <2>3 DEF Board, HighOK
      <3>2. h = s.highSack /\ h \in s.sacked \cap kept
        BY <1>4, <2>3, <3>1
      <3>3. \A j \in s.sacked \cap kept : h..j \subseteq s.sacked \cap kept
        BY <1>4, <2>3, <3>1, <3>2
      <3> HIDE DEF h, kept, q
      <3> QED  BY <1>1, <2>3, <3>2, <3>3 DEF HighOK
    <2> QED  BY <2>1, <2>2, <2>3
  <1>6. LostBelow(q)
    BY <1>1, <1>4 DEF LostBelow, Board, Sent
  <1>7. Sent(q) = kept /\ q.una = ack /\ q.nxt = s.nxt /\ q.written = s.written
    BY <1>1 DEF Sent, Ctl
  <1>8. Board(q)
    BY <1>1, <1>4, <1>5, <1>6, <1>7 DEF Board
  <1> QED  BY <1>1, <1>3, <1>8

LEMMA HeadLostFacts ==
    ASSUME NEW s, Typed(s), Board(s), s.una < s.nxt
    PROVE  LET q == MarkHeadAsLost(s) IN
           /\ Ctl(q, s) /\ q.una = s.una /\ q.sacked = s.sacked /\ q.highSack = s.highSack
           /\ q.lost = s.lost \cup {s.una} /\ q.retrans = s.retrans \ {s.una}
           /\ Typed(q) /\ Board(q)
  <1> DEFINE q == MarkHeadAsLost(s)
  <1>1. s.una # s.nxt /\ s.una \in Int /\ s.nxt \in Int
    BY DEF Typed
  <1>2. s.sacked \ {s.una} = s.sacked
    BY DEF Board
  <1>3. /\ Ctl(q, s) /\ q.una = s.una /\ q.sacked = s.sacked /\ q.highSack = s.highSack
        /\ q.lost = s.lost \cup {s.una} /\ q.retrans = s.retrans \ {s.una}
    BY <1>1, <1>2 DEF MarkHeadAsLost, Ctl, Typed, Fields
  <1>4. Typed(q)
    BY <1>3 DEF Typed, Ctl
  <1>5. Sent(q) = Sent(s) /\ s.una \in Sent(s)
    BY <1>1, <1>3 DEF Sent, Ctl
  <1>6. LostBelow(q)
    <2> SUFFICES ASSUME NEW j \in q.lost, NEW i \in q.una..j PROVE i \in q.lost \cup q.sacked
      BY DEF LostBelow
    <2>1. CASE j \in s.lost
      BY <1>3, <2>1 DEF Board, LostBelow
    <2>2. CASE j = s.una
      BY <1>1, <1>3, <2>2
    <2> QED  BY <1>3, <2>1, <2>2
  <1> HIDE DEF q
  <1>7. Board(q)
    BY <1>3, <1>5, <1>6 DEF Board, HighOK, Ctl
  <1> QED  BY <1>3, <1>4, <1>7 DEF q

LEMMA AllLostFacts ==
    ASSUME NEW s, Typed(s), Board(s)
    PROVE  LET q == SetSentListLost(s) IN
           /\ Ctl(q, s) /\ q.una = s.una /\ q.sacked = s.sacked /\ q.highSack = s.highSack
           /\ q.lost = Sent(s) \ s.sacked /\ q.retrans = {}
           /\ Typed(q) /\ Board(q)
  <1> DEFINE q == SetSentListLost(s)
  <1>1. /\ Ctl(q, s) /\ q.una = s.una /\ q.sacked = s.sacked /\ q.highSack = s.highSack
        /\ q.lost = Sent(s) \ s.sacked /\ q.retrans = {}
    BY DEF SetSentListLost, Ctl, Typed, Fields
  <1> HIDE DEF q
  <1>2. Typed(q)
    BY <1>1 DEF Typed, Ctl
  <1>3. Sent(q) = Sent(s) /\ s.una \in Int /\ s.nxt \in Int
    BY <1>1 DEF Sent, Ctl, Typed
  <1>4. LostBelow(q)
    BY <1>1, <1>3 DEF LostBelow, Sent
  <1>5. Board(q)
    BY <1>1, <1>3, <1>4 DEF Board, HighOK, Ctl
  <1> QED  BY <1>1, <1>2, <1>5 DEF q

----------------------------------------------------------------------------
(* What is sent next.                                                      *)

LEMMA NextSegFacts ==
    ASSUME NEW s, Typed(s), Board(s), NEW b
    PROVE  LET i == NextSeg(s, b)
               rule1 == s.lost \ (s.retrans \cup s.sacked) IN
           /\ rule1 # {} => i \in rule1 /\ \A j \in rule1 : i <= j
           /\ rule1 = {} =>
                \/ i = None
                \/ i = s.nxt /\ s.nxt < s.written /\ SegSize * (s.nxt - s.una) <= RWnd
                \/ b /\ i \in Sent(s) \ (s.retrans \cup s.sacked)
           /\ i \in Int /\ i # None => i \in s.una..(s.written - 1) /\ i \notin s.sacked
  <1> DEFINE i == NextSeg(s, b)
             rule1 == s.lost \ (s.retrans \cup s.sacked)
             rule3 == Sent(s) \ (s.retrans \cup s.sacked)
  <1>1. /\ s.una \in Int /\ s.nxt \in Int /\ 0 <= s.una /\ s.una <= s.nxt /\ s.nxt <= s.written
        /\ s.written \in Int /\ s.lost \subseteq Sent(s) /\ s.sacked \subseteq Sent(s)
    BY DEF Board, Typed
  <1>2. rule1 \subseteq Nat /\ rule3 \subseteq Nat /\ rule1 \subseteq Sent(s)
    BY <1>1 DEF Sent
  <1>3. i = IF rule1 # {} THEN Min(rule1)
            ELSE IF s.nxt < s.written
            THEN IF SegSize * (s.nxt - s.una) <= RWnd THEN s.nxt ELSE None
            ELSE IF b /\ rule3 # {} THEN Min(rule3)
            ELSE None
    BY DEF NextSeg
  <1>4. rule1 # {} => Min(rule1) \in rule1 /\ \A j \in rule1 : Min(rule1) <= j
    BY <1>2, MinFacts
  <1>5. rule3 # {} => Min(rule3) \in rule3
    BY <1>2, MinFacts
  <1>6. rule3 \subseteq Sent(s) /\ rule3 \cap s.sacked = {} /\ rule1 \cap s.sacked = {}
    OBVIOUS
  <1>7. s.nxt \notin s.sacked /\ \A x \in Sent(s) : x \in s.una..(s.written - 1)
    BY <1>1 DEF Sent
  <1> HIDE DEF i, rule1
  <1>8. rule1 # {} => i \in rule1 /\ \A j \in rule1 : i <= j
    BY <1>3, <1>4
  <1>9. rule1 = {} =>
          \/ i = None
          \/ i = s.nxt /\ s.nxt < s.written /\ SegSize * (s.nxt - s.una) <= RWnd
          \/ b /\ i \in rule3
    <2> HIDE DEF rule3
    <2> QED  BY <1>3, <1>5
  <1>10. i \in Int /\ i # None => i \in s.una..(s.written - 1) /\ i \notin s.sacked
    <2> HIDE DEF rule3
    <2>1. CASE rule1 # {}
      BY <1>2, <1>6, <1>7, <1>8, <2>1
    <2>2. CASE rule1 = {} /\ i = s.nxt /\ s.nxt < s.written
      BY <1>1, <1>7, <2>2
    <2>3. CASE rule1 = {} /\ i \in rule3
      BY <1>6, <1>7, <2>3
    <2> QED  BY <1>9, <2>1, <2>2, <2>3
  <1> QED  BY <1>8, <1>9, <1>10 DEF i, rule1

\* A segment that may be sent: one outstanding that is not SACKed, or the next.
Sendable(s, i) ==
    i \in Int /\ s.una <= i /\ i <= s.nxt /\ i < s.written /\ i \notin s.sacked

LEMMA SendableFacts ==
    ASSUME NEW s, Typed(s), Board(s), NEW b, NextSeg(s, b) # None
    PROVE  Sendable(s, NextSeg(s, b))
  <1> DEFINE i == NextSeg(s, b)
             rule1 == s.lost \ (s.retrans \cup s.sacked)
  <1>1. /\ s.una \in Int /\ s.nxt \in Int /\ 0 <= s.una /\ s.una <= s.nxt /\ s.nxt <= s.written
        /\ s.written \in Int /\ s.lost \subseteq Sent(s) /\ s.sacked \subseteq Sent(s)
    BY DEF Board, Typed
  <1>2. i \in Sent(s) \/ (i = s.nxt /\ s.nxt < s.written)
    BY <1>1, NextSegFacts
  <1>3. i \in Int /\ s.una <= i /\ i <= s.nxt /\ i < s.written
    BY <1>1, <1>2 DEF Sent
  <1>4. i \notin s.sacked
    BY <1>3, NextSegFacts
  <1> QED  BY <1>3, <1>4 DEF Sendable

\* All but what sending a segment changes.
SendKeeps(q, s) ==
    /\ DOMAIN q = DOMAIN s
    /\ q.una = s.una /\ q.written = s.written /\ q.sacked = s.sacked /\ q.lost = s.lost
    /\ q.highSack = s.highSack /\ q.cwnd = s.cwnd
    /\ q.congState = s.congState /\ q.recover = s.recover /\ q.recoverActive = s.recoverActive
    /\ q.dupAckCount = s.dupAckCount /\ q.isFirstPartialAck = s.isFirstPartialAck
    /\ q.alive = s.alive /\ q.build = s.build

LEMMA SendFacts ==
    ASSUME NEW s, Typed(s), Board(s), NEW i, Sendable(s, i)
    PROVE  LET q == SendDataPacket(s, i) IN
           /\ SendKeeps(q, s) /\ Typed(q) /\ Board(q)
           /\ \/ /\ q.failed \notin {"none", "RtoInFlight", "RtoFlight", "DisorderCount"} \/ q.failed = s.failed
                 /\ q.failed # "none" /\ q.nxt = s.nxt
                 /\ q.retrans = s.retrans /\ q.out = s.out /\ q.retxEvent = s.retxEvent
                 /\ i = s.nxt
              \/ /\ q.failed = s.failed /\ q.retxEvent /\ q.out = s.out \cup {i}
                 /\ i < s.nxt => q.nxt = s.nxt /\ q.retrans = s.retrans \cup {i}
                 /\ i = s.nxt => q.nxt = s.nxt + 1 /\ q.retrans = s.retrans
  <1> DEFINE q == SendDataPacket(s, i)
             n == Max({s.nxt, i + 1})
             p == IF s.congState \in {"RECOVERY", "CWR"} THEN (s.prrOut + SegSize) % Word
                  ELSE s.prrOut
             r == IF i < s.nxt THEN s.retrans \cup {i} ELSE s.retrans
  <1>1. /\ s.una \in Int /\ s.nxt \in Int /\ s.written \in Int /\ i \in Int
        /\ s.una <= i /\ i <= s.nxt /\ i < s.written /\ i \notin s.sacked
    BY DEF Sendable, Typed
  <1>2. n = IF i < s.nxt THEN s.nxt ELSE s.nxt + 1
    BY <1>1, PairFacts
  <1>3. CASE SizeAllowed(s, i) = 0
    <2>1. i = s.nxt
      BY <1>1, <1>3, SenderAssumption DEF SizeAllowed
    <2> DEFINE f == IF s.failed = "none" THEN "EmptySegment" ELSE s.failed
    <2>2. q = [s EXCEPT !.failed = f]
      BY <1>3 DEF SendDataPacket
    <2>3. f # "none" /\ (f \notin {"none", "RtoInFlight", "RtoFlight", "DisorderCount"} \/ f = s.failed)
      OBVIOUS
    <2> HIDE DEF f
    <2>4. /\ SendKeeps(q, s) /\ q.failed = f /\ q.nxt = s.nxt /\ q.retrans = s.retrans
          /\ q.out = s.out /\ q.retxEvent = s.retxEvent
      BY <2>2 DEF SendKeeps, Typed, Fields
    <2> HIDE DEF q
    <2>5. Typed(q) /\ Board(q)
      BY <2>4 DEF Typed, Board, SendKeeps, Sent, HighOK, LostBelow
    <2> QED  BY <2>1, <2>3, <2>4, <2>5 DEF q
  <1>4. CASE SizeAllowed(s, i) # 0
    <2>1. q = [s EXCEPT !.bytesInFlight = BytesInFlight(s), !.nxt = n, !.retrans = r,
                        !.retxEvent = TRUE, !.prrOut = p, !.out = s.out \cup {i}]
      BY <1>4 DEF SendDataPacket
    <2> HIDE DEF n, p, r
    <2>2. /\ SendKeeps(q, s) /\ q.failed = s.failed /\ q.nxt = n /\ q.retrans = r
          /\ q.out = s.out \cup {i} /\ q.retxEvent = TRUE
      BY <2>1 DEF SendKeeps, Typed, Fields
    <2>3. n \in Int /\ s.nxt <= n /\ n <= s.written
      BY <1>1, <1>2 DEF Board
    <2>4. r \subseteq s.una..(n - 1)
      BY <1>1, <1>2, <2>3 DEF r, Board, Sent
    <2>5. /\ s.sacked \subseteq s.una..(n - 1) /\ s.lost \subseteq s.una..(n - 1)
      BY <1>1, <2>3 DEF Board, Sent
    <2> HIDE DEF q
    <2>6. Typed(q)
      BY <2>2, <2>3 DEF Typed, SendKeeps
    <2>7. Board(q)
      BY <2>2, <2>3, <2>4, <2>5, <1>1 DEF Board, SendKeeps, Sent, HighOK, LostBelow
    <2>8. /\ i < s.nxt => q.nxt = s.nxt /\ q.retrans = s.retrans \cup {i}
          /\ i = s.nxt => q.nxt = s.nxt + 1 /\ q.retrans = s.retrans
      BY <1>1, <1>2, <2>2 DEF r
    <2> QED  BY <2>2, <2>6, <2>7, <2>8 DEF q
  <1> QED  BY <1>3, <1>4

----------------------------------------------------------------------------
(* What every part of a handler gives.                                     *)

SameMarks(q, s) ==
    /\ q.una = s.una /\ q.nxt = s.nxt /\ q.written = s.written /\ q.sacked = s.sacked
    /\ q.lost = s.lost /\ q.retrans = s.retrans /\ q.highSack = s.highSack

LEMMA MarksBoard ==
    ASSUME NEW q, NEW s, SameMarks(q, s), Board(s)
    PROVE  Board(q)
  BY DEF SameMarks, Board, Sent, HighOK, LostBelow

Watched == {"RtoInFlight", "RtoFlight", "DisorderCount"}

\* The scoreboard stays right, SND.UNA and what is SACKed stay, only segments
\* that are not SACKed are sent again, the timer is not lost, and no watched
\* assertion fails.
Gives(q, s) ==
    /\ Typed(q) /\ Board(q)
    /\ q.una = s.una /\ q.sacked = s.sacked /\ q.written = s.written
    /\ q.alive = s.alive /\ q.build = s.build
    /\ s.nxt <= q.nxt
    /\ \A i \in q.retrans \ s.retrans : i \notin s.sacked
    /\ q.out \subseteq s.out \cup s.una..(q.nxt - 1)
    /\ s.una \in s.retrans => s.una \in q.retrans
    /\ (s.una < s.nxt => s.retxEvent) => (q.una < q.nxt => q.retxEvent)
    /\ q.failed = s.failed \/ q.failed \notin Watched \cup {"none"}

LEMMA GivesTrans ==
    ASSUME NEW p, NEW q, NEW s, Typed(s), Gives(q, s), Gives(p, q)
    PROVE  Gives(p, s)
  <1>1. s.nxt \in Int /\ q.nxt \in Int /\ p.nxt \in Int /\ s.una \in Int
    BY DEF Gives, Typed
  <1>2. s.nxt <= p.nxt
    BY <1>1 DEF Gives
  <1>3. \A i \in p.retrans \ s.retrans : i \notin s.sacked
    BY DEF Gives
  <1>4. p.out \subseteq s.out \cup s.una..(p.nxt - 1)
    <2>1. q.nxt <= p.nxt /\ q.una = s.una
      BY DEF Gives
    <2>2. s.una..(q.nxt - 1) \subseteq s.una..(p.nxt - 1)
      BY <1>1, <2>1
    <2> QED  BY <2>1, <2>2 DEF Gives
  <1> QED  BY <1>2, <1>3, <1>4 DEF Gives

LEMMA MarksGive ==
    ASSUME NEW q, NEW s, Typed(s), Board(s), Typed(q), SameMarks(q, s), q.out = s.out,
           q.alive = s.alive, q.build = s.build,
           (s.una < s.nxt => s.retxEvent) => (q.una < q.nxt => q.retxEvent),
           q.failed = s.failed \/ q.failed \notin Watched \cup {"none"}
    PROVE  Gives(q, s)
  BY MarksBoard DEF Gives, SameMarks, Typed

LEMMA SameGives ==
    ASSUME NEW q, NEW s, Typed(s), Board(s), Same(q, s)
    PROVE  Gives(q, s) /\ Typed(q) /\ Board(q) /\ SameMarks(q, s)
  <1>1. Typed(q) /\ SameMarks(q, s)
    BY DEF Same, Typed, SameMarks
  <1> QED  BY <1>1, MarksBoard, MarksGive DEF Same

LEMMA AssertFacts ==
    ASSUME NEW s, Typed(s), NEW c, NEW name
    PROVE  LET q == Assert(s, c, name) IN
           /\ Typed(q) /\ SameMarks(q, s) /\ q.out = s.out /\ q.alive = s.alive
           /\ q.build = s.build /\ q.retxEvent = s.retxEvent
           /\ q.congState = s.congState /\ q.recover = s.recover
           /\ q.recoverActive = s.recoverActive /\ q.dupAckCount = s.dupAckCount
           /\ q.failed = s.failed \/ (q.failed = name /\ ~c)
           /\ q.failed = "none" => c \/ s.build # "debug" \/ name = "none"
  <1>1. CASE Assert(s, c, name) = s
    <2>1. c \/ s.build # "debug" \/ s.failed # "none" \/ name = "none"
      <3>1. SUFFICES ASSUME ~c, s.build = "debug", s.failed = "none" PROVE name = "none"
        OBVIOUS
      <3>2. Assert(s, c, name).failed = name
        BY <3>1 DEF Assert, Typed, Fields
      <3> QED  BY <1>1, <3>1, <3>2
    <2> QED  BY <1>1, <2>1 DEF SameMarks
  <1>2. CASE Assert(s, c, name) # s
    <2> DEFINE q == [s EXCEPT !.failed = name]
    <2>1. Assert(s, c, name) = q /\ ~c
      BY <1>2 DEF Assert
    <2>2. /\ DOMAIN q = DOMAIN s /\ SameMarks(q, s) /\ q.out = s.out /\ q.alive = s.alive
          /\ q.build = s.build /\ q.retxEvent = s.retxEvent
          /\ q.congState = s.congState /\ q.recover = s.recover
          /\ q.recoverActive = s.recoverActive /\ q.dupAckCount = s.dupAckCount
          /\ q.isFirstPartialAck = s.isFirstPartialAck /\ q.failed = name
      BY DEF SameMarks, Typed, Fields
    <2> HIDE DEF q
    <2>3. Typed(q)
      BY <2>2 DEF Typed, SameMarks
    <2> QED  BY <2>1, <2>2, <2>3
  <1> QED  BY <1>1, <1>2

LEMMA NewAckFacts ==
    ASSUME NEW s, Typed(s), Board(s), NEW b \in BOOLEAN
    PROVE  LET q == NewAck(s, b) IN
           /\ Gives(q, s) /\ SameMarks(q, s) /\ q.congState = s.congState
           /\ q.recover = s.recover /\ q.recoverActive = s.recoverActive
           /\ q.dupAckCount = s.dupAckCount /\ q.failed = s.failed
           /\ q.out = s.out
  <1> DEFINE q == NewAck(s, b)
             e == IF s.una = s.written THEN FALSE ELSE s.retxEvent \/ b
  <1>1. e \in BOOLEAN /\ (s.una # s.written /\ s.retxEvent => e)
    BY DEF Typed
  <1>2. q = [s EXCEPT !.retries = DataRetries, !.retxEvent = e]
    BY DEF NewAck
  <1> HIDE DEF e
  <1>3. /\ DOMAIN q = DOMAIN s /\ SameMarks(q, s) /\ q.out = s.out /\ q.alive = s.alive
        /\ q.build = s.build /\ q.retxEvent = e
        /\ q.congState = s.congState /\ q.recover = s.recover
        /\ q.recoverActive = s.recoverActive /\ q.dupAckCount = s.dupAckCount
        /\ q.isFirstPartialAck = s.isFirstPartialAck /\ q.failed = s.failed
    BY <1>2 DEF SameMarks, Typed, Fields
  <1> HIDE DEF q
  <1>4. Typed(q)
    BY <1>1, <1>3 DEF Typed, SameMarks
  <1>5. s.una < s.nxt => s.una # s.written
    BY DEF Typed, Board
  <1>6. Gives(q, s)
    BY <1>1, <1>3, <1>4, <1>5, MarksGive DEF SameMarks
  <1> QED  BY <1>3, <1>6 DEF q

LEMMA SendGives ==
    ASSUME NEW s, Typed(s), Board(s), NEW i, Sendable(s, i)
    PROVE  LET q == SendDataPacket(s, i) IN
           /\ Gives(q, s) /\ s.retrans \subseteq q.retrans
           /\ i < s.nxt => i \in q.retrans
  <1> DEFINE q == SendDataPacket(s, i)
  <1>1. s.una \in Int /\ s.nxt \in Int /\ i \in Int /\ s.una <= i /\ i <= s.nxt /\ i \notin s.sacked
    BY DEF Sendable, Typed
  <1>2. /\ SendKeeps(q, s) /\ Typed(q) /\ Board(q)
        /\ \/ /\ q.failed \notin {"none", "RtoInFlight", "RtoFlight", "DisorderCount"} \/ q.failed = s.failed
              /\ q.failed # "none" /\ q.nxt = s.nxt
              /\ q.retrans = s.retrans /\ q.out = s.out /\ q.retxEvent = s.retxEvent
              /\ i = s.nxt
           \/ /\ q.failed = s.failed /\ q.retxEvent /\ q.out = s.out \cup {i}
              /\ i < s.nxt => q.nxt = s.nxt /\ q.retrans = s.retrans \cup {i}
              /\ i = s.nxt => q.nxt = s.nxt + 1 /\ q.retrans = s.retrans
    BY SendFacts
  <1> HIDE DEF q
  <1>3. CASE q.nxt = s.nxt /\ q.retrans = s.retrans /\ q.out = s.out /\ q.retxEvent = s.retxEvent /\ i = s.nxt
             /\ (q.failed \notin {"none", "RtoInFlight", "RtoFlight", "DisorderCount"} \/ q.failed = s.failed)
    BY <1>1, <1>2, <1>3 DEF Gives, SendKeeps, Watched, q
  <1>4. CASE /\ q.failed = s.failed /\ q.retxEvent /\ q.out = s.out \cup {i}
             /\ i < s.nxt /\ q.nxt = s.nxt /\ q.retrans = s.retrans \cup {i}
    <2>1. q.out \subseteq s.out \cup s.una..(q.nxt - 1)
      BY <1>1, <1>4
    <2> QED  BY <1>1, <1>2, <1>4, <2>1 DEF Gives, SendKeeps, q
  <1>5. CASE /\ q.failed = s.failed /\ q.retxEvent /\ q.out = s.out \cup {i}
             /\ i = s.nxt /\ q.nxt = s.nxt + 1 /\ q.retrans = s.retrans
    <2>1. q.out \subseteq s.out \cup s.una..(q.nxt - 1)
      BY <1>1, <1>5
    <2> QED  BY <1>1, <1>2, <1>5, <2>1 DEF Gives, SendKeeps, q
  <1> QED  BY <1>1, <1>2, <1>3, <1>4, <1>5

LEMMA RetransmitGives ==
    ASSUME NEW s, Typed(s), Board(s), s.una < s.nxt
    PROVE  LET q == DoRetransmit(s) IN
           /\ Gives(q, s) /\ s.retrans \subseteq q.retrans
           /\ q.congState = s.congState /\ q.recover = s.recover
           /\ q.recoverActive = s.recoverActive /\ q.dupAckCount = s.dupAckCount
           /\ q.isFirstPartialAck = s.isFirstPartialAck
           /\ s.una \in s.lost => s.una \in q.retrans
  <1> DEFINE i == NextSeg(s, FALSE)
             j == IF i = None THEN s.una ELSE i
             q == DoRetransmit(s)
  <1>1. q = SendDataPacket(s, j)
    BY DEF DoRetransmit
  <1>2. /\ s.una \in Int /\ s.nxt \in Int /\ s.written \in Int /\ s.nxt <= s.written
        /\ s.una \notin s.sacked /\ 0 <= s.una /\ s.lost \subseteq Sent(s)
    BY DEF Typed, Board
  <1>3. Sendable(s, j)
    <2>1. CASE i = None
      BY <1>2, <2>1 DEF Sendable
    <2>2. CASE i # None
      BY <2>2, SendableFacts
    <2> QED  BY <2>1, <2>2
  <1>4. s.una \in s.lost /\ s.una \notin s.retrans => j = s.una
    <2> SUFFICES ASSUME s.una \in s.lost, s.una \notin s.retrans PROVE j = s.una
      OBVIOUS
    <2>1. s.una \in s.lost \ (s.retrans \cup s.sacked)
      BY <1>2
    <2>2. i <= s.una /\ i \in s.lost
      BY <2>1, NextSegFacts
    <2> HIDE DEF i
    <2>3. i \in Int /\ s.una <= i
      BY <1>2, <2>2 DEF Sent
    <2> QED  BY <1>2, <2>2, <2>3
  <1> HIDE DEF j
  <1>5. /\ Gives(q, s) /\ s.retrans \subseteq q.retrans
        /\ j < s.nxt => j \in q.retrans
    BY <1>1, <1>3, SendGives
  <1>6. SendKeeps(q, s)
    BY <1>1, <1>3, SendFacts
  <1> QED  BY <1>4, <1>5, <1>6 DEF SendKeeps

----------------------------------------------------------------------------
(* The congestion states.                                                  *)

LEMMA EnterCwrFacts ==
    ASSUME NEW s, Typed(s), Board(s), NEW d, NEW r
    PROVE  LET q == EnterCwr(s, d, r) IN
           /\ Gives(q, s) /\ SameMarks(q, s) /\ q.congState = "CWR" /\ q.recover = s.nxt
           /\ q.out = s.out /\ q.retxEvent = s.retxEvent
  <1> DEFINE a == Assert(s, s.ackSeen, "CerlAckSeen")
             e == [a EXCEPT !.bytesInFlight = BytesInFlight(s),
                            !.ssThresh = HalfFlight(BytesInFlight(s)),
                            !.cwnd = HalfFlight(BytesInFlight(s)),
                            !.cwndInfl = HalfFlight(BytesInFlight(s)),
                            !.congState = "CWR", !.recover = s.nxt]
             q == EnterCwr(s, d, r)
  <1>1. q = RecoveryOpsEnter(e, d, r)
    BY DEF EnterCwr
  <1>2. /\ Typed(a) /\ SameMarks(a, s) /\ a.out = s.out /\ a.alive = s.alive
        /\ a.build = s.build /\ a.retxEvent = s.retxEvent
        /\ a.failed = s.failed \/ a.failed = "CerlAckSeen"
    BY AssertFacts
  <1> HIDE DEF a
  <1>3. /\ DOMAIN e = Fields /\ SameMarks(e, a) /\ e.out = a.out /\ e.alive = a.alive
        /\ e.build = a.build /\ e.retxEvent = a.retxEvent /\ e.failed = a.failed
        /\ e.congState = "CWR" /\ e.recover = s.nxt /\ e.recoverActive = a.recoverActive
        /\ e.dupAckCount = a.dupAckCount /\ e.isFirstPartialAck = a.isFirstPartialAck
    BY <1>2 DEF SameMarks, Typed, Fields
  <1> HIDE DEF e
  <1>4. Typed(e)
    BY <1>2, <1>3 DEF Typed, SameMarks, CongStates
  <1>5. SameMarks(e, s) /\ e.out = s.out
    BY <1>2, <1>3 DEF SameMarks
  <1>6. Same(q, e)
    BY <1>1, <1>3, RecoverySame
  <1> HIDE DEF q
  <1>7. Typed(q) /\ SameMarks(q, s) /\ q.out = s.out /\ q.congState = "CWR" /\ q.recover = s.nxt
    BY <1>3, <1>4, <1>5, <1>6 DEF Same, SameMarks, Typed
  <1>8. /\ q.alive = s.alive /\ q.build = s.build /\ q.retxEvent = s.retxEvent
        /\ q.failed = s.failed \/ q.failed \notin Watched \cup {"none"}
    BY <1>2, <1>3, <1>6 DEF Same, Watched
  <1>9. Gives(q, s)
    BY <1>7, <1>8, MarksGive DEF SameMarks
  <1> QED  BY <1>7, <1>8, <1>9 DEF q

LEMMA EnterRecoveryFacts ==
    ASSUME NEW s, Typed(s), Board(s), s.una < s.nxt, NEW d, NEW r, NEW c
    PROVE  LET q == EnterRecovery(s, d, r, c) IN
           /\ Gives(q, s) /\ q.congState = "RECOVERY" /\ q.recover = s.nxt /\ q.recoverActive
           /\ s.una \in q.retrans
  <1> DEFINE m == IF IsLost(s, s.una) THEN s ELSE MarkHeadAsLost(s)
             e == [m EXCEPT !.recover = s.nxt, !.recoverActive = TRUE,
                            !.congState = "RECOVERY", !.bytesInFlight = BytesInFlight(m)]
             t == CerlEnterRecovery(e, c)
             u == RecoveryOpsEnter(t, d, r)
             q == EnterRecovery(s, d, r, c)
  <1>1. q = DoRetransmit(u)
    BY DEF EnterRecovery
  <1>2. s.una \in Int /\ s.nxt \in Int
    BY DEF Typed
  <1>3. /\ Ctl(m, s) /\ m.una = s.una /\ m.sacked = s.sacked /\ m.retrans \subseteq s.retrans
        /\ s.una \in m.lost /\ Typed(m) /\ Board(m)
    <2>1. CASE IsLost(s, s.una)
      <3>1. PICK j \in s.lost : j >= s.una
        BY <2>1 DEF IsLost
      <3>2. j \in Int
        BY <1>2 DEF Board, Sent
      <3>3. s.una \in s.lost
        BY <1>2, <3>1, <3>2 DEF Board, LostBelow
      <3> QED  BY <2>1, <3>3 DEF Ctl
    <2>2. CASE ~IsLost(s, s.una)
      <3>1. m = MarkHeadAsLost(s)
        BY <2>2
      <3> HIDE DEF m
      <3> QED  BY <3>1, HeadLostFacts
    <2> QED  BY <2>1, <2>2
  <1> HIDE DEF m
  <1>4. /\ DOMAIN e = Fields /\ SameMarks(e, m) /\ e.out = m.out /\ e.alive = m.alive
        /\ e.build = m.build /\ e.retxEvent = m.retxEvent /\ e.failed = m.failed
        /\ e.congState = "RECOVERY" /\ e.recover = s.nxt /\ e.recoverActive = TRUE
        /\ e.dupAckCount = m.dupAckCount /\ e.isFirstPartialAck = m.isFirstPartialAck
    BY <1>3 DEF SameMarks, Typed, Fields
  <1> HIDE DEF e
  <1>5. Typed(e)
    BY <1>2, <1>3, <1>4 DEF Typed, SameMarks, CongStates
  <1>6. Board(e)
    BY <1>3, <1>4, MarksBoard
  <1>7. Same(t, e) /\ DOMAIN t = Fields
    BY <1>4, CerlSame DEF Same
  <1> HIDE DEF t
  <1>8. Same(u, e)
    BY <1>7, RecoverySame, SameTrans
  <1> HIDE DEF u
  <1>9. Typed(u) /\ Board(u) /\ SameMarks(u, e)
    BY <1>5, <1>6, <1>8, SameGives
  <1>10. u.una = s.una /\ u.nxt = s.nxt /\ u.una < u.nxt /\ u.una \in u.lost
    BY <1>3, <1>4, <1>9 DEF SameMarks, Ctl
  <1>11. /\ Gives(q, u) /\ q.congState = u.congState /\ q.recover = u.recover
         /\ q.recoverActive = u.recoverActive /\ u.una \in q.retrans
    BY <1>1, <1>9, <1>10, RetransmitGives
  <1>12. /\ q.congState = "RECOVERY" /\ q.recover = s.nxt /\ q.recoverActive /\ s.una \in q.retrans
    BY <1>4, <1>8, <1>10, <1>11 DEF Same
  <1>13. /\ u.sacked = s.sacked /\ u.written = s.written /\ u.alive = s.alive /\ u.build = s.build
         /\ u.retrans \subseteq s.retrans /\ u.out = s.out /\ u.retxEvent = s.retxEvent
         /\ u.failed = s.failed
    BY <1>3, <1>4, <1>8 DEF Same, SameMarks, Ctl
  <1> HIDE DEF q
  <1>14. Gives(q, s)
    BY <1>10, <1>11, <1>12, <1>13 DEF Gives
  <1> QED  BY <1>12, <1>14 DEF q

\* The recovery point when an ACK has moved SND.UNA (acked) but the congestion
\* state is still the old one, or OPEN after CWR.
Before(s, acked) ==
    /\ s.congState = "RECOVERY" =>
         s.recoverActive /\ s.recover <= s.nxt /\ (~acked => s.una < s.recover)
    /\ s.congState = "LOSS" =>
         s.recoverActive /\ s.recover <= s.nxt /\ (~acked => s.una <= s.recover)
    /\ s.congState = "CWR" => s.una <= s.recover /\ s.recover <= s.nxt
    /\ s.recoverActive => s.congState \in {"RECOVERY", "LOSS", "CWR"} \/ (acked /\ s.una >= s.recover)

LEMMA CheckedFacts ==
    ASSUME NEW s, Typed(s), Board(s), CountOK(s), s.alive, s.congState \in {"OPEN", "DISORDER"}
    PROVE  LET counted == [s EXCEPT !.dupAckCount = @ + 1]
               disorder == IF s.congState = "OPEN"
                           THEN [Assert(counted, counted.dupAckCount = 1, "DupAckCount")
                                   EXCEPT !.congState = "DISORDER"]
                           ELSE counted
               q == Assert(disorder,
                           disorder.dupAckCount <= RetxThresh \/ disorder.recoverActive,
                           "DisorderCount")
           IN  /\ Gives(q, s) /\ SameMarks(q, s) /\ q.congState = "DISORDER"
               /\ q.recover = s.recover /\ q.recoverActive = s.recoverActive
               /\ q.out = s.out
               /\ q.failed = "none" /\ s.build = "debug" => q.dupAckCount <= RetxThresh
  <1> DEFINE counted == [s EXCEPT !.dupAckCount = @ + 1]
             one == counted.dupAckCount = 1
             asked == Assert(counted, one, "DupAckCount")
             moved == [asked EXCEPT !.congState = "DISORDER"]
             disorder == IF s.congState = "OPEN" THEN moved ELSE counted
             fine == disorder.dupAckCount <= RetxThresh \/ disorder.recoverActive
             q == Assert(disorder, fine, "DisorderCount")
  <1>1. /\ DOMAIN counted = Fields /\ SameMarks(counted, s) /\ counted.out = s.out
        /\ counted.alive = s.alive /\ counted.build = s.build
        /\ counted.retxEvent = s.retxEvent /\ counted.failed = s.failed
        /\ counted.congState = s.congState /\ counted.recover = s.recover
        /\ counted.recoverActive = s.recoverActive /\ counted.dupAckCount = s.dupAckCount + 1
        /\ counted.isFirstPartialAck = s.isFirstPartialAck
    BY DEF SameMarks, Typed, Fields
  <1> HIDE DEF counted
  <1>2. Typed(counted)
    BY <1>1 DEF Typed, SameMarks
  <1>3. RetxThresh \in Nat \ {0}
    BY SenderAssumption
  <1>4. /\ Typed(disorder) /\ SameMarks(disorder, s) /\ disorder.out = s.out
        /\ disorder.alive = s.alive /\ disorder.build = s.build
        /\ disorder.retxEvent = s.retxEvent /\ disorder.congState = "DISORDER"
        /\ disorder.recover = s.recover /\ disorder.recoverActive = s.recoverActive
        /\ disorder.failed = s.failed \/ disorder.failed = "DupAckCount"
        /\ disorder.failed = "none" /\ s.build = "debug" => disorder.dupAckCount <= RetxThresh
    <2>1. CASE s.congState = "OPEN"
      <3>1. /\ Typed(asked) /\ SameMarks(asked, counted) /\ asked.out = counted.out
            /\ asked.alive = counted.alive /\ asked.build = counted.build
            /\ asked.retxEvent = counted.retxEvent
            /\ asked.recover = counted.recover
            /\ asked.recoverActive = counted.recoverActive
            /\ asked.dupAckCount = counted.dupAckCount
            /\ asked.failed = counted.failed \/ asked.failed = "DupAckCount"
            /\ asked.failed = "none" => one \/ counted.build # "debug"
        <4> HIDE DEF one
        <4> QED  BY <1>2, AssertFacts
      <3> HIDE DEF asked
      <3>2. /\ DOMAIN moved = Fields /\ SameMarks(moved, asked) /\ moved.out = asked.out
            /\ moved.alive = asked.alive /\ moved.build = asked.build
            /\ moved.retxEvent = asked.retxEvent /\ moved.failed = asked.failed
            /\ moved.congState = "DISORDER" /\ moved.recover = asked.recover
            /\ moved.recoverActive = asked.recoverActive /\ moved.dupAckCount = asked.dupAckCount
            /\ moved.isFirstPartialAck = asked.isFirstPartialAck
        BY <3>1 DEF SameMarks, Typed, Fields
      <3>3. disorder = moved
        BY <2>1
      <3> HIDE DEF moved, disorder
      <3>4. Typed(moved)
        BY <3>1, <3>2 DEF Typed, SameMarks, CongStates
      <3>5. moved.failed = "none" /\ s.build = "debug" => moved.dupAckCount <= RetxThresh
        BY <1>1, <1>3, <3>1, <3>2
      <3> HIDE DEF one
      <3>6. SameMarks(moved, s) /\ moved.out = s.out /\ moved.congState = "DISORDER"
        BY <1>1, <3>1, <3>2 DEF SameMarks
      <3>7. /\ moved.alive = s.alive /\ moved.build = s.build
            /\ moved.retxEvent = s.retxEvent
            /\ moved.recover = s.recover /\ moved.recoverActive = s.recoverActive
            /\ moved.failed = s.failed \/ moved.failed = "DupAckCount"
        BY <1>1, <3>1, <3>2
      <3> QED  BY <3>3, <3>4, <3>5, <3>6, <3>7, Zenon
    <2>2. CASE s.congState = "DISORDER"
      <3>1. disorder = counted
        BY <2>2
      <3>2. s.failed = "none" /\ s.build = "debug" => s.dupAckCount < RetxThresh
        BY <2>2 DEF CountOK, Running
      <3>3. counted.failed = "none" /\ s.build = "debug" => counted.dupAckCount <= RetxThresh
        BY <1>1, <1>3, <3>2 DEF Typed
      <3> HIDE DEF disorder
      <3> QED  BY <1>1, <1>2, <2>2, <3>1, <3>3, Zenon
    <2> QED  BY <2>1, <2>2
  <1> HIDE DEF disorder
  <1>5. /\ Typed(q) /\ SameMarks(q, disorder) /\ q.out = disorder.out /\ q.alive = disorder.alive
        /\ q.build = disorder.build /\ q.retxEvent = disorder.retxEvent
        /\ q.congState = disorder.congState /\ q.recover = disorder.recover
        /\ q.recoverActive = disorder.recoverActive /\ q.dupAckCount = disorder.dupAckCount
        /\ q.failed = disorder.failed \/ (q.failed = "DisorderCount" /\ ~fine)
    <2>1. Typed(disorder)
      BY <1>4, Zenon
    <2> HIDE DEF fine
    <2> QED  BY <2>1, AssertFacts
  <1>6. q.failed = disorder.failed
    <2>1. SUFFICES ASSUME ~fine PROVE q.failed = disorder.failed
      BY <1>5
    <2>2. ~(disorder.dupAckCount <= RetxThresh)
      BY <2>1
    <2>3. disorder.failed # "none" \/ disorder.build # "debug"
      BY <1>4, <2>2
    <2> QED  BY <2>3 DEF Assert
  <1> HIDE DEF q
  <1>7. SameMarks(q, s)
    BY <1>4, <1>5 DEF SameMarks
  <1>8. Gives(q, s)
    BY <1>4, <1>5, <1>6, <1>7, MarksGive DEF Watched, SameMarks
  <1> QED  BY <1>4, <1>5, <1>6, <1>7, <1>8 DEF q, fine, disorder, moved, asked, one, counted

\* What a handler of an ACK makes of the congestion state: LOSS is kept with its
\* marks, fast recovery is entered with the head sent again.
After(q, s) ==
    /\ Gives(q, s) /\ CountOK(q)
    /\ q.congState = "LOSS" => s.congState = "LOSS" /\ SameMarks(q, s) /\ q.recover = s.recover
    /\ q.congState = "RECOVERY" /\ s.congState # "RECOVERY" => s.una \in q.retrans

LEMMA AfterTrans ==
    ASSUME NEW p, NEW q, NEW s, Typed(s), After(q, s), After(p, q)
    PROVE  After(p, s)
  <1>1. Gives(p, s)
    BY GivesTrans DEF After
  <1>2. q.una = s.una /\ (q.una \in q.retrans => q.una \in p.retrans)
    BY DEF After, Gives
  <1> QED  BY <1>1, <1>2 DEF After, SameMarks

\* Nothing of the control changes.
SamePoint(q, s) ==
    /\ q.congState = s.congState /\ q.recover = s.recover /\ q.recoverActive = s.recoverActive

LEMMA MarksAfter ==
    ASSUME NEW q, NEW s, Typed(s), Board(s), Gives(q, s), SameMarks(q, s), SamePoint(q, s),
           CountOK(s), q.dupAckCount = s.dupAckCount, NEW acked, Before(s, acked)
    PROVE  After(q, s) /\ Before(q, acked)
  <1>1. CountOK(q)
    BY DEF CountOK, Running, Gives, SamePoint, Watched
  <1> QED  BY <1>1 DEF After, Before, SameMarks, SamePoint

LEMMA SameAfter ==
    ASSUME NEW q, NEW s, Typed(s), Board(s), Same(q, s), CountOK(s), NEW acked, Before(s, acked)
    PROVE  After(q, s) /\ Before(q, acked)
  <1>1. Gives(q, s) /\ SameMarks(q, s)
    BY SameGives
  <1> QED  BY <1>1, MarksAfter DEF Same, SamePoint

LEMMA DupAckFacts ==
    ASSUME NEW s, Typed(s), Board(s), CountOK(s), s.alive, s.una < s.nxt,
           NEW acked, Before(s, acked), NEW d, NEW r, NEW c
    PROVE  LET q == DupAck(s, d, r, c) IN After(q, s) /\ Before(q, acked)
  <1> DEFINE q == DupAck(s, d, r, c)
  <1>1. CASE s.congState = "LOSS"
    <2>1. q = s
      BY <1>1 DEF DupAck
    <2>2. Same(s, s)
      BY DEF Same
    <2> QED  BY <2>1, <2>2, SameAfter
  <1>2. CASE s.congState = "RECOVERY"
    <2>1. q = DoRecovery(s, d, r)
      BY <1>2 DEF DupAck
    <2>2. Same(q, s)
      BY <2>1, RecoverySame DEF Typed
    <2> QED  BY <2>2, SameAfter
  <1>3. CASE s.congState = "CWR"
    <2> DEFINE n == s.dupAckCount + 1
    <2>1. q = [s EXCEPT !.dupAckCount = n]
      BY <1>3 DEF DupAck
    <2>6. n \in Int
      BY DEF Typed
    <2> HIDE DEF n, q
    <2>2. /\ DOMAIN q = Fields /\ SameMarks(q, s) /\ q.out = s.out
          /\ q.alive = s.alive /\ q.build = s.build
          /\ q.retxEvent = s.retxEvent /\ q.failed = s.failed
          /\ SamePoint(q, s) /\ q.dupAckCount = n
          /\ q.isFirstPartialAck = s.isFirstPartialAck
      <3>1. DOMAIN s = Fields
        BY DEF Typed
      <3> QED  BY <2>1, <3>1 DEF SameMarks, SamePoint, Fields
    <2>3. Typed(q)
      BY <2>2, <2>6 DEF Typed, SameMarks, SamePoint
    <2>4. Gives(q, s)
      BY <2>2, <2>3, MarksGive DEF SameMarks
    <2>5. After(q, s) /\ Before(q, acked)
      BY <1>3, <2>2, <2>4 DEF After, Before, SameMarks, SamePoint, CountOK
    <2> QED  BY <2>5 DEF q
  <1>4. CASE s.congState \in {"OPEN", "DISORDER"}
    <2> DEFINE counted == [s EXCEPT !.dupAckCount = @ + 1]
               disorder == IF s.congState = "OPEN"
                           THEN [Assert(counted, counted.dupAckCount = 1, "DupAckCount")
                                   EXCEPT !.congState = "DISORDER"]
                           ELSE counted
               k == Assert(disorder,
                           disorder.dupAckCount <= RetxThresh \/ disorder.recoverActive,
                           "DisorderCount")
               enters == \/ k.dupAckCount = RetxThresh /\ (RecoveryCovered(s) \/ ~s.recoverActive)
                         \/ IsLost(s, s.una + 1)
    <2>1. q = IF enters THEN EnterRecovery(k, d, r, c) ELSE k
      BY <1>4 DEF DupAck
    <2>2. /\ Gives(k, s) /\ SameMarks(k, s) /\ k.congState = "DISORDER"
          /\ k.recover = s.recover /\ k.recoverActive = s.recoverActive
          /\ k.failed = "none" /\ s.build = "debug" => k.dupAckCount <= RetxThresh
      BY <1>4, CheckedFacts
    <2>3. RecoveryCovered(s) \/ ~s.recoverActive
      BY <1>4 DEF Before, RecoveryCovered
    <2>4. enters \/ k.dupAckCount # RetxThresh
      BY <2>3
    <2> HIDE DEF k, enters
    <2>5. Typed(k) /\ Board(k) /\ k.una < k.nxt /\ k.una = s.una /\ k.nxt = s.nxt
      BY <2>2 DEF Gives, SameMarks
    <2>6. CASE enters
      <3>1. q = EnterRecovery(k, d, r, c)
        BY <2>1, <2>6
      <3>2. /\ Gives(q, k) /\ q.congState = "RECOVERY" /\ q.recover = k.nxt /\ q.recoverActive
            /\ k.una \in q.retrans
        BY <2>5, <3>1, EnterRecoveryFacts
      <3> HIDE DEF q
      <3>3. Gives(q, s)
        BY <2>2, <3>2, GivesTrans
      <3>4. CountOK(q)
        BY <3>2 DEF CountOK
      <3>5. After(q, s)
        BY <2>5, <3>2, <3>3, <3>4 DEF After
      <3>6. Before(q, acked)
        BY <2>5, <3>2, <3>3 DEF Before, Gives
      <3> QED  BY <3>5, <3>6 DEF q
    <2>7. CASE ~enters
      <3>1. q = k
        BY <2>1, <2>7
      <3>2. CountOK(k)
        <4>1. RetxThresh \in Int /\ k.dupAckCount \in Int /\ k.build = s.build
          BY <2>2, <2>5, SenderAssumption DEF Typed, Gives
        <4> QED  BY <2>2, <2>4, <2>7, <4>1 DEF CountOK, Running
      <3>3. After(k, s)
        BY <2>2, <3>2 DEF After
      <3>4. Before(k, acked)
        BY <1>4, <2>2 DEF Before, SameMarks
      <3> QED  BY <3>1, <3>3, <3>4
    <2> QED  BY <2>6, <2>7
  <1> QED  BY <1>1, <1>2, <1>3, <1>4 DEF Typed, CongStates

LEMMA PointAfter ==
    ASSUME NEW s, Before(s, FALSE)
    PROVE  Point(s)
  BY DEF Before, Point

LEMMA PartialAckFacts ==
    ASSUME NEW s, Typed(s), Board(s), CountOK(s), Before(s, TRUE), s.congState = "RECOVERY",
           s.una < s.recover, NEW n, NEW d, NEW r
    PROVE  LET q == PartialAck(s, n, d, r) IN After(q, s) /\ Point(q)
  <1> DEFINE done == DoRecovery(s, d, r)
             sent == DoRetransmit(done)
             cut == [sent EXCEPT !.cwndInfl = Max({0, done.cwndInfl - SegSize * n})]
             resent == IF s.una \in done.retrans \ done.sacked THEN done ELSE cut
             acked == NewAck(resent, s.isFirstPartialAck)
             q == PartialAck(s, n, d, r)
  <1>1. q = [acked EXCEPT !.isFirstPartialAck = FALSE]
    BY DEF PartialAck
  <1>2. Same(done, s)
    BY RecoverySame DEF Typed
  <1> HIDE DEF done
  <1>3. Typed(done) /\ Board(done) /\ Gives(done, s) /\ done.una < done.nxt /\ SamePoint(done, s)
    <2>1. s.una < s.nxt
      BY DEF Before, Typed
    <2> QED  BY <1>2, <2>1, SameGives DEF Same, SamePoint
  <1>4. /\ Gives(sent, done) /\ SamePoint(sent, done)
    BY <1>3, RetransmitGives DEF SamePoint
  <1> HIDE DEF sent
  <1>5. Same(cut, sent) /\ Typed(sent) /\ Board(sent)
    BY <1>4 DEF Same, Gives, Typed, Fields
  <1> HIDE DEF cut
  <1>6. Gives(cut, sent) /\ SamePoint(cut, sent)
    BY <1>5, SameGives DEF Same, SamePoint
  <1>7. Gives(sent, s) /\ SamePoint(sent, s)
    BY <1>3, <1>4, GivesTrans DEF SamePoint
  <1>8. Gives(cut, s) /\ SamePoint(cut, s)
    BY <1>6, <1>7, GivesTrans DEF SamePoint
  <1>9. Gives(resent, s) /\ SamePoint(resent, s)
    BY <1>3, <1>8
  <1> HIDE DEF resent
  <1>10. Typed(resent) /\ Board(resent) /\ s.isFirstPartialAck \in BOOLEAN
    BY <1>9 DEF Gives, Typed
  <1>11. Gives(acked, resent) /\ SamePoint(acked, resent)
    BY <1>10, NewAckFacts DEF SamePoint
  <1> HIDE DEF acked
  <1>12. Gives(acked, s) /\ SamePoint(acked, s)
    BY <1>9, <1>11, GivesTrans DEF SamePoint
  <1>13. /\ DOMAIN q = Fields /\ SameMarks(q, acked) /\ q.out = acked.out
         /\ q.alive = acked.alive /\ q.build = acked.build
         /\ q.retxEvent = acked.retxEvent /\ q.failed = acked.failed
         /\ SamePoint(q, acked) /\ q.dupAckCount = acked.dupAckCount
         /\ q.isFirstPartialAck = FALSE
    BY <1>1, <1>12 DEF SameMarks, SamePoint, Gives, Typed, Fields
  <1>14. Typed(acked) /\ Board(acked)
    BY <1>12 DEF Gives
  <1> HIDE DEF q
  <1>15. Typed(q)
    BY <1>13, <1>14 DEF Typed, SameMarks, SamePoint
  <1>16. Gives(q, acked)
    BY <1>13, <1>14, <1>15, MarksGive DEF SameMarks
  <1>17. Gives(q, s) /\ SamePoint(q, s)
    BY <1>12, <1>13, <1>16, GivesTrans DEF SamePoint
  <1>18. After(q, s)
    BY <1>17 DEF After, SamePoint, CountOK
  <1>19. Point(q)
    <2>1. q.una = s.una /\ s.nxt <= q.nxt /\ q.nxt \in Int /\ s.nxt \in Int /\ s.recover \in Int
      BY <1>17 DEF Gives, Typed
    <2> QED  BY <1>17, <2>1 DEF Point, Before, SamePoint
  <1> QED  BY <1>18, <1>19 DEF q

LEMMA FullAckFacts ==
    ASSUME NEW s, Typed(s), Board(s), CountOK(s), Before(s, TRUE), s.congState # "CWR",
           s.congState \in {"RECOVERY", "LOSS"} => s.una >= s.recover, NEW n, NEW b
    PROVE  LET q == FullAck(s, n, b) IN After(q, s) /\ Point(q) /\ q.congState # "LOSS"
  <1> DEFINE leaves == s.congState \in {"RECOVERY", "LOSS"}
             st == IF leaves \/ ~b THEN "OPEN" ELSE s.congState
             first == IF leaves THEN TRUE ELSE s.isFirstPartialAck
             count == IF s.congState = "RECOVERY" THEN 0 ELSE s.dupAckCount
             active == IF RecoveryCovered(s) THEN FALSE ELSE s.recoverActive
             acked == IF s.congState = "LOSS" THEN s.una - s.recover ELSE n
             opened == [s EXCEPT !.congState = st, !.isFirstPartialAck = first,
                                 !.dupAckCount = count, !.recoverActive = active]
             renewed == NewAck(opened, TRUE)
             left == RecoveryOpsExit(CerlExitRecovery(renewed))
             exited == IF s.congState # "RECOVERY" THEN opened ELSE left
             grown == IncreaseWindow(exited, acked)
             shown == [grown EXCEPT !.cwndInfl = grown.cwnd]
             last == NewAck(shown, TRUE)
             q == FullAck(s, n, b)
  <1>1. q = IF exited.congState # "OPEN" THEN exited ELSE last
    BY DEF FullAck
  <1>2. /\ st \in {"OPEN", "DISORDER"} /\ first \in BOOLEAN /\ count \in Int /\ active = FALSE
        /\ st = "DISORDER" => s.congState = "DISORDER" /\ count = s.dupAckCount
    <2>1. s.recoverActive => s.una >= s.recover
      BY DEF Before
    <2>2. active = FALSE
      BY <2>1 DEF RecoveryCovered, Typed
    <2>3. /\ s.congState \in {"OPEN", "DISORDER", "RECOVERY", "LOSS"}
          /\ s.isFirstPartialAck \in BOOLEAN /\ s.dupAckCount \in Int
      BY DEF Typed, CongStates
    <2>4. first \in BOOLEAN /\ count \in Int
      <3>1. first \in BOOLEAN
        BY <2>3, Zenon
      <3>2. count \in Int
        BY <2>3
      <3> QED  BY <3>1, <3>2, Zenon
    <2>5. st \in {"OPEN", "DISORDER"} /\ (st = "DISORDER" => s.congState = "DISORDER")
      <3>1. CASE leaves \/ ~b
        BY <3>1, Zenon
      <3>2. CASE ~(leaves \/ ~b)
        <4>1. st = s.congState /\ ~leaves
          BY <3>2, Zenon
        <4> HIDE DEF st
        <4> QED  BY <2>3, <4>1
      <3> QED  BY <3>1, <3>2, Zenon
    <2>6. s.congState = "DISORDER" => count = s.dupAckCount
      OBVIOUS
    <2> HIDE DEF st, first, count, active
    <2> QED  BY <2>2, <2>4, <2>5, <2>6
  <1> HIDE DEF st, first, count, active
  <1>3. /\ DOMAIN opened = Fields /\ SameMarks(opened, s) /\ opened.out = s.out
        /\ opened.alive = s.alive /\ opened.build = s.build
        /\ opened.retxEvent = s.retxEvent /\ opened.failed = s.failed
        /\ opened.congState = st /\ opened.recover = s.recover /\ opened.recoverActive = active
        /\ opened.dupAckCount = count /\ opened.isFirstPartialAck = first
    BY DEF SameMarks, Typed, Fields
  <1> HIDE DEF opened
  <1>4. Typed(opened)
    BY <1>2, <1>3 DEF Typed, SameMarks, CongStates
  <1>5. Gives(opened, s)
    BY <1>3, <1>4, MarksGive DEF SameMarks
  <1>6. CountOK(opened)
    BY <1>2, <1>3 DEF CountOK, Running
  <1>7. After(opened, s) /\ Board(opened)
    BY <1>2, <1>3, <1>5, <1>6 DEF After, Gives
  <1> DEFINE Fine(x) == After(x, s) /\ x.congState = st /\ ~x.recoverActive /\ Typed(x) /\ Board(x) /\ CountOK(x)
  <1>8. Fine(opened)
    BY <1>2, <1>3, <1>4, <1>6, <1>7
  <1>9. ASSUME NEW x, NEW y, Fine(x), Same(y, x) PROVE Fine(y)
    <2>1. Before(x, TRUE)
      BY <1>2, <1>9 DEF Before
    <2>2. After(y, x) /\ Typed(y) /\ Board(y)
      BY <1>9, <2>1, SameAfter, SameGives
    <2>3. After(y, s)
      BY <1>9, <2>2, AfterTrans
    <2> QED  BY <1>9, <2>2, <2>3 DEF Same, After
  <1>10. ASSUME NEW x, Fine(x) PROVE Fine(NewAck(x, TRUE))
    <2> DEFINE y == NewAck(x, TRUE)
    <2>1. Before(x, TRUE)
      BY <1>2, <1>10 DEF Before
    <2>2. /\ Gives(y, x) /\ SameMarks(y, x) /\ SamePoint(y, x) /\ y.dupAckCount = x.dupAckCount
      BY <1>10, NewAckFacts DEF SamePoint
    <2> HIDE DEF y
    <2>3. After(y, x)
      BY <1>10, <2>1, <2>2, MarksAfter
    <2>4. After(y, s)
      BY <1>10, <2>3, AfterTrans
    <2>5. Fine(y)
      BY <1>10, <2>2, <2>3, <2>4 DEF After, Gives, SamePoint
    <2> QED  BY <2>5 DEF y
  <1>11. Fine(left)
    <2>1. Fine(renewed)
      BY <1>8, <1>10
    <2>2. Same(CerlExitRecovery(renewed), renewed)
      BY <2>1, CerlSame DEF Typed
    <2>3. Fine(CerlExitRecovery(renewed))
      <3> HIDE DEF renewed, Fine
      <3> QED  BY <1>9, <2>1, <2>2
    <2>4. Same(left, CerlExitRecovery(renewed))
      BY <2>3, RecoverySame DEF Typed
    <2> HIDE DEF left, Fine
    <2> QED  BY <1>9, <2>3, <2>4
  <1>12. Fine(exited)
    BY <1>8, <1>11
  <1> HIDE DEF exited
  <1>13. Fine(last)
    <2>1. Same(grown, exited)
      BY <1>12, IncreaseSame DEF Typed
    <2>2. Fine(grown)
      <3> HIDE DEF grown, Fine
      <3> QED  BY <1>9, <1>12, <2>1
    <2> HIDE DEF grown
    <2>3. Same(shown, grown)
      BY <2>2 DEF Same, Typed, Fields
    <2> HIDE DEF shown
    <2>4. Fine(shown)
      <3> HIDE DEF Fine
      <3> QED  BY <1>9, <2>2, <2>3
    <2> QED  BY <1>10, <2>4
  <1>14. Fine(q)
    <2> HIDE DEF last, Fine
    <2> QED  BY <1>1, <1>12, <1>13
  <1>15. Point(q)
    BY <1>2, <1>14 DEF Point
  <1> HIDE DEF q
  <1> QED  BY <1>2, <1>14, <1>15 DEF q

LEMMA ProcessAckFacts ==
    ASSUME NEW s, Typed(s), Board(s), CountOK(s), s.alive, NEW n \in Nat, NEW b \in BOOLEAN,
           b => s.una < s.nxt, Before(s, n # 0), NEW d, NEW r, NEW c
    PROVE  LET q == ProcessAck(s, n, b, d, r, c) IN
           /\ After(q, s) /\ Point(q)
           /\ n # 0 /\ q.congState = "LOSS" => q.una < q.recover
  <1> DEFINE acked == n # 0
             seen == [s EXCEPT !.ackSeen = TRUE]
             dup == IF b THEN DupAck(seen, d, r, c) ELSE seen
             reset == [dup EXCEPT !.dupAckCount = 0]
             t == IF b THEN dup ELSE reset
             q == ProcessAck(s, n, b, d, r, c)
  <1>1. q = IF n = 0 THEN dup
            ELSE IF ~RecoveryCovered(t) /\ t.congState = "RECOVERY" THEN PartialAck(t, n, d, r)
            ELSE IF ~RecoveryCovered(t) /\ t.congState = "LOSS"
            THEN NewAck(IncreaseWindow(t, n), TRUE)
            ELSE IF t.congState = "CWR" THEN NewAck(DoRecovery(t, d, r), TRUE)
            ELSE FullAck(t, n, b)
    BY DEF ProcessAck
  <1>2. Before(s, acked)
    OBVIOUS
  <1>3. Same(seen, s)
    BY DEF Same, Typed, Fields
  <1> HIDE DEF seen, acked
  <1>4. After(seen, s) /\ Before(seen, acked) /\ Typed(seen) /\ Board(seen)
    BY <1>2, <1>3, SameAfter, SameGives
  <1>5. After(dup, s) /\ Before(dup, acked)
    <2>1. CASE b
      <3>1. seen.alive /\ CountOK(seen) /\ seen.una < seen.nxt
        BY <1>3, <1>4, <2>1 DEF Same, After
      <3>2. After(DupAck(seen, d, r, c), seen) /\ Before(DupAck(seen, d, r, c), acked)
        BY <1>4, <3>1, DupAckFacts
      <3>3. dup = DupAck(seen, d, r, c)
        BY <2>1
      <3> HIDE DEF dup
      <3> QED  BY <1>4, <3>2, <3>3, AfterTrans
    <2>2. CASE ~b
      BY <1>4, <2>2
    <2> QED  BY <2>1, <2>2
  <1> HIDE DEF dup
  <1>6. Typed(dup) /\ Board(dup)
    BY <1>5 DEF After, Gives
  <1>7. CASE n = 0
    <2>1. Before(dup, FALSE)
      BY <1>5, <1>7 DEF acked, Before
    <2> QED  BY <1>1, <1>5, <1>7, <2>1, PointAfter
  <1>8. CASE n # 0
    <2>1. Before(dup, TRUE)
      BY <1>5, <1>8 DEF acked, Before
    <2>2. After(t, s) /\ Before(t, TRUE)
      <3>1. CASE b
        BY <1>5, <2>1, <3>1
      <3>2. CASE ~b
        <4>1. /\ DOMAIN reset = Fields /\ SameMarks(reset, dup) /\ reset.out = dup.out
              /\ reset.alive = dup.alive /\ reset.build = dup.build
              /\ reset.retxEvent = dup.retxEvent /\ reset.failed = dup.failed
              /\ SamePoint(reset, dup) /\ reset.dupAckCount = 0
              /\ reset.isFirstPartialAck = dup.isFirstPartialAck
          BY <1>6 DEF SameMarks, SamePoint, Typed, Fields
        <4> HIDE DEF reset
        <4>2. Typed(reset)
          BY <1>6, <4>1 DEF Typed, SameMarks, SamePoint
        <4>3. Gives(reset, dup)
          BY <1>6, <4>1, <4>2, MarksGive DEF SameMarks
        <4>4. CountOK(reset)
          BY <4>1, SenderAssumption DEF CountOK
        <4>5. After(reset, dup) /\ Before(reset, TRUE)
          BY <2>1, <4>1, <4>3, <4>4 DEF After, Before, SameMarks, SamePoint
        <4>6. t = reset
          BY <3>2
        <4> HIDE DEF t
        <4> QED  BY <1>5, <4>5, <4>6, AfterTrans
      <3> QED  BY <3>1, <3>2
    <2> HIDE DEF t
    <2>3. Typed(t) /\ Board(t) /\ CountOK(t) /\ t.una \in Int /\ t.recover \in Int
      BY <2>2 DEF After, Gives, Typed
    <2> DEFINE Done(p) == /\ After(p, s) /\ Point(p)
                          /\ n # 0 /\ p.congState = "LOSS" => p.una < p.recover
    <2>4. ASSUME NEW p, After(p, t), Point(p), t.congState # "LOSS" \/ p.congState # "LOSS"
          PROVE  Done(p)
      <3>1. After(p, s)
        BY <2>2, <2>4, AfterTrans
      <3>2. p.congState # "LOSS"
        BY <2>4 DEF After
      <3> QED  BY <2>4, <3>1, <3>2
    <2>5. ASSUME NEW u, Same(u, t), t.congState \in {"LOSS", "CWR"}, t.congState = "LOSS" => t.una < t.recover
          PROVE  LET p == NewAck(u, TRUE) IN
                 After(p, t) /\ Point(p) /\ p.congState = t.congState
      <3> DEFINE p == NewAck(u, TRUE)
      <3>1. After(u, t) /\ Before(u, TRUE) /\ Typed(u) /\ Board(u) /\ SameMarks(u, t) /\ SamePoint(u, t)
        BY <2>2, <2>3, <2>5, SameAfter, SameGives DEF Same, SamePoint
      <3>2. Gives(p, u) /\ SameMarks(p, u) /\ SamePoint(p, u) /\ p.dupAckCount = u.dupAckCount
        BY <3>1, NewAckFacts DEF SamePoint
      <3> HIDE DEF p
      <3>3. After(p, u) /\ Before(p, TRUE)
        BY <3>1, <3>2, MarksAfter DEF After
      <3>4. After(p, t)
        BY <2>3, <3>1, <3>3, AfterTrans
      <3>5. Point(p)
        <4>1. p.una = t.una /\ p.recover = t.recover /\ p.congState = t.congState
          BY <3>1, <3>2 DEF SamePoint, SameMarks
        <4>2. t.congState = "LOSS" => p.una <= p.recover
          BY <2>3, <2>5, <4>1
        <4> QED  BY <2>5, <3>3, <4>1, <4>2 DEF Before, Point
      <3>6. p.congState = t.congState
        BY <3>1, <3>2 DEF SamePoint
      <3> QED  BY <3>4, <3>5, <3>6 DEF p
    <2>6. CASE ~RecoveryCovered(t) /\ t.congState = "RECOVERY"
      <3>1. t.una < t.recover
        BY <2>3, <2>6 DEF RecoveryCovered
      <3> DEFINE p == PartialAck(t, n, d, r)
      <3>2. q = p
        BY <1>1, <1>8, <2>6
      <3>3. After(p, t) /\ Point(p)
        BY <2>2, <2>3, <2>6, <3>1, PartialAckFacts
      <3> HIDE DEF p, q
      <3>4. Done(p)
        BY <2>4, <2>6, <3>3
      <3> QED  BY <3>2, <3>4 DEF q
    <2>7. CASE ~RecoveryCovered(t) /\ t.congState = "LOSS"
      <3>1. t.una < t.recover
        BY <2>3, <2>7 DEF RecoveryCovered
      <3> DEFINE u == IncreaseWindow(t, n)
      <3>2. q = NewAck(u, TRUE)
        BY <1>1, <1>8, <2>7
      <3>3. Same(u, t)
        BY <2>3, IncreaseSame DEF Typed
      <3> HIDE DEF u, q
      <3>4. After(q, t) /\ Point(q) /\ q.congState = "LOSS"
        BY <2>5, <2>7, <3>1, <3>2, <3>3
      <3>5. q.una < q.recover
        BY <3>1, <3>4 DEF After, SameMarks
      <3>6. After(q, s)
        BY <2>2, <3>4, AfterTrans
      <3> QED  BY <3>4, <3>5, <3>6 DEF q
    <2>8. CASE t.congState = "CWR"
      <3> DEFINE u == DoRecovery(t, d, r)
      <3>2. q = NewAck(u, TRUE)
        BY <1>1, <1>8, <2>8
      <3>3. Same(u, t)
        BY <2>3, RecoverySame DEF Typed
      <3> HIDE DEF u, q
      <3>4. After(q, t) /\ Point(q)
        BY <2>5, <2>8, <3>2, <3>3
      <3>5. Done(q)
        BY <2>4, <2>8, <3>4
      <3> QED  BY <3>5 DEF q
    <2>9. CASE t.congState # "CWR" /\ (t.congState \in {"RECOVERY", "LOSS"} => RecoveryCovered(t))
      <3> DEFINE p == FullAck(t, n, b)
      <3>1. q = p
        BY <1>1, <1>8, <2>9
      <3>2. After(p, t) /\ Point(p) /\ p.congState # "LOSS"
        BY <2>2, <2>3, <2>9, FullAckFacts DEF RecoveryCovered
      <3> HIDE DEF p, q
      <3>3. Done(p)
        BY <2>4, <3>2
      <3> QED  BY <3>1, <3>3 DEF q
    <2> QED  BY <2>6, <2>7, <2>8, <2>9
  <1> QED  BY <1>7, <1>8

----------------------------------------------------------------------------
(* ReceivedAck, on the state before it.                                    *)

\* The socket once an ACK is entered in the scoreboard.
Entered(q, s, ack, list) ==
    /\ Typed(q) /\ Board(q) /\ CountOK(q) /\ LossOK(q)
    /\ q.una = ack /\ q.nxt = s.nxt /\ q.written = s.written
    /\ q.sacked = (s.sacked \cup NewlySacked(s, list)) \cap ack..(s.nxt - 1)
    /\ q.retrans \subseteq s.retrans /\ q.out = s.out /\ q.retxEvent = s.retxEvent
    /\ q.alive = s.alive /\ q.build = s.build
    /\ q.failed = s.failed \/ q.failed \notin Watched \cup {"none"}
    /\ q.congState = "RECOVERY" => s.congState = "RECOVERY"
    /\ q.congState = "LOSS" => s.congState = "LOSS" /\ q.recover = s.recover

LEMMA KeptFacts ==
    ASSUME NEW s, Socket(s), NEW ack \in Int, s.una <= ack, ack <= s.nxt, NEW list,
           s.una \notin list, ack \notin s.sacked, ack \notin list
    PROVE  LET q == DiscardUpTo(Update(s, list), ack) IN
           /\ Entered(q, s, ack, list) /\ q.congState = s.congState
           /\ q.recover = s.recover /\ q.recoverActive = s.recoverActive
  <1> DEFINE new == NewlySacked(s, list)
             u == Update(s, list)
             q == DiscardUpTo(u, ack)
             kept == ack..(s.nxt - 1)
  <1>1. Typed(s) /\ Board(s) /\ s.una \in Int /\ s.nxt \in Int /\ s.recover \in Int
    BY DEF Socket, Typed
  <1>2. /\ Ctl(u, s) /\ u.una = s.una /\ u.sacked = s.sacked \cup new
        /\ u.retrans = s.retrans /\ s.lost \ new \subseteq u.lost /\ u.highSack \in Int
        /\ Board(u)
    BY <1>1, UpdateFacts
  <1>3. new \subseteq list
    BY DEF NewlySacked
  <1> HIDE DEF u, new
  <1>4. Typed(u) /\ u.una <= ack /\ ack <= u.nxt /\ ack \notin u.sacked /\ u.nxt = s.nxt
    BY <1>1, <1>2, <1>3 DEF Typed, Ctl
  <1>5. /\ Ctl(q, u) /\ q.una = ack /\ q.sacked = u.sacked \cap kept
        /\ q.lost = u.lost \cap kept /\ q.retrans = u.retrans \cap kept
        /\ Typed(q) /\ Board(q)
    BY <1>2, <1>4, DiscardFacts
  <1> HIDE DEF q
  <1>6. /\ Ctl(q, s) /\ q.sacked = (s.sacked \cup new) \cap kept /\ q.retrans = s.retrans \cap kept
        /\ (s.lost \ new) \cap kept \subseteq q.lost
    BY <1>2, <1>5 DEF Ctl
  <1>7. CountOK(q)
    BY <1>6 DEF CountOK, Running, Ctl, Socket
  <1>8. LossOK(q)
    <2> SUFFICES ASSUME s.congState = "LOSS" PROVE LossOK(q)
      BY <1>6 DEF LossOK, Ctl
    <2>1. /\ s.una..(s.recover - 1) \subseteq s.lost \cup s.sacked
          /\ s.nxt # s.recover => s.una..(s.recover - 1) \subseteq s.retrans \cup s.sacked
          /\ \A i \in s.retrans : s.una..i \subseteq s.retrans \cup s.sacked
          /\ s.recover <= s.nxt
      BY DEF Socket, LossOK, Point
    <2>2. q.recover = s.recover /\ q.nxt = s.nxt /\ q.una = ack
      BY <1>5, <1>6 DEF Ctl
    <2>3. ack..(s.recover - 1) \subseteq s.una..(s.recover - 1) \cap kept
      BY <1>1, <2>1
    <2>4. q.una..(q.recover - 1) \subseteq q.lost \cup q.sacked
      BY <1>6, <2>1, <2>2, <2>3
    <2>5. q.nxt # q.recover => q.una..(q.recover - 1) \subseteq q.retrans \cup q.sacked
      BY <1>6, <2>1, <2>2, <2>3
    <2>6. ASSUME NEW i \in q.retrans PROVE q.una..i \subseteq q.retrans \cup q.sacked
      <3>1. i \in s.retrans /\ i \in kept
        BY <1>6, <2>6
      <3>2. ack..i \subseteq s.una..i \cap kept
        BY <1>1, <3>1
      <3> QED  BY <1>6, <2>1, <2>2, <3>1, <3>2
    <2> QED  BY <2>4, <2>5, <2>6 DEF LossOK
  <1>9. Entered(q, s, ack, list)
    BY <1>5, <1>6, <1>7, <1>8 DEF Entered, Ctl, new
  <1> QED  BY <1>6, <1>9 DEF q, u, Ctl

\* The stages of ReceivedAck before ProcessAck that are not the scoreboard's.
LEMMA FlownFacts ==
    ASSUME NEW s, Socket(s), NEW ack \in Int, s.una <= ack, ack <= s.nxt, NEW list,
           s.una \notin list, ack \notin s.sacked, ack \notin list,
           NEW ece \in BOOLEAN, NEW d, NEW r
    PROVE  LET kept == DiscardUpTo(Update(s, list), ack)
               leftCwr == IF kept.congState = "CWR" /\ ack > kept.recover
                          THEN RecoveryOpsExit([kept EXCEPT !.congState = "OPEN",
                                                            !.cwnd = kept.ssThresh])
                          ELSE kept
               echoed == IF s.una..(ack - 1) # {} /\ ece /\ leftCwr.congState # "CWR"
                         THEN EnterCwr(leftCwr, d, r)
                         ELSE leftCwr
               q == [echoed EXCEPT !.bytesInFlight = BytesInFlight(echoed)]
           IN  Entered(q, s, ack, list) /\ Before(q, ack > s.una)
  <1> DEFINE kept == DiscardUpTo(Update(s, list), ack)
             open == [kept EXCEPT !.congState = "OPEN", !.cwnd = kept.ssThresh]
             exit == RecoveryOpsExit(open)
             leftCwr == IF kept.congState = "CWR" /\ ack > kept.recover THEN exit ELSE kept
             cwr == EnterCwr(leftCwr, d, r)
             echoed == IF s.una..(ack - 1) # {} /\ ece /\ leftCwr.congState # "CWR" THEN cwr
                       ELSE leftCwr
             q == [echoed EXCEPT !.bytesInFlight = BytesInFlight(echoed)]
             acked == ack > s.una
  <1>0. s.una \in Int /\ s.nxt \in Int /\ s.recover \in Int
    BY DEF Socket, Typed
  <1>1. /\ Entered(kept, s, ack, list) /\ kept.congState = s.congState
        /\ kept.recover = s.recover /\ kept.recoverActive = s.recoverActive
    BY KeptFacts
  <1> HIDE DEF kept
  <1> DEFINE E(x) == Entered(x, s, ack, list)
  <1>2. ASSUME NEW x, NEW y, E(x), Same(y, x) PROVE E(y)
    <2>1. Typed(y) /\ Board(y) /\ SameMarks(y, x)
      BY <1>2, SameGives DEF Entered
    <2>2. CountOK(y) /\ LossOK(y)
      BY <1>2 DEF Entered, Same, CountOK, Running, LossOK
    <2> QED  BY <1>2, <2>1, <2>2 DEF Entered, Same
  <1>3. E(leftCwr) /\ Before(leftCwr, acked)
    <2>1. CASE kept.congState = "CWR" /\ ack > kept.recover
      <3>1. /\ DOMAIN open = Fields /\ SameMarks(open, kept) /\ open.out = kept.out
            /\ open.alive = kept.alive /\ open.build = kept.build
            /\ open.retxEvent = kept.retxEvent /\ open.failed = kept.failed
            /\ open.congState = "OPEN" /\ open.recover = kept.recover
            /\ open.recoverActive = kept.recoverActive
            /\ open.dupAckCount = kept.dupAckCount
            /\ open.isFirstPartialAck = kept.isFirstPartialAck
        BY <1>1 DEF SameMarks, Entered, Typed, Fields
      <3> HIDE DEF open
      <3>2. Typed(open) /\ Board(open)
        <4>1. Typed(open)
          BY <1>1, <3>1 DEF Entered, Typed, SameMarks, CongStates
        <4> QED  BY <1>1, <3>1, <4>1, MarksBoard DEF Entered
      <3>3. E(open)
        BY <1>1, <3>1, <3>2 DEF Entered, SameMarks, CountOK, LossOK
      <3>4. Same(exit, open)
        BY <3>1, RecoverySame
      <3> HIDE DEF exit
      <3>5. E(exit)
        <4> HIDE DEF E
        <4> QED  BY <1>2, <3>3, <3>4
      <3>6. Before(exit, acked)
        <4>1. exit.congState = "OPEN" /\ exit.recover = s.recover /\ exit.una = ack
          BY <1>1, <3>1, <3>4, <3>5 DEF Same, Entered
        <4>2. s.una <= s.recover /\ ack > s.recover
          BY <1>1, <2>1 DEF Socket, Point
        <4> QED  BY <1>0, <4>1, <4>2 DEF Before
      <3> QED  BY <2>1, <3>5, <3>6
    <2>2. CASE ~(kept.congState = "CWR" /\ ack > kept.recover)
      <3>1. /\ s.congState = "RECOVERY" =>
                 s.recoverActive /\ s.una < s.recover /\ s.recover <= s.nxt
            /\ s.congState = "LOSS" =>
                 s.recoverActive /\ s.una <= s.recover /\ s.recover <= s.nxt
            /\ s.congState = "CWR" => s.una <= s.recover /\ s.recover <= s.nxt
            /\ s.recoverActive => s.congState \in {"RECOVERY", "LOSS", "CWR"}
        BY DEF Socket, Point
      <3>2. kept.una = ack /\ kept.nxt = s.nxt
        BY <1>1 DEF Entered
      <3>3. Before(kept, acked)
        BY <1>0, <1>1, <2>2, <3>1, <3>2 DEF Before
      <3> QED  BY <1>1, <2>2, <3>3
    <2> QED  BY <2>1, <2>2
  <1> HIDE DEF leftCwr
  <1>4. E(echoed) /\ Before(echoed, acked)
    <2>1. CASE echoed = leftCwr
      BY <1>3, <2>1
    <2>2. CASE echoed # leftCwr
      <3>1. echoed = cwr
        BY <2>2
      <3>2. Typed(leftCwr) /\ Board(leftCwr) /\ leftCwr.una = ack /\ leftCwr.nxt = s.nxt
        BY <1>3 DEF Entered
      <3>3. /\ Gives(cwr, leftCwr) /\ SameMarks(cwr, leftCwr) /\ cwr.congState = "CWR"
            /\ cwr.recover = leftCwr.nxt /\ cwr.out = leftCwr.out
            /\ cwr.retxEvent = leftCwr.retxEvent
        BY <3>2, EnterCwrFacts
      <3> HIDE DEF cwr, echoed
      <3>4. E(cwr)
        <4>1. CountOK(cwr) /\ LossOK(cwr) /\ Typed(cwr) /\ Board(cwr)
          BY <3>3 DEF CountOK, LossOK, Gives
        <4>2. /\ cwr.alive = leftCwr.alive /\ cwr.build = leftCwr.build
              /\ cwr.failed = leftCwr.failed \/ cwr.failed \notin Watched \cup {"none"}
          BY <3>3 DEF Gives
        <4> QED  BY <1>3, <3>3, <4>1, <4>2 DEF Entered, SameMarks
      <3>5. Before(cwr, acked)
        BY <1>0, <3>2, <3>3 DEF Before, SameMarks
      <3> QED  BY <3>1, <3>4, <3>5
    <2> QED  BY <2>1, <2>2
  <1> HIDE DEF echoed
  <1>5. Same(q, echoed)
    BY <1>4 DEF Same, Entered, Typed, Fields
  <1> HIDE DEF q
  <1>6. E(q)
    <2> HIDE DEF E
    <2> QED  BY <1>2, <1>4, <1>5
  <1>7. Before(q, acked)
    <2>1. Typed(echoed) /\ Board(echoed) /\ CountOK(echoed)
      BY <1>4 DEF Entered
    <2> HIDE DEF acked
    <2> QED  BY <1>4, <1>5, <2>1, SameAfter
  <1> QED  BY <1>6, <1>7 DEF q, echoed, cwr, leftCwr, exit, open, kept

\* What the socket is once the ACK is processed, against what it was.
Answers(q, s, ack, list) ==
    /\ Typed(q) /\ Board(q) /\ Point(q) /\ LossOK(q) /\ CountOK(q)
    /\ q.una = ack /\ q.written = s.written /\ s.nxt <= q.nxt
    /\ q.sacked \subseteq s.sacked \cup list
    /\ \A i \in q.retrans \ s.retrans : i \notin s.sacked \cup q.sacked
    /\ q.out \subseteq s.out \cup ack..(q.nxt - 1)
    /\ (s.una < s.nxt => s.retxEvent) => (q.una < q.nxt => q.retxEvent)
    /\ q.failed = s.failed \/ q.failed \notin Watched \cup {"none"}
    /\ q.congState = "RECOVERY" /\ s.congState # "RECOVERY" => q.una \in q.retrans
    /\ q.congState = "LOSS" /\ (s.congState = "LOSS" => s.una < s.recover) => q.una < q.recover

LEMMA AnswersFacts ==
    ASSUME NEW s, Socket(s), s.alive, NEW ack \in Int, s.una <= ack, ack <= s.nxt, NEW list,
           s.una \notin list, ack \notin s.sacked, \A i \in list : i > ack,
           NEW ece \in BOOLEAN, NEW d, NEW r, NEW c
    PROVE  LET kept == DiscardUpTo(Update(s, list), ack)
               leftCwr == IF kept.congState = "CWR" /\ ack > kept.recover
                          THEN RecoveryOpsExit([kept EXCEPT !.congState = "OPEN",
                                                            !.cwnd = kept.ssThresh])
                          ELSE kept
               echoed == IF s.una..(ack - 1) # {} /\ ece /\ leftCwr.congState # "CWR"
                         THEN EnterCwr(leftCwr, d, r)
                         ELSE leftCwr
               flown == [echoed EXCEPT !.bytesInFlight = BytesInFlight(echoed)]
           IN  Answers(ProcessAck(flown, Cardinality(s.una..(ack - 1)),
                                  NewlySacked(s, list) # {}, d, r, c), s, ack, list)
  <1> DEFINE kept == DiscardUpTo(Update(s, list), ack)
             leftCwr == IF kept.congState = "CWR" /\ ack > kept.recover
                        THEN RecoveryOpsExit([kept EXCEPT !.congState = "OPEN",
                                                          !.cwnd = kept.ssThresh])
                        ELSE kept
             echoed == IF s.una..(ack - 1) # {} /\ ece /\ leftCwr.congState # "CWR"
                       THEN EnterCwr(leftCwr, d, r)
                       ELSE leftCwr
             flown == [echoed EXCEPT !.bytesInFlight = BytesInFlight(echoed)]
             n == Cardinality(s.una..(ack - 1))
             b == NewlySacked(s, list) # {}
             q == ProcessAck(flown, n, b, d, r, c)
  <1>1. /\ s.una \in Int /\ s.nxt \in Int /\ ack \notin list
        /\ s.sacked \subseteq Sent(s)
    <2>1. s.una \in Int /\ s.nxt \in Int
      BY DEF Socket, Typed
    <2>2. s.sacked \subseteq Sent(s)
      BY DEF Socket, Board
    <2>3. ~(ack > ack)
      OBVIOUS
    <2>4. ack \notin list
      BY <2>3, Zenon
    <2> QED  BY <2>1, <2>2, <2>4, Zenon
  <1>2. Entered(flown, s, ack, list) /\ Before(flown, ack > s.una)
    BY <1>1, FlownFacts, ZenonT(40)
  <1> HIDE DEF flown
  <1>3. n \in Nat /\ (n # 0) = (ack > s.una)
    <2>1. n = IF s.una >= ack THEN 0 ELSE ack - s.una
      BY <1>1, IntervalCount
    <2> HIDE DEF n
    <2> QED  BY <1>1, <2>1
  <1>4. Before(flown, n # 0)
    BY <1>2, <1>3
  <1>5. b => ack < s.nxt
    <2>1. NewlySacked(s, list) \subseteq list \cap Sent(s)
      BY DEF NewlySacked
    <2> QED  BY <1>1, <2>1 DEF Sent
  <1>6. /\ Typed(flown) /\ Board(flown) /\ CountOK(flown) /\ flown.alive
        /\ flown.una = ack /\ flown.nxt = s.nxt
    BY <1>2 DEF Entered
  <1>7. b \in BOOLEAN
    OBVIOUS
  <1> HIDE DEF n, b
  <1>8. /\ After(q, flown) /\ Point(q)
        /\ n # 0 /\ q.congState = "LOSS" => q.una < q.recover
    BY <1>3, <1>4, <1>5, <1>6, <1>7, ProcessAckFacts
  <1> HIDE DEF q
  <1>9. /\ Typed(q) /\ Board(q) /\ CountOK(q) /\ q.una = ack /\ q.written = s.written
        /\ q.nxt \in Int /\ s.nxt <= q.nxt /\ q.sacked = flown.sacked
    BY <1>2, <1>8 DEF After, Gives, Entered, Typed
  <1>10. LossOK(q)
    BY <1>2, <1>8 DEF After, Entered, LossOK, SameMarks
  <1>11. q.sacked \subseteq s.sacked \cup list
    BY <1>2, <1>9 DEF Entered, NewlySacked
  <1>12. ASSUME NEW i \in q.retrans \ s.retrans PROVE i \notin s.sacked \cup q.sacked
    <2>1. i \notin flown.sacked
      BY <1>2, <1>8, <1>12 DEF After, Gives, Entered
    <2>2. i \in ack..(q.nxt - 1)
      BY <1>9, <1>12 DEF Board, Sent
    <2>3. i \in s.sacked => i \in ack..(s.nxt - 1)
      BY <1>1, <1>9, <2>2 DEF Sent
    <2> QED  BY <1>2, <1>9, <2>1, <2>3 DEF Entered
  <1>13. q.out \subseteq s.out \cup ack..(q.nxt - 1)
    BY <1>2, <1>6, <1>8 DEF After, Gives, Entered
  <1>14. (s.una < s.nxt => s.retxEvent) => (q.una < q.nxt => q.retxEvent)
    <2>1. (flown.una < flown.nxt => flown.retxEvent) => (q.una < q.nxt => q.retxEvent)
      BY <1>8 DEF After, Gives
    <2> QED  BY <1>1, <1>2, <2>1 DEF Entered
  <1>15. q.failed = s.failed \/ q.failed \notin Watched \cup {"none"}
    BY <1>2, <1>8 DEF After, Gives, Entered
  <1>16. q.congState = "RECOVERY" /\ s.congState # "RECOVERY" => q.una \in q.retrans
    BY <1>2, <1>8, <1>9 DEF After, Entered
  <1>18. q.congState = "LOSS" /\ (s.congState = "LOSS" => s.una < s.recover) => q.una < q.recover
    <2>1. q.congState = "LOSS" => s.congState = "LOSS" /\ q.recover = s.recover
      BY <1>2, <1>8 DEF After, Entered
    <2>2. n = 0 => ack = s.una
      BY <1>1, <1>3
    <2> QED  BY <1>8, <1>9, <2>1, <2>2
  <1>17. Answers(q, s, ack, list)
    BY <1>8, <1>9, <1>10, <1>11, <1>12, <1>13, <1>14, <1>15, <1>16, <1>18 DEF Answers
  <1> QED  BY <1>17 DEF q, flown, n, b

----------------------------------------------------------------------------
(* What is in flight.                                                      *)

LEMMA FlightFacts ==
    ASSUME NEW s, Typed(s), Board(s)
    PROVE  LET n == (s.nxt - s.una) - Cardinality(s.sacked) - Cardinality(s.lost)
                       + Cardinality(s.retrans) IN
           n \in Int /\ BytesInFlight(s) = SegSize * n
  <1>1. s.sacked \subseteq Sent(s) /\ s.lost \subseteq Sent(s) /\ s.retrans \subseteq Sent(s)
    BY DEF Board
  <1>2. /\ Cardinality(s.sacked) \in Nat /\ Cardinality(s.lost) \in Nat
        /\ Cardinality(s.retrans) \in Nat
    BY <1>1, SentFinite
  <1>3. s.una \in Int /\ s.nxt \in Int /\ SegSize \in Int
    BY SenderAssumption DEF Typed
  <1> DEFINE x == s.nxt - s.una
             k == Cardinality(s.sacked)
             l == Cardinality(s.lost)
             m == Cardinality(s.retrans)
  <1>4. x \in Int /\ k \in Int /\ l \in Int /\ m \in Int
    BY <1>2, <1>3
  <1>5. BytesInFlight(s) = SegSize * x - SegSize * k - SegSize * l + SegSize * m
    BY DEF BytesInFlight, SizeOf
  <1> HIDE DEF x, k, l, m
  <1>6. SegSize * x - SegSize * k - SegSize * l + SegSize * m = SegSize * (x - k - l + m)
    BY <1>3, <1>4
  <1>7. x - k - l + m \in Int
    BY <1>4
  <1> QED  BY <1>5, <1>6, <1>7 DEF x, k, l, m

\* Nothing is in flight when all that was sent is lost or SACKed.
LEMMA NoFlight ==
    ASSUME NEW s, Typed(s), Board(s), s.retrans = {}, Sent(s) \subseteq s.lost \cup s.sacked
    PROVE  BytesInFlight(s) = 0
  <1>1. s.una \in Int /\ s.nxt \in Int /\ s.una <= s.nxt
    BY DEF Typed, Board
  <1>2. s.lost \cup s.sacked = Sent(s) /\ s.lost \cap s.sacked = {}
    BY DEF Board
  <1>3. /\ IsFiniteSet(s.lost) /\ IsFiniteSet(s.sacked)
        /\ Cardinality(s.lost) \in Nat /\ Cardinality(s.sacked) \in Nat
    BY SentFinite DEF Board
  <1>4. Cardinality(Sent(s)) = s.nxt - s.una
    <2>1. Cardinality(Sent(s)) = IF s.una >= s.nxt THEN 0 ELSE s.nxt - s.una
      BY <1>1, IntervalCount DEF Sent
    <2> QED  BY <1>1, <2>1
  <1>5. Cardinality(s.lost \cap s.sacked) = 0 /\ Cardinality(s.retrans) = 0
    BY <1>2, FS_EmptySet
  <1>6. Cardinality(s.lost \cup s.sacked)
          = Cardinality(s.lost) + Cardinality(s.sacked) - Cardinality(s.lost \cap s.sacked)
    BY <1>3, FS_Union
  <1>7. s.nxt - s.una = Cardinality(s.lost) + Cardinality(s.sacked)
    <2> DEFINE k == Cardinality(s.lost)
               l == Cardinality(s.sacked)
    <2>1. s.nxt - s.una = k + l - 0
      BY <1>2, <1>4, <1>5, <1>6, Zenon
    <2> HIDE DEF k, l
    <2>2. k \in Nat /\ l \in Nat
      BY <1>3 DEF k, l
    <2>3. s.nxt - s.una = k + l
      BY <1>1, <2>1, <2>2
    <2> QED  BY <2>3 DEF k, l
  <1> DEFINE n == (s.nxt - s.una) - Cardinality(s.sacked) - Cardinality(s.lost)
                    + Cardinality(s.retrans)
  <1>8. n = 0
    BY <1>1, <1>3, <1>5, <1>7
  <1>9. BytesInFlight(s) = SegSize * n
    BY FlightFacts
  <1> HIDE DEF n
  <1> QED  BY <1>8, <1>9, SenderAssumption

LEMMA WindowFacts ==
    ASSUME NEW s, BytesInFlight(s) \in Int, s.cwnd \in Int
    PROVE  /\ AvailableWindow(s) >= SegSize => BytesInFlight(s) + SegSize <= s.cwnd
           /\ BytesInFlight(s) = 0 /\ s.cwnd >= SegSize => AvailableWindow(s) >= SegSize
  <1>1. /\ RWnd \in Int /\ SegSize \in Int /\ SegSize > 0 /\ RWnd >= SegSize
    <2>1. SegSize \in Nat /\ SegSize > 0 /\ RWnd \in Nat /\ RWnd > 0 /\ RWnd % SegSize = 0
      BY SenderAssumption
    <2>2. RWnd < SegSize => RWnd % SegSize = RWnd
      BY <2>1
    <2> QED  BY <2>1, <2>2
  <1> DEFINE w == Min({RWnd, s.cwnd})
  <1>2. w \in Int /\ w <= s.cwnd /\ (s.cwnd >= SegSize => w >= SegSize)
    <2>1. w = IF RWnd <= s.cwnd THEN RWnd ELSE s.cwnd
      BY <1>1, PairFacts
    <2> HIDE DEF w
    <2> QED  BY <1>1, <2>1
  <1>3. AvailableWindow(s) = Max({0, w - BytesInFlight(s)})
    BY DEF AvailableWindow
  <1> HIDE DEF w
  <1>4. w - BytesInFlight(s) \in Int /\ 0 \in Int
    BY <1>2
  <1> DEFINE z == w - BytesInFlight(s)
  <1>5. AvailableWindow(s) = IF 0 >= z THEN 0 ELSE z
    BY <1>3, <1>4, PairFacts
  <1> QED  BY <1>1, <1>2, <1>4, <1>5

\* A turn of the loop adds at most one segment to what is in flight.
LEMMA SendFlight ==
    ASSUME NEW s, Typed(s), Board(s), NEW i, Sendable(s, i)
    PROVE  BytesInFlight(SendDataPacket(s, i)) <= BytesInFlight(s) + SegSize
  <1> DEFINE q == SendDataPacket(s, i)
             x == (s.nxt - s.una) - Cardinality(s.sacked) - Cardinality(s.lost)
             y == (q.nxt - q.una) - Cardinality(q.sacked) - Cardinality(q.lost)
             m == Cardinality(s.retrans)
             k == Cardinality(q.retrans)
  <1>1. SendKeeps(q, s) /\ Typed(q) /\ Board(q)
    BY SendFacts
  <1>2. \/ q.nxt = s.nxt /\ q.retrans = s.retrans
        \/ q.nxt = s.nxt /\ q.retrans = s.retrans \cup {i}
        \/ q.nxt = s.nxt + 1 /\ q.retrans = s.retrans
    <2>1. i \in Int /\ s.nxt \in Int /\ i <= s.nxt
      BY DEF Sendable, Typed
    <2> QED  BY <2>1, SendFacts
  <1> HIDE DEF q
  <1>3. s.nxt - s.una \in Int /\ q.nxt - q.una \in Int
    BY <1>1 DEF Typed
  <1>4. /\ Cardinality(s.sacked) \in Nat /\ Cardinality(s.lost) \in Nat /\ m \in Nat
        /\ IsFiniteSet(s.retrans)
    BY SentFinite DEF Board
  <1>5. Cardinality(q.sacked) = Cardinality(s.sacked) /\ Cardinality(q.lost) = Cardinality(s.lost)
    BY <1>1 DEF SendKeeps
  <1>6. k \in Nat
    BY <1>1, SentFinite DEF Board
  <1>7. q.retrans = s.retrans \cup {i} => k <= m + 1
    <2>1. Cardinality(s.retrans \cup {i}) = IF i \in s.retrans THEN m ELSE m + 1
      BY <1>4, FS_AddElement
    <2>2. q.retrans = s.retrans \cup {i} => k = IF i \in s.retrans THEN m ELSE m + 1
      BY <2>1, Zenon
    <2> HIDE DEF k, m
    <2> QED  BY <1>4, <2>2
  <1>8. y + k <= x + m + 1 /\ x \in Int /\ y \in Int
    <2>1. q.una = s.una /\ s.una \in Int /\ s.nxt \in Int
      BY <1>1 DEF SendKeeps, Typed
    <2>2. q.retrans = s.retrans => k = m
      OBVIOUS
    <2> HIDE DEF k, m
    <2> QED  BY <1>2, <1>3, <1>4, <1>5, <1>6, <1>7, <2>1, <2>2
  <1>9. BytesInFlight(s) = SegSize * (x + m) /\ BytesInFlight(q) = SegSize * (y + k)
    BY <1>1, FlightFacts
  <1> HIDE DEF x, y, k, m
  <1>10. SegSize \in Nat
    BY SenderAssumption
  <1> DEFINE f == x + m
             g == y + k
  <1>11. f \in Int /\ g \in Int /\ g <= f + 1
    BY <1>4, <1>6, <1>8
  <1>12. BytesInFlight(s) = SegSize * f /\ BytesInFlight(q) = SegSize * g
    BY <1>9
  <1> HIDE DEF f, g
  <1>13. SegSize * g <= SegSize * f + SegSize
    <2>1. \A p \in Nat : \A t \in Nat : p * t >= 0
      OBVIOUS
    <2> DEFINE t == f + 1 - g
    <2>2. t \in Nat
      BY <1>11
    <2>3. SegSize * t = SegSize * f + SegSize - SegSize * g
      BY <1>10, <1>11
    <2> HIDE DEF t
    <2>4. SegSize * t >= 0
      BY <1>10, <2>1, <2>2
    <2> QED  BY <1>10, <1>11, <2>3, <2>4
  <1> QED  BY <1>12, <1>13 DEF q

----------------------------------------------------------------------------
(* The steps.                                                              *)

LEMMA ClearedFacts ==
    ASSUME NEW s, Socket(s)
    PROVE  LET q == [s EXCEPT !.out = {}] IN
           /\ Socket(q) /\ SameMarks(q, s) /\ SamePoint(q, s) /\ q.cwnd = s.cwnd
           /\ q.retxEvent = s.retxEvent /\ q.out = {} /\ Running(q) = Running(s)
           /\ q.failed = s.failed
           /\ BytesInFlight(q) = BytesInFlight(s)
  <1> DEFINE q == [s EXCEPT !.out = {}]
  <1>1. /\ DOMAIN q = Fields /\ SameMarks(q, s) /\ q.out = {} /\ q.cwnd = s.cwnd
        /\ q.alive = s.alive /\ q.build = s.build
        /\ q.retxEvent = s.retxEvent /\ q.failed = s.failed
        /\ SamePoint(q, s) /\ q.dupAckCount = s.dupAckCount
        /\ q.isFirstPartialAck = s.isFirstPartialAck
    BY DEF SameMarks, SamePoint, Socket, Typed, Fields
  <1> HIDE DEF q
  <1>2. Typed(q)
    BY <1>1 DEF Typed, SameMarks, SamePoint, Socket
  <1>3. Board(q)
    BY <1>1, MarksBoard DEF Socket
  <1>4. Point(q) /\ LossOK(q) /\ CountOK(q) /\ AssertionsHold(q)
    BY <1>1 DEF Socket, Point, LossOK, CountOK, AssertionsHold, Running, SameMarks, SamePoint
  <1>5. BytesInFlight(q) = BytesInFlight(s) /\ Running(q) = Running(s)
    BY <1>1 DEF BytesInFlight, Running, SameMarks
  <1> QED  BY <1>1, <1>2, <1>3, <1>4, <1>5 DEF Socket, q

\* A handler keeps the invariant, but for the timer, if what it leaves is a
\* socket that the peer's state and the ACKs under way agree with.
LEMMA HandledFacts ==
    ASSUME Inv, NEW s, NEW next, Handled(s, next), next \in {"idle", "sending", "afterRto"},
           Socket(s), snd.nxt <= s.nxt, s.out \subseteq 0..(s.nxt - 1),
           0..(s.una - 1) \subseteq rcvd, s.sacked \subseteq rcvd,
           rcvd' = rcvd, acks' \subseteq acks,
           \A a \in acks' : a.ack \notin s.sacked /\ s.una \notin a.sack
    PROVE  /\ Socket(snd') /\ snd'.out = {} /\ phase' \in {"idle", "sending", "afterRto"}
           /\ phase' # "idle" => Running(snd')
           /\ Truthful'
  <1>1. snd' = [s EXCEPT !.out = {}] /\ net' = net \cup s.out
        /\ phase' = IF Running(s) THEN next ELSE "idle"
    BY DEF Handled
  <1>2. /\ Socket(snd') /\ SameMarks(snd', s) /\ snd'.out = {} /\ Running(snd') = Running(s)
    BY <1>1, ClearedFacts
  <1>3. snd'.una = s.una /\ snd'.nxt = s.nxt /\ snd'.sacked = s.sacked
    BY <1>2 DEF SameMarks
  <1>4. 0..(snd.nxt - 1) \subseteq 0..(s.nxt - 1)
    <2>1. snd.nxt \in Int /\ s.nxt \in Int
      BY DEF Inv, Socket, Typed
    <2> QED  BY <2>1
  <1>5. net' \subseteq 0..(snd'.nxt - 1) /\ rcvd' \subseteq 0..(snd'.nxt - 1)
    BY <1>1, <1>3, <1>4 DEF Inv, Truthful
  <1>6. ASSUME NEW a \in acks' PROVE AckOK(a)'
    <2>1. AckOK(a)
      BY DEF Inv, Truthful
    <2> QED  BY <1>3, <2>1 DEF AckOK
  <1>7. Truthful'
    BY <1>3, <1>5, <1>6 DEF Truthful
  <1> QED  BY <1>1, <1>2, <1>7

LEMMA TimerRunning ==
    ASSUME phase' # "afterRto", phase' = "idle" => ~Running(snd'),
           Running(snd') /\ snd'.una < snd'.nxt => snd'.retxEvent
    PROVE  Timer'
  BY DEF Timer, Idle

\* What a step sends again is not SACKed, fast recovery starts with the head,
\* and after a timeout the recovery point is beyond SND.UNA, but where nothing
\* was outstanding.
Moves ==
    /\ \A i \in snd'.retrans \ snd.retrans : i \notin snd.sacked \cup snd'.sacked
    /\ snd.congState # "RECOVERY" /\ snd'.congState = "RECOVERY" => snd'.una \in snd'.retrans
    /\ /\ snd.congState = "LOSS" => snd.una < snd.recover
       /\ ~(Idle /\ snd.una = snd.nxt /\ snd.una < snd.written)
       => (snd'.congState = "LOSS" => snd'.una < snd'.recover)

LEMMA QuietMoves ==
    ASSUME snd'.una = snd.una, snd'.retrans = snd.retrans, SamePoint(snd', snd)
    PROVE  Moves
  BY DEF Moves, SamePoint

LEMMA SendStep ==
    ASSUME Inv, Send
    PROVE  Inv' /\ Moves
  <1> DEFINE s == [snd EXCEPT !.written = @ + 1]
  <1>1. /\ phase = "idle" /\ Running(snd) /\ snd.written < NumSegs /\ Handled(s, "sending")
        /\ rcvd' = rcvd /\ acks' = acks
    BY DEF Send
  <1>2. Socket(snd) /\ snd.out = {} /\ Truthful /\ Timer
    BY DEF Inv
  <1>3. /\ DOMAIN s = Fields /\ s.una = snd.una /\ s.nxt = snd.nxt /\ s.written = snd.written + 1
        /\ s.sacked = snd.sacked /\ s.lost = snd.lost /\ s.retrans = snd.retrans
        /\ s.highSack = snd.highSack /\ s.out = snd.out
        /\ s.alive = snd.alive /\ s.build = snd.build
        /\ s.retxEvent = snd.retxEvent /\ s.failed = snd.failed
        /\ SamePoint(s, snd) /\ s.dupAckCount = snd.dupAckCount
        /\ s.isFirstPartialAck = snd.isFirstPartialAck
    BY <1>2 DEF SamePoint, Socket, Typed, Fields
  <1> HIDE DEF s
  <1>4. Typed(s)
    BY <1>2, <1>3 DEF Typed, SamePoint, Socket
  <1>5. Board(s)
    <2>1. snd.nxt <= s.written /\ s.written <= NumSegs
      BY <1>1, <1>2, <1>3, SenderAssumption DEF Socket, Typed, Board
    <2> QED  BY <1>2, <1>3, <2>1 DEF Socket, Board, Sent, HighOK, LostBelow
  <1>6. Socket(s) /\ Running(s)
    BY <1>1, <1>2, <1>3, <1>4, <1>5
       DEF Socket, Point, LossOK, CountOK, AssertionsHold, Running, SamePoint
  <1>7. /\ snd.nxt <= s.nxt /\ s.out \subseteq 0..(s.nxt - 1)
        /\ 0..(s.una - 1) \subseteq rcvd /\ s.sacked \subseteq rcvd
        /\ \A a \in acks' : a.ack \notin s.sacked /\ s.una \notin a.sack
    BY <1>1, <1>2, <1>3, <1>4 DEF Truthful, AckOK, Typed
  <1>8. /\ Socket(snd') /\ snd'.out = {} /\ phase' \in {"idle", "sending", "afterRto"}
        /\ phase' # "idle" => Running(snd')
        /\ Truthful'
    BY <1>1, <1>6, <1>7, HandledFacts
  <1>9. Timer'
    <2>1. snd' = [s EXCEPT !.out = {}] /\ phase' = "sending"
      BY <1>1, <1>6 DEF Handled
    <2>2. SameMarks(snd', s) /\ snd'.retxEvent = s.retxEvent
      BY <1>6, <2>1, ClearedFacts
    <2>3. snd.una < snd.nxt => snd.retxEvent
      BY <1>1, <1>2 DEF Timer
    <2> QED  BY <1>3, <2>1, <2>2, <2>3, TimerRunning DEF SameMarks
  <1>10. Moves
    <2>1. SameMarks(snd', s) /\ SamePoint(snd', s)
      BY <1>1, <1>6, ClearedFacts DEF Handled
    <2> QED  BY <1>3, <2>1, QuietMoves DEF SameMarks, SamePoint
  <1> QED  BY <1>8, <1>9, <1>10 DEF Inv

\* After a timeout the loop goes through what was sent in order.
LEMMA SendLoss ==
    ASSUME NEW s, Socket(s), s.congState = "LOSS", NEW b, ~b, NextSeg(s, b) # None
    PROVE  LossOK(SendDataPacket(s, NextSeg(s, b)))
  <1> DEFINE i == NextSeg(s, b)
             q == SendDataPacket(s, i)
             rule1 == s.lost \ (s.retrans \cup s.sacked)
  <1>1. /\ Typed(s) /\ Board(s) /\ s.una \in Int /\ s.nxt \in Int /\ s.recover \in Int
        /\ s.lost \subseteq Sent(s) /\ LostBelow(s) /\ s.recover <= s.nxt
    BY DEF Socket, Typed, Board, Point
  <1>2. /\ s.una..(s.recover - 1) \subseteq s.lost \cup s.sacked
        /\ s.nxt # s.recover => s.una..(s.recover - 1) \subseteq s.retrans \cup s.sacked
        /\ \A j \in s.retrans : s.una..j \subseteq s.retrans \cup s.sacked
    BY DEF Socket, LossOK
  <1>3. Sendable(s, i)
    BY <1>1, SendableFacts
  <1>4. /\ rule1 # {} => i \in rule1 /\ \A j \in rule1 : i <= j
        /\ rule1 = {} => i = s.nxt
    BY <1>1, NextSegFacts
  <1>5. /\ SendKeeps(q, s)
        /\ \/ q.nxt = s.nxt /\ q.retrans = s.retrans
           \/ i < s.nxt /\ q.nxt = s.nxt /\ q.retrans = s.retrans \cup {i}
           \/ i = s.nxt /\ q.nxt = s.nxt + 1 /\ q.retrans = s.retrans
    <2>1. i \in Int /\ i <= s.nxt
      BY <1>3 DEF Sendable
    <2> HIDE DEF i
    <2> QED  BY <1>1, <1>3, <2>1, SendFacts
  <1>6. i \in Int /\ i < s.nxt => s.una..i \subseteq s.retrans \cup s.sacked \cup {i}
    <2> SUFFICES ASSUME i \in Int, i < s.nxt, NEW x \in s.una..i, x # i, x \notin s.sacked
                 PROVE  x \in s.retrans
      OBVIOUS
    <2>1. i \in rule1 /\ \A j \in rule1 : i <= j
      BY <1>1, <1>4
    <2>2. x \in s.lost
      BY <1>1, <2>1 DEF LostBelow
    <2> HIDE DEF i
    <2>3. ~(i <= x)
      BY <1>1
    <2> QED  BY <2>1, <2>2, <2>3
  <1>7. i = s.nxt => s.una..(s.recover - 1) \subseteq s.retrans \cup s.sacked
    <2> SUFFICES ASSUME i = s.nxt, NEW x \in s.una..(s.recover - 1), x \notin s.sacked
                 PROVE  x \in s.retrans
      OBVIOUS
    <2>1. s.nxt \notin s.lost
      BY <1>1 DEF Sent
    <2>2. rule1 = {}
      BY <1>4, <2>1
    <2>3. x \in s.lost
      BY <1>2
    <2> QED  BY <2>2, <2>3
  <1>8. i \in Int
    BY <1>3 DEF Sendable
  <1> HIDE DEF q, i, rule1
  <1>9. q.una = s.una /\ q.recover = s.recover /\ q.lost = s.lost /\ q.sacked = s.sacked
    BY <1>5 DEF SendKeeps
  <1>10. LossOK(q)
    <2>1. CASE q.nxt = s.nxt /\ q.retrans = s.retrans
      BY <1>2, <1>9, <2>1 DEF LossOK
    <2>2. CASE i < s.nxt /\ q.nxt = s.nxt /\ q.retrans = s.retrans \cup {i}
      BY <1>2, <1>6, <1>8, <1>9, <2>2 DEF LossOK
    <2>3. CASE i = s.nxt /\ q.nxt = s.nxt + 1 /\ q.retrans = s.retrans
      BY <1>2, <1>7, <1>9, <2>3 DEF LossOK
    <2> QED  BY <1>5, <2>1, <2>2, <2>3
  <1> QED  BY <1>10 DEF q, i

LEMMA SendSegmentStep ==
    ASSUME Inv, SendSegment
    PROVE  Inv' /\ Moves
  <1> DEFINE b == snd.congState = "RECOVERY"
             i == NextSeg(snd, b)
             s == SendDataPacket(snd, i)
  <1>1. /\ phase # "idle" /\ CanSend(snd) /\ Handled(s, phase) /\ rcvd' = rcvd /\ acks' = acks
    BY DEF SendSegment
  <1>2. /\ Socket(snd) /\ snd.out = {} /\ Truthful /\ Timer /\ Running(snd)
        /\ phase \in {"sending", "afterRto"} /\ Typed(snd) /\ Board(snd)
    BY <1>1 DEF Inv, Socket
  <1>3. AvailableWindow(snd) >= SegSize /\ i # None
    BY <1>1 DEF CanSend
  <1>4. Sendable(snd, i)
    BY <1>2, <1>3, SendableFacts
  <1>5. Gives(s, snd) /\ SendKeeps(s, snd)
    BY <1>2, <1>4, SendGives, SendFacts
  <1>6. s.failed = "none" => s.retxEvent
    BY <1>2, <1>4, SendFacts
  <1>7. snd.congState = "LOSS" => LossOK(s)
    <2>1. snd.congState = "LOSS" => ~b
      OBVIOUS
    <2> HIDE DEF b
    <2> QED  BY <1>2, <1>3, <2>1, SendLoss
  <1>8. BytesInFlight(s) <= BytesInFlight(snd) + SegSize
    BY <1>2, <1>4, SendFlight
  <1> HIDE DEF s, i, b
  <1>9. snd.una \in Int /\ snd.nxt \in Int /\ s.nxt \in Int /\ snd.recover \in Int /\ 0 <= snd.una
    BY <1>2, <1>5 DEF Typed, Gives, Board
  <1>10. Socket(s)
    <2>1. Point(s)
      <3>1. s.una = snd.una /\ snd.nxt <= s.nxt /\ s.recover = snd.recover
            /\ s.congState = snd.congState /\ s.recoverActive = snd.recoverActive
        BY <1>5 DEF Gives, SendKeeps
      <3>2. snd.recover <= snd.nxt => snd.recover <= s.nxt
        BY <1>9, <3>1
      <3> QED  BY <1>2, <3>1, <3>2 DEF Socket, Point
    <2>2. LossOK(s)
      BY <1>5, <1>7 DEF LossOK, SendKeeps
    <2>3. CountOK(s) /\ AssertionsHold(s)
      BY <1>2, <1>5 DEF Socket, CountOK, AssertionsHold, SendKeeps, Gives, Running, Watched
    <2> QED  BY <1>5, <2>1, <2>2, <2>3 DEF Socket, Gives
  <1>11. /\ snd.nxt <= s.nxt /\ s.out \subseteq 0..(s.nxt - 1)
         /\ 0..(s.una - 1) \subseteq rcvd /\ s.sacked \subseteq rcvd
         /\ \A a \in acks' : a.ack \notin s.sacked /\ s.una \notin a.sack
    <2>1. snd.una..(s.nxt - 1) \subseteq 0..(s.nxt - 1)
      BY <1>9
    <2> QED  BY <1>1, <1>2, <1>5, <2>1 DEF Truthful, AckOK, Gives
  <1>12. /\ Socket(snd') /\ snd'.out = {} /\ phase' \in {"idle", "sending", "afterRto"}
         /\ phase' # "idle" => Running(snd')
         /\ Truthful'
    BY <1>1, <1>2, <1>10, <1>11, HandledFacts
  <1>13. Timer'
    <2>1. snd' = [s EXCEPT !.out = {}] /\ phase' = IF Running(s) THEN phase ELSE "idle"
      BY <1>1 DEF Handled
    <2>2. /\ SameMarks(snd', s) /\ SamePoint(snd', s) /\ snd'.retxEvent = s.retxEvent
          /\ Running(snd') = Running(s) /\ snd'.cwnd = s.cwnd
          /\ BytesInFlight(snd') = BytesInFlight(s)
      BY <1>10, <2>1, ClearedFacts
    <2>3. CASE ~Running(s)
      BY <2>1, <2>2, <2>3, TimerRunning
    <2>4. CASE Running(s) /\ phase = "sending"
      <3>1. snd.una < snd.nxt => snd.retxEvent
        BY <1>2, <2>4 DEF Timer
      <3> QED  BY <1>5, <2>1, <2>2, <2>4, <3>1, TimerRunning DEF SameMarks, Gives
    <2>5. CASE Running(s) /\ phase = "afterRto"
      <3>1. snd.congState = "LOSS" /\ snd.una < snd.written /\ snd.cwnd = SegSize
        BY <1>2, <2>5 DEF Timer
      <3>2. SegSize \in Int /\ BytesInFlight(snd) \in Int /\ BytesInFlight(s) \in Int
        <4>1. Typed(s) /\ Board(s)
          BY <1>10 DEF Socket
        <4>2. \A n \in Int : SegSize * n \in Int
          BY SenderAssumption
        <4> QED  BY <1>2, <4>1, <4>2, FlightFacts, SenderAssumption
      <3>3. BytesInFlight(s) <= SegSize
        <4>1. BytesInFlight(snd) + SegSize <= SegSize
          BY <1>3, <3>1, <3>2, WindowFacts
        <4> QED  BY <1>8, <3>2, <4>1
      <3>4. s.retxEvent /\ s.congState = "LOSS" /\ s.una < s.written /\ s.cwnd = SegSize
        BY <1>5, <1>6, <2>5, <3>1 DEF SendKeeps, Running
      <3>5. phase' = "afterRto"
        BY <2>1, <2>5
      <3> QED  BY <2>2, <3>3, <3>4, <3>5 DEF Timer, Idle, SameMarks, SamePoint
    <2> QED  BY <1>2, <2>3, <2>4, <2>5
  <1>14. Moves
    <2>1. SameMarks(snd', s) /\ SamePoint(snd', s)
      BY <1>1, <1>10, ClearedFacts DEF Handled
    <2>2. /\ snd'.una = snd.una /\ snd'.sacked = snd.sacked /\ SamePoint(snd', snd)
          /\ \A x \in snd'.retrans \ snd.retrans : x \notin snd.sacked
      BY <1>5, <2>1 DEF SameMarks, SamePoint, Gives, SendKeeps
    <2> QED  BY <2>2 DEF Moves, SamePoint
  <1> QED  BY <1>12, <1>13, <1>14 DEF Inv

\* When the loop of SendPendingData ends with nothing outstanding, or after a
\* timeout with the head not sent again, it is the window that ended it.
LEMMA StopFacts ==
    ASSUME NEW s, Socket(s), ~CanSend(s), s.una < s.written,
           \/ s.una = s.nxt
           \/ s.congState = "LOSS" /\ s.una < s.recover /\ s.una \notin s.retrans
    PROVE  BytesInFlight(s) = 0 /\ ~(AvailableWindow(s) >= SegSize)
  <1> DEFINE b == s.congState = "RECOVERY"
             i == NextSeg(s, b)
             rule1 == s.lost \ (s.retrans \cup s.sacked)
  <1>1. /\ Typed(s) /\ Board(s) /\ s.una \in Int /\ s.nxt \in Int /\ s.written \in Int
        /\ s.recover \in Int /\ s.una \notin s.sacked /\ 0 <= s.una
        /\ s.lost \subseteq Sent(s) /\ s.retrans \subseteq Sent(s) /\ s.sacked \subseteq Sent(s)
    BY DEF Socket, Typed, Board
  <1>2. AvailableWindow(s) >= SegSize => i = None
    BY DEF CanSend
  <1>3. CASE s.una = s.nxt
    <2>1. Sent(s) = {}
      BY <1>1, <1>3 DEF Sent
    <2>2. s.lost = {} /\ s.retrans = {} /\ s.sacked = {}
      BY <1>1, <2>1
    <2>3. BytesInFlight(s) = 0
      BY <1>1, <2>1, <2>2, NoFlight
    <2>4. i = s.nxt
      <3>1. SegSize * (s.nxt - s.una) <= RWnd
        BY <1>1, <1>3, SenderAssumption
      <3> QED  BY <1>3, <2>2, <3>1 DEF NextSeg
    <2>5. s.nxt # None
      BY <1>1, <1>3 DEF None
    <2> QED  BY <1>2, <2>3, <2>4, <2>5
  <1>4. CASE s.congState = "LOSS" /\ s.una < s.recover /\ s.una \notin s.retrans
    <2>1. /\ s.una..(s.recover - 1) \subseteq s.lost \cup s.sacked
          /\ s.nxt # s.recover => s.una..(s.recover - 1) \subseteq s.retrans \cup s.sacked
          /\ \A j \in s.retrans : s.una..j \subseteq s.retrans \cup s.sacked
      BY <1>4 DEF Socket, LossOK
    <2>2. s.una \in s.una..(s.recover - 1)
      BY <1>1, <1>4
    <2>3. s.nxt = s.recover
      BY <1>1, <1>4, <2>1, <2>2
    <2>4. Sent(s) \subseteq s.lost \cup s.sacked
      BY <2>1, <2>3 DEF Sent
    <2>5. s.retrans = {}
      <3> SUFFICES ASSUME NEW j \in s.retrans PROVE FALSE
        OBVIOUS
      <3>1. s.una \in s.una..j
        BY <1>1 DEF Sent
      <3> QED  BY <1>1, <1>4, <2>1, <3>1
    <2>6. BytesInFlight(s) = 0
      BY <1>1, <2>4, <2>5, NoFlight
    <2>7. s.una \in rule1
      BY <1>1, <1>4, <2>1, <2>2
    <2>8. i \in rule1
      BY <1>1, <2>7, NextSegFacts
    <2>9. i # None
      <3>1. \A x \in Sent(s) : x # None
        BY <1>1 DEF Sent, None
      <3> HIDE DEF i
      <3> QED  BY <1>1, <2>8, <3>1
    <2> QED  BY <1>2, <2>6, <2>9
  <1> QED  BY <1>3, <1>4

LEMMA StopSendingStep ==
    ASSUME Inv, StopSending
    PROVE  Inv' /\ Moves
  <1> DEFINE s == [snd EXCEPT !.bytesInFlight = BytesInFlight(snd)]
             t == IF phase = "afterRto"
                  THEN Assert(s, BytesInFlight(snd) <= SegSize, "RtoFlight") ELSE s
  <1>1. /\ phase # "idle" /\ ~CanSend(snd) /\ Handled(t, "idle") /\ rcvd' = rcvd /\ acks' = acks
    BY DEF StopSending
  <1>2. /\ Socket(snd) /\ snd.out = {} /\ Truthful /\ Timer /\ Running(snd)
        /\ phase \in {"sending", "afterRto"} /\ Typed(snd) /\ Board(snd)
    BY <1>1 DEF Inv, Socket
  <1>3. t = s
    <2>1. phase = "afterRto" => BytesInFlight(snd) <= SegSize
      BY <1>2 DEF Timer
    <2> QED  BY <2>1 DEF Assert
  <1> HIDE DEF t
  <1>4. Same(s, snd) /\ s.cwnd = snd.cwnd
    BY <1>2 DEF Same, Typed, Fields
  <1> HIDE DEF s
  <1>5. Typed(s) /\ Board(s) /\ SameMarks(s, snd)
    BY <1>2, <1>4, SameGives
  <1>6. Socket(s) /\ Running(s)
    BY <1>2, <1>4, <1>5
       DEF Socket, Point, LossOK, CountOK, AssertionsHold, Running, Same
  <1>7. /\ snd.nxt <= s.nxt /\ s.out \subseteq 0..(s.nxt - 1)
        /\ 0..(s.una - 1) \subseteq rcvd /\ s.sacked \subseteq rcvd
        /\ \A a \in acks' : a.ack \notin s.sacked /\ s.una \notin a.sack
    BY <1>1, <1>2, <1>4, <1>5 DEF Truthful, AckOK, Typed, Same
  <1>8. /\ Socket(snd') /\ snd'.out = {} /\ phase' \in {"idle", "sending", "afterRto"}
        /\ phase' # "idle" => Running(snd')
        /\ Truthful'
    BY <1>1, <1>3, <1>6, <1>7, HandledFacts
  <1>9. Timer'
    <2>1. snd' = [s EXCEPT !.out = {}] /\ phase' = "idle"
      BY <1>1, <1>3 DEF Handled
    <2>2. /\ SameMarks(snd', s) /\ SamePoint(snd', s) /\ snd'.retxEvent = s.retxEvent
          /\ snd'.cwnd = s.cwnd
      BY <1>6, <2>1, ClearedFacts
    <2>3. /\ SameMarks(snd', snd) /\ SamePoint(snd', snd) /\ snd'.retxEvent = snd.retxEvent
          /\ snd'.cwnd = snd.cwnd
      BY <1>4, <2>2 DEF Same, SameMarks, SamePoint
    <2>4. BytesInFlight(snd') = BytesInFlight(snd) /\ AvailableWindow(snd') = AvailableWindow(snd)
      BY <2>3 DEF BytesInFlight, AvailableWindow, SameMarks
    <2>5. /\ \/ snd.una = snd.nxt
             \/ snd.congState = "LOSS" /\ snd.una < snd.recover /\ snd.una \notin snd.retrans
          /\ snd.una < snd.written
          => Blocked
      BY <1>1, <1>2, StopFacts DEF Blocked
    <2>6. Blocked => Blocked'
      BY <2>4 DEF Blocked
    <2>7. snd.congState = "LOSS" /\ snd.una < snd.recover => snd.una < snd.written
      BY <1>2 DEF Socket, Point, Typed, Board
    <2>8. snd.una < snd.nxt => snd.retxEvent
      <3>1. CASE phase = "sending"
        BY <1>2, <3>1 DEF Timer
      <3>2. CASE phase = "afterRto" /\ ~snd.retxEvent
        <4>1. /\ snd.congState = "LOSS" /\ snd.una < snd.written /\ snd.cwnd = SegSize
              /\ snd.retrans = {} /\ snd.nxt = snd.recover
          BY <1>2, <3>2 DEF Timer
        <4>2. snd.una = snd.nxt \/ snd.una < snd.recover
          BY <1>2, <4>1 DEF Socket, Point, Typed
        <4>3. Blocked
          BY <2>5, <4>1, <4>2
        <4>4. BytesInFlight(snd) = 0 /\ ~(AvailableWindow(snd) >= SegSize) /\ SegSize \in Int
          BY <4>3, SenderAssumption DEF Blocked
        <4> QED  BY <4>1, <4>4, WindowFacts
      <3> QED  BY <1>2, <3>1, <3>2
    <2> QED  BY <2>1, <2>3, <2>5, <2>6, <2>7, <2>8 DEF Timer, SameMarks, SamePoint
  <1>10. Moves
    <2>1. SameMarks(snd', s) /\ SamePoint(snd', s)
      BY <1>1, <1>3, <1>6, ClearedFacts DEF Handled
    <2> QED  BY <1>4, <2>1, QuietMoves DEF Same, SameMarks, SamePoint
  <1> QED  BY <1>8, <1>9, <1>10 DEF Inv

\* What is not the socket's may change under the timer.
LEMMA SocketUnchanged ==
    ASSUME Inv, UNCHANGED <<snd, phase>>, Truthful'
    PROVE  Inv' /\ Moves
  <1>1. snd' = snd /\ phase' = phase
    OBVIOUS
  <1>2. Timer'
    BY <1>1 DEF Inv, Timer, Idle, Blocked
  <1>3. Moves
    BY <1>1, QuietMoves DEF SameMarks, SamePoint
  <1> QED  BY <1>1, <1>2, <1>3 DEF Inv

\* The ACK for a segment: its number is the first segment the peer has not got.
LEMMA AckForFacts ==
    ASSUME NEW held, NEW n \in Int, n <= NumSegs, held \subseteq 0..(n - 1)
    PROVE  LET a == AckFor(held) IN
           /\ a.ack \in 0..NumSegs /\ a.ack \notin held /\ 0..(a.ack - 1) \subseteq held
           /\ a.sack = {i \in held : i > a.ack}
  <1> DEFINE a == AckFor(held)
             S == {i \in 0..NumSegs : i \notin held}
             m == Min(S)
  <1>1. NumSegs \in Nat
    BY SenderAssumption
  <1>2. NumSegs \in S /\ S \subseteq Nat
    BY <1>1
  <1>3. m \in S /\ \A x \in S : m <= x
    BY <1>2, MinFacts
  <1>4. a.ack = m /\ a.sack = {i \in held : i > m}
    BY DEF AckFor
  <1>5. m \in 0..NumSegs /\ m \notin held
    BY <1>3
  <1>6. ASSUME NEW x \in 0..(m - 1) PROVE x \in held
    <2>1. m \in Int /\ x \in Int /\ ~(m <= x) /\ x \in 0..NumSegs
      BY <1>1, <1>5
    <2>2. x \notin S
      BY <1>3, <2>1
    <2> QED  BY <2>1, <2>2
  <1> HIDE DEF a, m
  <1> QED  BY <1>4, <1>5, <1>6 DEF a

LEMMA DeliverStep ==
    ASSUME Inv, NEW i \in Segs, Deliver(i)
    PROVE  Inv' /\ Moves
  <1>0. PICK new : new = AckFor(rcvd')
    OBVIOUS
  <1>1. /\ i \in net /\ net' \subseteq net /\ rcvd' = rcvd \cup {i} /\ snd' = snd /\ phase' = phase
        /\ acks' = acks \/ acks' = acks \cup {new}
    BY <1>0 DEF Deliver
  <1>2. /\ Truthful /\ snd.nxt \in Int /\ snd.nxt <= NumSegs /\ snd.una \in Int /\ 0 <= snd.una
    BY SenderAssumption DEF Inv, Socket, Typed, Board
  <1>3. rcvd' \subseteq 0..(snd.nxt - 1)
    BY <1>1, <1>2 DEF Truthful
  <1>4. /\ new.ack \in 0..NumSegs /\ new.ack \notin rcvd' /\ 0..(new.ack - 1) \subseteq rcvd'
        /\ new.sack = {j \in rcvd' : j > new.ack}
    <2> DEFINE held == rcvd'
    <2>1. held \subseteq 0..(snd.nxt - 1)
      BY <1>3
    <2> HIDE DEF held
    <2>2. /\ AckFor(held).ack \in 0..NumSegs /\ AckFor(held).ack \notin held
          /\ 0..(AckFor(held).ack - 1) \subseteq held
          /\ AckFor(held).sack = {j \in held : j > AckFor(held).ack}
      BY <1>2, <2>1, AckForFacts
    <2>3. new = AckFor(held)
      BY <1>0 DEF held
    <2>4. /\ new.ack \in 0..NumSegs /\ new.ack \notin held /\ 0..(new.ack - 1) \subseteq held
          /\ new.sack = {j \in held : j > new.ack}
      BY <2>2, <2>3, Zenon
    <2> QED  BY <2>4 DEF held
  <1>5. rcvd \subseteq rcvd'
    BY <1>1
  <1>6. ASSUME NEW a \in acks PROVE a.ack \notin new.sack
    <2>1. a.ack \in 0..NumSegs /\ 0..(a.ack - 1) \subseteq rcvd
      BY <1>2 DEF Truthful, AckOK
    <2>2. ~(new.ack < a.ack)
      <3> SUFFICES ASSUME new.ack < a.ack PROVE FALSE
        OBVIOUS
      <3>1. new.ack \in 0..(a.ack - 1)
        BY <1>4, <2>1
      <3> QED  BY <1>4, <1>5, <2>1, <3>1
    <2> QED  BY <1>4, <2>1, <2>2
  <1>7. ASSUME NEW a \in acks PROVE new.ack \notin a.sack
    BY <1>2, <1>4, <1>5 DEF Truthful, AckOK
  <1>8. ASSUME NEW a \in acks PROVE AckOK(a)'
    <2>1. AckOK(a)
      BY <1>2 DEF Truthful
    <2>2. \A b \in acks' : a.ack \notin b.sack
      BY <1>1, <1>6, <2>1 DEF AckOK
    <2> QED  BY <1>1, <1>5, <2>1, <2>2 DEF AckOK
  <1>9. AckOK(new)'
    <2>1. new.ack \notin snd.sacked
      BY <1>2, <1>4, <1>5 DEF Truthful
    <2>2. snd.una \notin new.sack
      <3> SUFFICES ASSUME snd.una > new.ack PROVE FALSE
        BY <1>4
      <3>1. new.ack \in 0..(snd.una - 1)
        BY <1>2, <1>4
      <3> QED  BY <1>2, <1>4, <1>5, <3>1 DEF Truthful
    <2>3. new.ack \notin new.sack
      BY <1>4
    <2>4. \A b \in acks' : new.ack \notin b.sack
      BY <1>1, <1>7, <2>3
    <2>5. new.sack \subseteq rcvd' /\ \A j \in new.sack : j > new.ack
      BY <1>4
    <2> QED  BY <1>1, <1>4, <2>1, <2>2, <2>4, <2>5 DEF AckOK
  <1>10. \A a \in acks' : AckOK(a)'
    BY <1>1, <1>8, <1>9
  <1>11. Truthful'
    <2>1. net' \subseteq 0..(snd'.nxt - 1) /\ rcvd' \subseteq 0..(snd'.nxt - 1)
      BY <1>1, <1>2, <1>3 DEF Truthful
    <2>2. 0..(snd'.una - 1) \subseteq rcvd' /\ snd'.sacked \subseteq rcvd'
      BY <1>1, <1>2, <1>5 DEF Truthful
    <2> QED  BY <1>10, <2>1, <2>2 DEF Truthful
  <1> QED  BY <1>1, <1>11, SocketUnchanged

LEMMA LoseStep ==
    ASSUME Inv, Lose
    PROVE  Inv' /\ Moves
  <1>1. /\ snd' = snd /\ phase' = phase /\ rcvd' = rcvd /\ net' \subseteq net /\ acks' \subseteq acks
    BY DEF Lose
  <1>2. Truthful'
    BY <1>1 DEF Inv, Truthful, AckOK
  <1> QED  BY <1>1, <1>2, SocketUnchanged

LEMMA ReceivedAckStep ==
    ASSUME Inv, NEW a \in acks, NEW ece \in Ece, NEW c \in BOOLEAN, ReceivedAck(a, ece, c)
    PROVE  Inv' /\ Moves
  <1>1. /\ phase = "idle" /\ Running(snd) /\ acks' = acks \ {a} /\ rcvd' = rcvd
    BY DEF ReceivedAck
  <1>2. /\ Socket(snd) /\ snd.out = {} /\ Truthful /\ Timer /\ snd.una \in Int /\ snd.nxt \in Int
        /\ 0 <= snd.una
    BY DEF Inv, Socket, Typed, Board
  <1>3. CASE a.ack < snd.una
    <2>1. UNCHANGED <<snd, net, phase>>
      BY <1>3 DEF ReceivedAck
    <2>2. Truthful'
      BY <1>1, <1>2, <2>1 DEF Truthful, AckOK
    <2> QED  BY <2>1, <2>2, SocketUnchanged
  <1>4. CASE ~(a.ack < snd.una)
    <2>1. /\ a.ack \in 0..NumSegs /\ 0..(a.ack - 1) \subseteq rcvd /\ a.sack \subseteq rcvd
          /\ \A i \in a.sack : i > a.ack
          /\ a.ack \notin snd.sacked /\ snd.una \notin a.sack
          /\ rcvd \subseteq 0..(snd.nxt - 1) /\ snd.sacked \subseteq rcvd
      BY <1>2 DEF Truthful, AckOK
    <2>2. a.ack \in Int /\ snd.una <= a.ack /\ a.ack <= snd.nxt
      <3>1. a.ack \in Int /\ snd.una <= a.ack /\ 0 <= a.ack
        BY <1>2, <1>4, <2>1
      <3>2. snd.una <= snd.nxt
        BY <1>2 DEF Socket, Board
      <3>3. CASE a.ack = 0
        BY <1>2, <3>1, <3>2, <3>3
      <3>4. CASE a.ack > 0
        <4>1. a.ack - 1 \in 0..(a.ack - 1)
          BY <3>1, <3>4
        <4>2. a.ack - 1 \in 0..(snd.nxt - 1)
          BY <2>1, <4>1
        <4> QED  BY <1>2, <3>1, <4>2
      <3> QED  BY <3>1, <3>3, <3>4
    <2>3. ece \in BOOLEAN /\ snd.alive
      <3>1. ece \in BOOLEAN
        BY Zenon DEF Ece
      <3>2. snd.alive
        BY <1>1 DEF Running
      <3> QED  BY <3>1, <3>2
    <2>4. PICK q : Handled(q, "sending") /\ Answers(q, snd, a.ack, a.sack)
      <3> DEFINE updated == Update(snd, a.sack)
                 newly == NewlySacked(snd, a.sack)
                 acked == snd.una..(a.ack - 1)
                 delivered == SizeOf(newly \cup (acked \ snd.sacked))
                 retransAcked == /\ snd.congState = "RECOVERY" /\ a.ack < snd.recover
                                 /\ acked \cap (updated.retrans \ updated.sacked) # {}
                 kept == DiscardUpTo(updated, a.ack)
                 leftCwr == IF kept.congState = "CWR" /\ a.ack > kept.recover
                            THEN RecoveryOpsExit([kept EXCEPT !.congState = "OPEN",
                                                              !.cwnd = kept.ssThresh])
                            ELSE kept
                 echoed == IF acked # {} /\ ece /\ leftCwr.congState # "CWR"
                           THEN EnterCwr(leftCwr, delivered, retransAcked)
                           ELSE leftCwr
                 flown == [echoed EXCEPT !.bytesInFlight = BytesInFlight(echoed)]
                 q == ProcessAck(flown, Cardinality(acked), newly # {}, delivered,
                                 retransAcked, c)
      <3>1. Handled(q, "sending")
        BY <1>4, Zenon DEF ReceivedAck
      <3>2. Answers(q, snd, a.ack, a.sack)
        <4> HIDE DEF retransAcked, delivered
        <4> QED  BY <1>2, <2>1, <2>2, <2>3, AnswersFacts, ZenonT(40)
      <3> HIDE DEF q
      <3> QED  BY <3>1, <3>2
    <2>5. /\ Typed(q) /\ Board(q) /\ q.una = a.ack /\ snd.nxt <= q.nxt /\ q.nxt \in Int
          /\ q.sacked \subseteq snd.sacked \cup a.sack
          /\ q.out \subseteq snd.out \cup a.ack..(q.nxt - 1)
      BY <2>4 DEF Answers, Typed
    <2>6. Socket(q)
      <3>1. snd.failed = "none"
        BY <1>1 DEF Running
      <3> QED  BY <2>4, <3>1 DEF Answers, Socket, AssertionsHold, Watched
    <2>7. q.out \subseteq 0..(q.nxt - 1)
      <3>1. a.ack..(q.nxt - 1) \subseteq 0..(q.nxt - 1)
        BY <1>2, <2>2, <2>5
      <3> QED  BY <1>2, <2>5, <3>1
    <2>8. ASSUME NEW b \in acks' PROVE b.ack \notin q.sacked /\ q.una \notin b.sack
      <3>1. b \in acks
        BY <1>1
      <3>2. b.ack \notin snd.sacked /\ b.ack \notin a.sack /\ a.ack \notin b.sack
        BY <1>2, <3>1 DEF Truthful, AckOK
      <3> QED  BY <2>5, <3>2
    <2>9. 0..(q.una - 1) \subseteq rcvd /\ q.sacked \subseteq rcvd /\ acks' \subseteq acks
      BY <1>1, <2>1, <2>5
    <2>10. /\ Socket(snd') /\ snd'.out = {} /\ phase' \in {"idle", "sending", "afterRto"}
           /\ phase' # "idle" => Running(snd')
           /\ Truthful'
      BY <1>1, <2>4, <2>5, <2>6, <2>7, <2>8, <2>9, HandledFacts
    <2>11. Timer'
      <3>1. snd' = [q EXCEPT !.out = {}] /\ phase' = IF Running(q) THEN "sending" ELSE "idle"
        BY <2>4 DEF Handled
      <3>2. /\ SameMarks(snd', q) /\ snd'.retxEvent = q.retxEvent /\ Running(snd') = Running(q)
        BY <2>6, <3>1, ClearedFacts
      <3>3. snd.una < snd.nxt => snd.retxEvent
        BY <1>1, <1>2 DEF Timer
      <3>4. q.una < q.nxt => q.retxEvent
        BY <2>4, <3>3 DEF Answers
      <3> QED  BY <3>1, <3>2, <3>4, TimerRunning DEF SameMarks
    <2>12. Moves
      <3>1. SameMarks(snd', q) /\ SamePoint(snd', q)
        BY <2>4, <2>6, ClearedFacts DEF Handled
      <3>2. /\ snd'.retrans = q.retrans /\ snd'.sacked = q.sacked /\ snd'.una = q.una
            /\ snd'.congState = q.congState /\ snd'.recover = q.recover
        BY <3>1 DEF SameMarks, SamePoint
      <3> QED  BY <2>4, <3>2 DEF Moves, Answers
    <2> QED  BY <2>10, <2>11, <2>12 DEF Inv
  <1> QED  BY <1>3, <1>4

\* What a timeout makes of the socket.
LEMMA TimeoutFacts ==
    ASSUME NEW s, Socket(s)
    PROVE  LET lost == [SetSentListLost(s) EXCEPT !.dupAckCount = 0]
               asked == Assert(lost, lost.ackSeen, "CerlAckSeen")
               loss == [asked EXCEPT
                          !.retxEvent = FALSE, !.retries = @ - 1,
                          !.recover = s.nxt, !.recoverActive = TRUE,
                          !.ssThresh = IF s.congState # "LOSS" \/ lost.una \notin lost.retrans
                                       THEN HalfFlight(BytesInFlight(s)) ELSE @,
                          !.congState = "LOSS", !.cwnd = SegSize, !.cwndInfl = SegSize,
                          !.bytesInFlight = BytesInFlight(lost)]
               q == Assert(loss, BytesInFlight(lost) = 0, "RtoInFlight")
           IN  /\ Socket(q) /\ q.una = s.una /\ q.nxt = s.nxt /\ q.written = s.written
               /\ q.sacked = s.sacked /\ q.out = s.out /\ q.retrans = {}
               /\ q.congState = "LOSS" /\ q.recover = s.nxt /\ q.cwnd = SegSize
               /\ BytesInFlight(q) = 0
  <1> DEFINE m == SetSentListLost(s)
             lost == [m EXCEPT !.dupAckCount = 0]
             asked == Assert(lost, lost.ackSeen, "CerlAckSeen")
             left == asked.retries - 1
             th == IF s.congState # "LOSS" \/ lost.una \notin lost.retrans
                   THEN HalfFlight(BytesInFlight(s)) ELSE asked.ssThresh
             f == BytesInFlight(lost)
             loss == [asked EXCEPT
                        !.retxEvent = FALSE, !.retries = left,
                        !.recover = s.nxt, !.recoverActive = TRUE, !.ssThresh = th,
                        !.congState = "LOSS", !.cwnd = SegSize, !.cwndInfl = SegSize,
                        !.bytesInFlight = f]
             q == Assert(loss, f = 0, "RtoInFlight")
  <1>1. Typed(s) /\ Board(s)
    BY DEF Socket
  <1>2. /\ Ctl(m, s) /\ m.una = s.una /\ m.sacked = s.sacked
        /\ m.lost = Sent(s) \ s.sacked /\ m.retrans = {} /\ Typed(m) /\ Board(m)
    BY <1>1, AllLostFacts
  <1> HIDE DEF m
  <1>3. /\ DOMAIN lost = Fields /\ SameMarks(lost, m) /\ lost.out = m.out
        /\ lost.alive = m.alive /\ lost.build = m.build
        /\ lost.retxEvent = m.retxEvent /\ lost.failed = m.failed
        /\ SamePoint(lost, m) /\ lost.dupAckCount = 0
        /\ lost.isFirstPartialAck = m.isFirstPartialAck
    BY <1>2 DEF SameMarks, SamePoint, Typed, Fields
  <1> HIDE DEF lost
  <1>4. Typed(lost) /\ Board(lost)
    <2>1. Typed(lost)
      BY <1>2, <1>3 DEF Typed, SameMarks, SamePoint
    <2> QED  BY <1>2, <1>3, <2>1, MarksBoard
  <1>5. /\ lost.una = s.una /\ lost.nxt = s.nxt /\ lost.written = s.written
        /\ lost.sacked = s.sacked /\ lost.lost = Sent(s) \ s.sacked /\ lost.retrans = {}
        /\ lost.out = s.out /\ lost.failed = s.failed
    BY <1>2, <1>3 DEF Ctl, SameMarks
  <1>6. f = 0
    <2>1. Sent(lost) = Sent(s)
      BY <1>5 DEF Sent
    <2> QED  BY <1>4, <1>5, <2>1, NoFlight
  <1>7. /\ Typed(asked) /\ SameMarks(asked, lost) /\ asked.out = lost.out
        /\ asked.alive = lost.alive /\ asked.build = lost.build
        /\ asked.failed = lost.failed \/ asked.failed = "CerlAckSeen"
    BY <1>4, AssertFacts
  <1> HIDE DEF asked, left, th, f
  <1>8. /\ DOMAIN loss = Fields /\ SameMarks(loss, asked) /\ loss.out = asked.out
        /\ loss.alive = asked.alive /\ loss.build = asked.build
        /\ loss.retxEvent = FALSE /\ loss.failed = asked.failed
        /\ loss.congState = "LOSS" /\ loss.recover = s.nxt /\ loss.recoverActive = TRUE
        /\ loss.dupAckCount = asked.dupAckCount
        /\ loss.isFirstPartialAck = asked.isFirstPartialAck
        /\ loss.cwnd = SegSize
    BY <1>7 DEF SameMarks, Typed, Fields
  <1>9. q = loss
    BY <1>6 DEF Assert
  <1> HIDE DEF loss, q
  <1>10. /\ loss.una = s.una /\ loss.nxt = s.nxt /\ loss.written = s.written
         /\ loss.sacked = s.sacked /\ loss.lost = Sent(s) \ s.sacked /\ loss.retrans = {}
         /\ loss.out = s.out
         /\ loss.failed = s.failed \/ loss.failed = "CerlAckSeen"
    BY <1>5, <1>7, <1>8 DEF SameMarks
  <1>11. Typed(loss)
    <2>1. s.nxt \in Int
      BY <1>1 DEF Typed
    <2> QED  BY <1>7, <1>8, <2>1 DEF Typed, SameMarks, CongStates
  <1>12. Board(loss)
    <2>1. SameMarks(loss, lost)
      BY <1>7, <1>8 DEF SameMarks
    <2> QED  BY <1>4, <2>1, MarksBoard
  <1>13. Point(loss) /\ LossOK(loss) /\ CountOK(loss) /\ AssertionsHold(loss)
    <2>1. Point(loss)
      <3>1. s.una <= s.nxt /\ s.nxt <= s.nxt
        BY <1>1 DEF Board, Typed
      <3> QED  BY <1>8, <1>10, <3>1 DEF Point
    <2>2. LossOK(loss)
      BY <1>8, <1>10 DEF LossOK, Sent
    <2>3. CountOK(loss) /\ AssertionsHold(loss)
      BY <1>8, <1>10 DEF CountOK, AssertionsHold, Socket
    <2> QED  BY <2>1, <2>2, <2>3
  <1>14. BytesInFlight(loss) = 0
    <2>1. Sent(loss) = Sent(s)
      BY <1>10 DEF Sent
    <2> QED  BY <1>10, <1>11, <1>12, <2>1, NoFlight
  <1>15. Socket(q) /\ BytesInFlight(q) = 0
    BY <1>9, <1>11, <1>12, <1>13, <1>14 DEF Socket
  <1>16. /\ q.una = s.una /\ q.nxt = s.nxt /\ q.written = s.written
         /\ q.sacked = s.sacked /\ q.out = s.out /\ q.retrans = {}
         /\ q.congState = "LOSS" /\ q.recover = s.nxt /\ q.cwnd = SegSize
    BY <1>8, <1>9, <1>10
  <1> QED  BY <1>15, <1>16 DEF q, loss, f, th, left, asked, lost, m

LEMMA ReTxTimeoutStep ==
    ASSUME Inv, ReTxTimeout
    PROVE  Inv' /\ Moves
  <1>1. /\ phase = "idle" /\ Running(snd) /\ snd.retxEvent /\ rcvd' = rcvd /\ acks' = acks
    BY DEF ReTxTimeout
  <1>2. /\ Socket(snd) /\ snd.out = {} /\ Truthful /\ Timer /\ Typed(snd)
    BY DEF Inv, Socket
  <1>3. ASSUME NEW s, NEW next \in {"idle", "afterRto"}, Handled(s, next), Socket(s),
               s.una = snd.una, s.nxt = snd.nxt, s.sacked = snd.sacked, s.out = snd.out
        PROVE  /\ Socket(snd') /\ snd'.out = {} /\ phase' \in {"idle", "sending", "afterRto"}
               /\ phase' # "idle" => Running(snd')
               /\ Truthful'
    <2>1. /\ snd.nxt <= s.nxt /\ s.out \subseteq 0..(s.nxt - 1)
          /\ 0..(s.una - 1) \subseteq rcvd /\ s.sacked \subseteq rcvd
          /\ \A a \in acks' : a.ack \notin s.sacked /\ s.una \notin a.sack
      BY <1>1, <1>2, <1>3 DEF Truthful, AckOK, Typed
    <2> QED  BY <1>1, <1>3, <2>1, HandledFacts
  <1>4. CASE snd.una = snd.written \/ snd.retries = 0
    <2> DEFINE live == snd.una = snd.written
               s == IF live THEN [snd EXCEPT !.retxEvent = FALSE]
                    ELSE [snd EXCEPT !.retxEvent = FALSE, !.alive = FALSE]
    <2>1. Handled(s, "idle")
      BY <1>4, Zenon DEF ReTxTimeout
    <2>2. /\ DOMAIN s = Fields /\ SameMarks(s, snd) /\ s.out = snd.out
          /\ s.alive = (snd.alive /\ live) /\ s.build = snd.build
          /\ s.retxEvent = FALSE /\ s.failed = snd.failed
          /\ SamePoint(s, snd) /\ s.dupAckCount = snd.dupAckCount
          /\ s.isFirstPartialAck = snd.isFirstPartialAck
      <3> HIDE DEF live
      <3>1. CASE live
        BY <1>2, <3>1 DEF SameMarks, SamePoint, Typed, Fields
      <3>2. CASE ~live
        BY <1>2, <3>2 DEF SameMarks, SamePoint, Typed, Fields
      <3> QED  BY <3>1, <3>2
    <2> HIDE DEF s
    <2>3. Typed(s)
      BY <1>2, <2>2 DEF Typed, SameMarks, SamePoint
    <2>4. Socket(s)
      <3>1. Board(s)
        BY <1>2, <2>2, MarksBoard DEF Socket
      <3>2. Point(s) /\ LossOK(s) /\ CountOK(s) /\ AssertionsHold(s)
        BY <1>2, <2>2
           DEF Socket, Point, LossOK, CountOK, AssertionsHold, Running, SameMarks, SamePoint
      <3> QED  BY <2>3, <3>1, <3>2 DEF Socket
    <2>5. /\ Socket(snd') /\ snd'.out = {} /\ phase' \in {"idle", "sending", "afterRto"}
          /\ phase' # "idle" => Running(snd')
          /\ Truthful'
      BY <1>3, <2>1, <2>2, <2>4 DEF SameMarks
    <2>6. /\ SameMarks(snd', s) /\ SamePoint(snd', s) /\ Running(snd') = Running(s) /\ phase' = "idle"
      BY <2>1, <2>4, ClearedFacts DEF Handled
    <2>7. Timer'
      <3>1. CASE live
        <4>1. snd.una = snd.written /\ snd.nxt <= snd.written /\ snd.una <= snd.nxt
              /\ (snd.congState = "LOSS" => snd.recover <= snd.nxt)
          BY <1>2, <3>1 DEF Socket, Board, Point
        <4>2. /\ ~(snd.una < snd.nxt) /\ ~(snd.una < snd.written)
              /\ (snd.congState = "LOSS" => ~(snd.una < snd.recover))
          BY <1>2, <4>1 DEF Typed
        <4>3. /\ snd'.una = snd.una /\ snd'.nxt = snd.nxt /\ snd'.written = snd.written
              /\ snd'.congState = snd.congState /\ snd'.recover = snd.recover
          BY <2>2, <2>6 DEF SameMarks, SamePoint
        <4> QED  BY <2>6, <4>2, <4>3 DEF Timer
      <3>2. CASE ~live
        <4>1. ~Running(snd')
          BY <2>2, <2>6, <3>2 DEF Running
        <4> QED  BY <2>6, <4>1, TimerRunning
      <3> QED  BY <3>1, <3>2
    <2>8. Moves
      BY <2>2, <2>6, QuietMoves DEF SameMarks, SamePoint
    <2> QED  BY <2>5, <2>7, <2>8 DEF Inv
  <1>5. CASE ~(snd.una = snd.written \/ snd.retries = 0)
    <2> DEFINE lost == [SetSentListLost(snd) EXCEPT !.dupAckCount = 0]
               asked == Assert(lost, lost.ackSeen, "CerlAckSeen")
               loss == [asked EXCEPT
                          !.retxEvent = FALSE, !.retries = @ - 1,
                          !.recover = snd.nxt, !.recoverActive = TRUE,
                          !.ssThresh = IF snd.congState # "LOSS" \/ lost.una \notin lost.retrans
                                       THEN HalfFlight(BytesInFlight(snd)) ELSE @,
                          !.congState = "LOSS", !.cwnd = SegSize, !.cwndInfl = SegSize,
                          !.bytesInFlight = BytesInFlight(lost)]
               s == Assert(loss, BytesInFlight(lost) = 0, "RtoInFlight")
    <2>1. Handled(s, "afterRto")
      BY <1>5, Zenon DEF ReTxTimeout
    <2>2. /\ Socket(s) /\ s.una = snd.una /\ s.nxt = snd.nxt /\ s.written = snd.written
          /\ s.sacked = snd.sacked /\ s.out = snd.out /\ s.retrans = {}
          /\ s.congState = "LOSS" /\ s.recover = snd.nxt /\ s.cwnd = SegSize
          /\ BytesInFlight(s) = 0
      BY <1>2, TimeoutFacts
    <2> HIDE DEF s
    <2>3. /\ Socket(snd') /\ snd'.out = {} /\ phase' \in {"idle", "sending", "afterRto"}
          /\ phase' # "idle" => Running(snd')
          /\ Truthful'
      BY <1>3, <2>1, <2>2
    <2>4. snd' = [s EXCEPT !.out = {}] /\ phase' = IF Running(s) THEN "afterRto" ELSE "idle"
      BY <2>1 DEF Handled
    <2>5. /\ SameMarks(snd', s) /\ SamePoint(snd', s) /\ Running(snd') = Running(s)
          /\ snd'.cwnd = s.cwnd /\ BytesInFlight(snd') = BytesInFlight(s)
      BY <2>2, <2>4, ClearedFacts
    <2>6. Timer'
      <3>1. CASE Running(s)
        <4>1. phase' = "afterRto"
          BY <2>4, <3>1
        <4>2. /\ snd'.congState = "LOSS" /\ snd'.una < snd'.written /\ snd'.cwnd = SegSize
              /\ snd'.retrans = {} /\ snd'.nxt = snd'.recover
          <5>1. snd.una < snd.written
            BY <1>2, <1>5 DEF Socket, Board, Typed
          <5> QED  BY <2>2, <2>5, <5>1 DEF SameMarks, SamePoint
        <4>3. BytesInFlight(snd') <= SegSize
          BY <2>2, <2>5, SenderAssumption
        <4> QED  BY <4>1, <4>2, <4>3 DEF Timer, Idle
      <3>2. CASE ~Running(s)
        BY <2>4, <2>5, <3>2, TimerRunning
      <3> QED  BY <3>1, <3>2
    <2>7. Moves
      <3>1. /\ snd'.una = snd.una /\ snd'.retrans = {} /\ snd'.congState = "LOSS"
            /\ snd'.recover = snd.nxt
        BY <2>2, <2>5 DEF SameMarks, SamePoint
      <3>2. snd.una < snd.nxt \/ snd.una = snd.nxt
        BY <1>2 DEF Socket, Board, Typed
      <3>3. Idle /\ snd.una < snd.written
        BY <1>1, <1>2, <1>5 DEF Idle, Socket, Board, Typed
      <3> QED  BY <3>1, <3>2, <3>3 DEF Moves
    <2> QED  BY <2>3, <2>6, <2>7 DEF Inv
  <1> QED  BY <1>4, <1>5

----------------------------------------------------------------------------
(* The specification.                                                      *)

LEMMA InitInv == Init => Inv
  <1> SUFFICES ASSUME Init PROVE Inv
    OBVIOUS
  <1>1. /\ net = {} /\ rcvd = {} /\ acks = {} /\ phase = "sending"
    BY DEF Init
  <1>2. /\ DOMAIN snd = Fields /\ snd.una = 0 /\ snd.nxt = 0 /\ snd.written = FirstWrite
        /\ snd.sacked = {} /\ snd.lost = {} /\ snd.retrans = {} /\ snd.highSack = None
        /\ snd.congState = "OPEN" /\ snd.recover = 0 /\ snd.recoverActive = FALSE
        /\ snd.dupAckCount = 0 /\ snd.isFirstPartialAck = TRUE /\ snd.retxEvent = FALSE
        /\ snd.out = {} /\ snd.alive = TRUE /\ snd.failed = "none"
    <2>1. PICK r \in Recoveries, b \in Builds :
             snd = [una |-> 0, nxt |-> 0, written |-> FirstWrite,
                sacked |-> {}, lost |-> {}, retrans |-> {}, highSack |-> None,
                cwnd |-> InitialCwnd * SegSize, cwndInfl |-> InitialCwnd * SegSize,
                ssThresh |-> InitialSsThresh, congState |-> "OPEN",
                recover |-> 0, recoverActive |-> FALSE, dupAckCount |-> 0,
                isFirstPartialAck |-> TRUE, bytesInFlight |-> 0,
                retxEvent |-> FALSE, retries |-> DataRetries, ackSeen |-> FALSE,
                oldCwnd |-> None, maxSentSeq |-> 0,
                recovery |-> r, prrDelivered |-> 0, prrOut |-> 0, recoveryFlight |-> 0,
                out |-> {}, alive |-> TRUE, build |-> b, failed |-> "none"]
      BY DEF Init
    <2> QED  BY <2>1 DEF Fields
  <1>3. NumSegs \in Nat /\ FirstWrite \in 0..NumSegs
    BY SenderAssumption
  <1>4. Typed(snd)
    <2>1. /\ snd.una \in Int /\ snd.nxt \in Int /\ snd.written \in Int /\ snd.highSack \in Int
          /\ snd.recover \in Int /\ snd.dupAckCount \in Int
      BY <1>2, <1>3 DEF None
    <2>2. /\ snd.recoverActive \in BOOLEAN /\ snd.isFirstPartialAck \in BOOLEAN
          /\ snd.retxEvent \in BOOLEAN /\ snd.alive \in BOOLEAN
      BY <1>2, Zenon
    <2> QED  BY <1>2, <2>1, <2>2 DEF Typed, CongStates
  <1>5. Board(snd)
    BY <1>2, <1>3 DEF Board, Sent, HighOK, LostBelow
  <1>6. Socket(snd)
    BY <1>2, <1>4, <1>5 DEF Socket, Point, LossOK, CountOK, AssertionsHold
  <1>7. Truthful
    BY <1>1, <1>2 DEF Truthful
  <1>8. Timer
    BY <1>1, <1>2 DEF Timer, Idle
  <1> QED  BY <1>1, <1>2, <1>6, <1>7, <1>8 DEF Inv, Running

LEMMA NextFacts == Inv /\ [Next]_vars => Inv' /\ Moves
  <1> SUFFICES ASSUME Inv, [Next]_vars PROVE Inv' /\ Moves
    OBVIOUS
  <1>1. CASE Send
    BY <1>1, SendStep
  <1>2. CASE SendSegment
    BY <1>2, SendSegmentStep
  <1>3. CASE StopSending
    BY <1>3, StopSendingStep
  <1>4. CASE ReTxTimeout
    BY <1>4, ReTxTimeoutStep
  <1>5. CASE Lose
    BY <1>5, LoseStep
  <1>6. ASSUME NEW i \in Segs, Deliver(i) PROVE Inv' /\ Moves
    BY <1>6, DeliverStep
  <1>7. ASSUME NEW a \in acks, NEW ece \in Ece, NEW c \in BOOLEAN, ReceivedAck(a, ece, c)
        PROVE  Inv' /\ Moves
    BY <1>7, ReceivedAckStep
  <1>8. CASE UNCHANGED vars
    <2>1. UNCHANGED <<snd, net, rcvd, acks, phase>>
      BY <1>8 DEF vars
    <2>2. Truthful'
      BY <2>1 DEF Inv, Truthful, AckOK
    <2> QED  BY <2>1, <2>2, SocketUnchanged
  <1> QED  BY <1>1, <1>2, <1>3, <1>4, <1>5, <1>6, <1>7, <1>8 DEF Next

\* The inductive invariant holds in every reachable state: the scoreboard, the
\* congestion state, the ACKs under way and the timer agree.
THEOREM Invariance == Spec => []Inv
  <1>1. Init => Inv
    BY InitInv
  <1>2. Inv /\ [Next]_vars => Inv'
    BY NextFacts
  <1> QED  BY <1>1, <1>2, PTL DEF Spec

\* Update and DiscardUpTo never take for delivered what the peer has not got,
\* whatever order ACKs arrive in.
THEOREM Reported == Spec => []ScoreboardTruthful
  <1>1. Inv => ScoreboardTruthful
    BY DEF Inv, Truthful, ScoreboardTruthful
  <1> QED  BY <1>1, Invariance, PTL

\* The marks that Update, DiscardUpTo, MarkHeadAsLost, SetSentListLost and
\* CopyFromSequence leave in the sent list agree with each other.
THEOREM MarksAgree == Spec => []ScoreboardConsistent
  <1>1. Inv => ScoreboardConsistent
    BY DEF Inv, Socket, Board, HighOK, ScoreboardConsistent
  <1> QED  BY <1>1, Invariance, PTL

\* The assertions of ReTxTimeout and of DupAck in CA_DISORDER never fail.
THEOREM NoAssertionFails == Spec => []SocketAssertions
  <1>1. Inv => SocketAssertions
    BY DEF Inv, Socket, AssertionsHold, SocketAssertions
  <1> QED  BY <1>1, Invariance, PTL

\* NextSeg and DoRetransmit never choose a segment the peer has reported.
THEOREM SackedStay == Spec => NeverResendSacked
  <1>1. Inv /\ [Next]_vars =>
          [\A i \in snd'.retrans \ snd.retrans : i \notin snd.sacked \cup snd'.sacked]_vars
    BY NextFacts DEF Moves
  <1> QED  BY <1>1, Invariance, PTL DEF Spec, NeverResendSacked

----------------------------------------------------------------------------
(***************************************************************************)
(* What depends on the window between events.                              *)
(***************************************************************************)

\* A blocked sender has lost its window.
LEMMA BlockedStrands == TypeOK /\ Blocked => snd.cwnd < SegSize
  <1> SUFFICES ASSUME TypeOK, Blocked, ~(snd.cwnd < SegSize) PROVE FALSE
    OBVIOUS
  <1>1. snd.cwnd \in Int /\ SegSize \in Int
    BY SenderAssumption DEF TypeOK
  <1>2. /\ snd.cwnd >= SegSize /\ BytesInFlight(snd) = 0
        /\ ~(AvailableWindow(snd) >= SegSize)
    BY <1>1 DEF Blocked
  <1> QED  BY <1>1, <1>2, WindowFacts

\* NewAck, DupAck, ReTxTimeout and the sending loop leave m_retxEvent running
\* between events while data is not acknowledged, whatever the windows become:
\* without it nothing is in flight and the window is below a segment.
THEOREM TimerKept == Spec /\ []TypeOK => []TimerRuns
  <1>1. Inv /\ TypeOK => TimerRuns
    <2> SUFFICES ASSUME Inv, TypeOK, Idle, snd.una < snd.written, ~snd.retxEvent
                 PROVE  Stranded
      BY DEF TimerRuns
    <2>1. Timer /\ Typed(snd) /\ Board(snd)
      BY DEF Inv, Socket
    <2>2. ~(snd.una < snd.nxt)
      BY <2>1 DEF Timer, Idle
    <2>3. snd.una = snd.nxt
      BY <2>1, <2>2 DEF Typed, Board
    <2>4. Blocked
      BY <2>1, <2>3 DEF Timer
    <2> QED  BY <2>3, <2>4, BlockedStrands DEF Stranded
  <1> QED  BY <1>1, Invariance, PTL

\* The window holds a segment between events.  With TcpClassicRecovery this is
\* so as soon as the threshold has been reduced (TcpSenderWindow_proofs).
WindowHolds == Idle => snd.cwnd >= SegSize

LEMMA NotBlocked == TypeOK /\ WindowHolds /\ Idle => ~Blocked
  <1>1. TypeOK => snd.cwnd \in Int /\ SegSize \in Int
    BY SenderAssumption DEF TypeOK
  <1> QED  BY <1>1, BlockedStrands DEF WindowHolds

\* After a timeout something sent is not acknowledged.
Outstanding == snd.congState = "LOSS" => snd.una < snd.recover

LEMMA OutstandingKept == Spec /\ []TypeOK /\ []WindowHolds => []Outstanding
  <1>1. Init => Outstanding
    <2> SUFFICES ASSUME Init PROVE snd.congState = "OPEN"
      BY DEF Outstanding
    <2> QED  BY DEF Init
  <1>2. Inv /\ TypeOK /\ WindowHolds /\ Outstanding /\ [Next]_vars => Outstanding'
    <2> SUFFICES ASSUME Inv, TypeOK, WindowHolds, Outstanding, [Next]_vars
                 PROVE  Outstanding'
      OBVIOUS
    <2>1. Moves
      BY NextFacts
    <2>2. ~(Idle /\ snd.una = snd.nxt /\ snd.una < snd.written)
      BY NotBlocked DEF Inv, Timer
    <2> QED  BY <2>1, <2>2 DEF Moves, Outstanding
  <1> QED  BY <1>1, <1>2, Invariance, PTL DEF Spec

\* The recovery point is active and not yet acknowledged exactly in fast
\* recovery and after a timeout, so DupAck enters recovery when it should, as long as
\* the window holds a segment: below that, ReTxTimeout can find nothing sent.
THEOREM PointKept == Spec /\ []TypeOK /\ []WindowHolds => []RecoveryPoint
  <1>1. Inv /\ Outstanding => RecoveryPoint
    BY DEF Inv, Socket, Point, Outstanding, RecoveryPoint
  <1> QED  BY <1>1, Invariance, OutstandingKept, PTL

\* EnterRecovery and every timeout send the head of the sent list again, as
\* long as the window holds a segment.
THEOREM HeadFirst == Spec /\ []TypeOK /\ []WindowHolds => HeadResent
  <1>1. Inv /\ Outstanding /\ TypeOK /\ WindowHolds =>
          (Idle /\ snd.congState = "LOSS" => snd.una \in snd.retrans)
    BY NotBlocked DEF Inv, Timer, Outstanding
  <1> DEFINE Sends == Idle /\ snd.congState = "LOSS" => snd.una \in snd.retrans
  <1>2. Spec /\ []TypeOK /\ []WindowHolds => []Sends
    BY <1>1, Invariance, OutstandingKept, PTL
  <1>3. Inv /\ Sends' /\ [Next]_vars =>
          [/\ snd.congState # "RECOVERY" /\ snd'.congState = "RECOVERY" =>
                snd'.una \in snd'.retrans
           /\ Idle' /\ snd'.congState = "LOSS" => snd'.una \in snd'.retrans]_vars
    BY NextFacts DEF Moves
  <1> HIDE DEF Sends
  <1> QED  BY <1>2, <1>3, Invariance, PTL DEF Spec, HeadResent
=============================================================================
