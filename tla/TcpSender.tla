------------------------------ MODULE TcpSender ------------------------------
(***************************************************************************)
(* The sending half of TcpSocketBase in ESTABLISHED with SACK: the         *)
(* scoreboard, duplicate ACKs, fast recovery, ECN window reductions, the   *)
(* retransmission timer, with the congestion control TcpCerl and the       *)
(* recovery algorithms TcpClassicRecovery and TcpPrrRecovery, over a       *)
(* network that loses, duplicates and reorders segments and ACKs.          *)
(*                                                                         *)
(* The application writes whole segments, so an item of the sent list is   *)
(* one segment and is named by its number; windows are in bytes.           *)
(***************************************************************************)
EXTENDS Integers, FiniteSets, FiniteSetsExt

CONSTANTS
    NumSegs,         \* bound: segments the application writes
    FirstWrite,      \* segments it writes before the first step
    SegSize,         \* m_segmentSize
    InitialCwnd,     \* GetInitialCwnd, in segments
    InitialSsThresh, \* GetInitialSSThresh, in bytes
    RWnd,            \* the window the peer offers, in bytes (none: TcpFlowControl)
    RetxThresh,      \* m_retxThresh
    DataRetries,     \* m_dataRetries
    UseEcn,          \* the peer may echo CE marks
    Recoveries,      \* recovery algorithms a socket may be given
    ReductionBound,  \* m_reductionBoundMode of PRR: "CRB" or "SSRB"
    Word,            \* 2^width of the unsigned integers: 2^32 in the code
    Builds,          \* "debug" compiles NS_ASSERT in, "optimized" does not
    MaxAcks          \* bound: ACKs in the network

ASSUME SenderAssumption ==
    /\ NumSegs \in Nat /\ FirstWrite \in 0..NumSegs
    /\ SegSize \in Nat \ {0, 1} /\ InitialCwnd \in Nat \ {0}
    /\ InitialSsThresh \in Nat /\ RWnd \in Nat \ {0} /\ RWnd % SegSize = 0
    /\ RetxThresh \in Nat \ {0} /\ DataRetries \in Nat /\ UseEcn \in BOOLEAN
    /\ Recoveries \subseteq {"Classic", "PRR"} /\ ReductionBound \in {"CRB", "SSRB"}
    /\ Word \in Nat \ {0} /\ Builds \subseteq {"debug", "optimized"} /\ MaxAcks \in Nat \ {0}

VARIABLES
    snd,      \* the socket: scoreboard, windows, timer, and what stopped it
    net,      \* segments in the network
    rcvd,     \* segments the peer has received
    acks,     \* ACKs in the network
    phase     \* "idle", or inside SendPendingData: "sending", "afterRto"

vars == <<snd, net, rcvd, acks, phase>>

Segs == 0..(NumSegs - 1)
None == -1

CongStates == {"OPEN", "DISORDER", "CWR", "RECOVERY", "LOSS"}

----------------------------------------------------------------------------
(***************************************************************************)
(* TcpTxBuffer.  una is m_firstByteSeq, nxt the first segment that was     *)
(* never sent; sacked, lost and retrans are the marks of the items.        *)
(***************************************************************************)

Sent(s) == s.una..(s.nxt - 1)

SizeOf(set) == SegSize * Cardinality(set)

BytesInFlight(s) == SegSize * (s.nxt - s.una) - SizeOf(s.sacked) - SizeOf(s.lost) + SizeOf(s.retrans)

\* The highest SACK moves to every segment newly reported whose end is not
\* below it, in the order of the list: in the end to the last one, or not at all.
HighestSack(s, new) ==
    IF s.highSack = None \/ s.highSack <= Max(new) + 1 THEN Max(new) ELSE s.highSack

\* UpdateLostCount: segments with RetxThresh reported ones between them and the
\* highest SACK are lost.  The head is decided by the count over the whole list.
LostCount(s) ==
    LET above(i) == Cardinality({j \in s.sacked : i <= j /\ j <= s.highSack})
        marked   == {i \in Sent(s) : /\ i # s.una /\ i <= s.highSack /\ i \notin s.sacked
                                     /\ above(i) >= RetxThresh}
        head     == {i \in {s.una} : Cardinality({j \in s.sacked : j # i /\ j <= s.highSack})
                                        >= RetxThresh}
    IN  [s EXCEPT !.lost = @ \cup marked \cup head]

\* Update: what a SACK list newly reports.
NewlySacked(s, list) == (list \cap Sent(s)) \ s.sacked

\* Mutant: a segment reported after it was held lost stays lost.
UpdateLostKept(s, list) ==
    LET new == NewlySacked(s, list)
    IN  IF new = {} THEN s
        ELSE LostCount([s EXCEPT !.sacked = @ \cup new, !.highSack = HighestSack(s, new)])

\* Mutant: the blocks of the list are taken for one.
UpdateSpan(s, list) ==
    LET new == NewlySacked(s, IF list = {} THEN {} ELSE Min(list)..Max(list))
    IN  IF new = {} THEN s
        ELSE LostCount([s EXCEPT !.sacked = @ \cup new, !.lost = @ \ new,
                                 !.highSack = HighestSack(s, new)])

Update(s, list) ==
    LET new     == NewlySacked(s, list)
        updated == [s EXCEPT !.sacked = @ \cup new, !.lost = @ \ new,
                             !.highSack = HighestSack(s, new)]
    IN  IF new = {} THEN s ELSE LostCount(updated)

DiscardUpTo(s, ack) ==
    LET kept == ack..(s.nxt - 1)
    IN  [s EXCEPT !.una = ack,
                  !.sacked = @ \cap kept, !.lost = @ \cap kept, !.retrans = @ \cap kept,
                  !.highSack = IF @ <= ack THEN None ELSE @]

\* IsLost: the first marked item from i on is lost, below the highest SACK.
IsLost(s, i) ==
    /\ i < s.highSack
    /\ \E j \in s.lost : j >= i /\ \A k \in s.sacked : k >= i => k > j

MarkHeadAsLost(s) ==
    IF s.una = s.nxt THEN s
    ELSE [s EXCEPT !.sacked = @ \ {s.una}, !.retrans = @ \ {s.una}, !.lost = @ \cup {s.una}]

\* Mutant: retransmitted segments still count as in flight after a timeout.
SetSentListLostRetransKept(s) ==
    [s EXCEPT !.lost = Sent(s) \ s.sacked]

SetSentListLost(s) ==
    [s EXCEPT !.retrans = {}, !.lost = Sent(s) \ s.sacked]

\* Mutant: rule 3 takes SACKed segments too.
NextSegSackedToo(s, isRecovery) ==
    LET rule1 == s.lost \ s.retrans
        rule3 == Sent(s) \ s.retrans
    IN  IF rule1 # {} THEN Min(rule1)
        ELSE IF s.nxt < s.written
        THEN IF SegSize * (s.nxt - s.una) <= RWnd THEN s.nxt ELSE None
        ELSE IF isRecovery /\ rule3 # {} THEN Min(rule3)
        ELSE None

\* Mutant: the search for a lost segment does not stop at the first.
NextSegLastLost(s, isRecovery) ==
    LET rule1 == s.lost \ (s.retrans \cup s.sacked)
    IN  IF rule1 # {} THEN Max(rule1)
        ELSE IF s.nxt < s.written /\ SegSize * (s.nxt - s.una) <= RWnd THEN s.nxt
        ELSE None

\* NextSeg, in the order of its rules: a lost segment, new data, and in
\* recovery any segment not reported; None if there is none.
NextSeg(s, isRecovery) ==
    LET rule1 == s.lost \ (s.retrans \cup s.sacked)
        rule3 == Sent(s) \ (s.retrans \cup s.sacked)
    IN  IF rule1 # {} THEN Min(rule1)
        ELSE IF s.nxt < s.written
        THEN IF SegSize * (s.nxt - s.una) <= RWnd THEN s.nxt ELSE None
        ELSE IF isRecovery /\ rule3 # {} THEN Min(rule3)
        ELSE None

\* What NextSeg allows of new data is cut to the window of the peer.
SizeAllowed(s, i) ==
    IF i < s.nxt THEN SegSize ELSE Min({SegSize, RWnd - SegSize * (s.nxt - s.una)})

\* NS_ASSERT: the first condition that fails stops a debug build.
Assert(s, condition, name) ==
    IF condition \/ s.build # "debug" \/ s.failed # "none" THEN s ELSE [s EXCEPT !.failed = name]

----------------------------------------------------------------------------
(***************************************************************************)
(* TcpCerl.  Which losses its round-trip times attribute to congestion is  *)
(* left open: isCongestion.                                                *)
(***************************************************************************)

\* The value a 32-bit pattern has as a signed integer.
Signed(w) == IF 2 * w >= Word THEN w - Word ELSE w

\* Mutant: no lower bound of two segments.
HalfFlightBare(flight) == flight \div 2

HalfFlight(flight) == Max({2 * SegSize, flight \div 2})

\* GetSsThresh and EnterRecovery on entering fast recovery: the window shrinks
\* for a congestion loss in a new window; otherwise it is remembered.
CerlEnterRecovery(s, isCongestion) ==
    IF s.una > s.maxSentSeq /\ isCongestion
    THEN [s EXCEPT !.ssThresh = HalfFlight(s.bytesInFlight), !.maxSentSeq = s.nxt,
                   !.cwnd = HalfFlight(s.bytesInFlight)]
    ELSE [s EXCEPT !.oldCwnd = Signed(s.cwnd)]

CerlExitRecovery(s) ==
    IF s.oldCwnd >= 0 THEN [s EXCEPT !.cwnd = s.oldCwnd, !.oldCwnd = None]
    ELSE [s EXCEPT !.cwnd = s.ssThresh]

SlowStart(s) == [s EXCEPT !.cwnd = (@ + SegSize) % Word]

CongestionAvoidance(s) ==
    [s EXCEPT !.cwnd = (@ + Max({1, (SegSize * SegSize) \div @})) % Word]

IncreaseWindow(s, segsAcked) ==
    LET slow  == s.cwnd < s.ssThresh /\ segsAcked >= 1
        s1    == IF slow THEN SlowStart(s) ELSE s
        left  == IF s.cwnd < s.ssThresh THEN Max({0, segsAcked - 1}) ELSE segsAcked
    IN  IF s1.cwnd >= s1.ssThresh /\ left > 0 THEN CongestionAvoidance(s1) ELSE s1

----------------------------------------------------------------------------
(***************************************************************************)
(* TcpClassicRecovery and TcpPrrRecovery.                                  *)
(***************************************************************************)

CeilDiv(a, b) == (a + b - 1) \div b

\* PRR, with the wrap-arounds and conversions of its unsigned arithmetic.
PrrDoRecovery(s, delivered, retransAcked) ==
    LET total == (s.prrDelivered + delivered) % Word
        room  == Signed((s.ssThresh - s.bytesInFlight) % Word)
        limit == IF ReductionBound = "CRB" THEN Signed((total - s.prrOut) % Word)
                 ELSE IF retransAcked
                 THEN Signed((Max({(total - s.prrOut) % Word, delivered}) + SegSize) % Word)
                 ELSE delivered
        count == IF s.bytesInFlight > s.ssThresh
                 THEN CeilDiv((total * s.ssThresh) % Word, s.recoveryFlight) - s.prrOut
                 ELSE Min({limit, room})
        send  == Max({count, IF s.prrOut > 0 THEN 0 ELSE SegSize})
        cwnd  == (s.bytesInFlight + send) % Word
    IN  [s EXCEPT !.prrDelivered = total, !.cwnd = cwnd, !.cwndInfl = cwnd]

DoRecovery(s, delivered, retransAcked) ==
    IF s.recovery = "PRR" THEN PrrDoRecovery(s, delivered, retransAcked)
    ELSE [s EXCEPT !.cwnd = (s.cwndInfl + SegSize) % Word,
                   !.cwndInfl = (s.cwndInfl + SegSize) % Word]

RecoveryOpsEnter(s, delivered, retransAcked) ==
    IF s.recovery = "PRR"
    THEN PrrDoRecovery([s EXCEPT !.prrOut = 0, !.prrDelivered = 0,
                                 !.recoveryFlight = SegSize * (s.nxt - s.una)],
                       delivered, retransAcked)
    ELSE LET infl == (s.cwnd + s.dupAckCount * SegSize) % Word
         IN  [s EXCEPT !.cwnd = infl, !.cwndInfl = infl]

RecoveryOpsExit(s) ==
    IF s.recovery = "PRR" THEN [s EXCEPT !.cwndInfl = s.cwnd]
    ELSE [s EXCEPT !.cwnd = s.ssThresh, !.cwndInfl = s.ssThresh]

----------------------------------------------------------------------------
(***************************************************************************)
(* TcpSocketBase: transmission.                                            *)
(***************************************************************************)

\* A segment is handed to the network.  One of no bytes has no item: the code
\* goes through a null pointer.
SendDataPacket(s, i) ==
    IF SizeAllowed(s, i) = 0
    THEN [s EXCEPT !.failed = IF @ = "none" THEN "EmptySegment" ELSE @]
    ELSE [s EXCEPT !.bytesInFlight = BytesInFlight(s),
                   !.nxt = Max({@, i + 1}),
                   !.retrans = IF i < s.nxt THEN @ \cup {i} ELSE @,
                   !.retxEvent = TRUE,
                   !.prrOut = IF s.congState \in {"RECOVERY", "CWR"} THEN (@ + SegSize) % Word
                              ELSE @,
                   !.out = @ \cup {i}]

DoRetransmit(s) ==
    LET i == NextSeg(s, FALSE)
    IN  SendDataPacket(s, IF i = None THEN s.una ELSE i)

AvailableWindow(s) == Max({0, Min({RWnd, s.cwnd}) - BytesInFlight(s)})

\* The loop of SendPendingData goes round again.
CanSend(s) ==
    /\ s.una < s.written
    /\ AvailableWindow(s) >= SegSize
    /\ NextSeg(s, s.congState = "RECOVERY") # None

\* Mutant: the timer is cancelled and not scheduled again.
NewAckCancel(s, resetRto) ==
    [s EXCEPT !.retries = DataRetries,
              !.retxEvent = @ /\ ~resetRto /\ s.una # s.written]

NewAck(s, resetRto) ==
    [s EXCEPT !.retries = DataRetries,
              !.retxEvent = IF s.una = s.written THEN FALSE ELSE @ \/ resetRto]

----------------------------------------------------------------------------
(***************************************************************************)
(* TcpSocketBase: congestion states.                                       *)
(***************************************************************************)

\* Mutant: recovery lasts until more than the recovery point is acknowledged.
RecoveryCoveredBeyond(s) == s.una > s.recover

\* The recovery point is acknowledged.
RecoveryCovered(s) == s.una >= s.recover

EnterCwr(s, delivered, retransAcked) ==
    LET flight == BytesInFlight(s)
        asked  == Assert(s, s.ackSeen, "CerlAckSeen")
    IN  RecoveryOpsEnter([asked EXCEPT !.bytesInFlight = flight,
                                       !.ssThresh = HalfFlight(flight),
                                       !.cwnd = HalfFlight(flight),
                                       !.cwndInfl = HalfFlight(flight),
                                       !.congState = "CWR",
                                       !.recover = s.nxt],
                         delivered, retransAcked)

EnterRecovery(s, delivered, retransAcked, isCongestion) ==
    LET marked  == IF IsLost(s, s.una) THEN s ELSE MarkHeadAsLost(s)
        entered == [marked EXCEPT !.recover = s.nxt, !.recoverActive = TRUE,
                                  !.congState = "RECOVERY",
                                  !.bytesInFlight = BytesInFlight(marked)]
    IN  DoRetransmit(RecoveryOpsEnter(CerlEnterRecovery(entered, isCongestion),
                                      delivered, retransAcked))

DupAck(s, delivered, retransAcked, isCongestion) ==
    LET counted  == IF s.congState = "RECOVERY" THEN s ELSE [s EXCEPT !.dupAckCount = @ + 1]
        disorder == IF s.congState = "OPEN"
                    THEN [Assert(counted, counted.dupAckCount = 1, "DupAckCount")
                            EXCEPT !.congState = "DISORDER"]
                    ELSE counted
        checked  == Assert(disorder,
                           disorder.dupAckCount <= RetxThresh \/ disorder.recoverActive,
                           "DisorderCount")
    IN  IF s.congState = "LOSS" THEN s
        ELSE IF s.congState = "RECOVERY" THEN DoRecovery(s, delivered, retransAcked)
        ELSE IF s.congState = "CWR" THEN counted
        ELSE IF \/ /\ checked.dupAckCount = RetxThresh
                   /\ RecoveryCovered(s) \/ ~s.recoverActive
                \/ IsLost(s, s.una + 1)
        THEN EnterRecovery(checked, delivered, retransAcked, isCongestion)
        ELSE checked

\* An ACK in recovery that does not cover the recovery point.
PartialAck(s, segsAcked, delivered, retransAcked) ==
    LET done   == DoRecovery(s, delivered, retransAcked)
        resent == IF s.una \in done.retrans \ done.sacked THEN done
                  ELSE [DoRetransmit(done) EXCEPT
                            !.cwndInfl = Max({0, done.cwndInfl - SegSize * segsAcked})]
    IN  [NewAck(resent, s.isFirstPartialAck) EXCEPT !.isFirstPartialAck = FALSE]

\* An ACK of new data outside recovery, or one that ends it.
FullAck(s, segsAcked, isDupack) ==
    LET leaves  == s.congState \in {"RECOVERY", "LOSS"}
        acked   == IF s.congState = "LOSS" THEN s.una - s.recover ELSE segsAcked
        opened  == [s EXCEPT
                      !.congState = IF leaves \/ ~isDupack THEN "OPEN" ELSE @,
                      !.isFirstPartialAck = IF leaves THEN TRUE ELSE @,
                      !.dupAckCount = IF s.congState = "RECOVERY" THEN 0 ELSE @,
                      !.recoverActive = IF RecoveryCovered(s) THEN FALSE ELSE @]
        exited  == IF s.congState # "RECOVERY" THEN opened
                   ELSE RecoveryOpsExit(CerlExitRecovery(NewAck(opened, TRUE)))
        grown   == IncreaseWindow(exited, acked)
    IN  IF exited.congState # "OPEN" THEN exited
        ELSE NewAck([grown EXCEPT !.cwndInfl = grown.cwnd], TRUE)

ProcessAck(s, segsAcked, isDupack, delivered, retransAcked, isCongestion) ==
    LET seen   == [s EXCEPT !.ackSeen = TRUE]
        dup    == IF isDupack THEN DupAck(seen, delivered, retransAcked, isCongestion) ELSE seen
        s1     == IF isDupack THEN dup ELSE [dup EXCEPT !.dupAckCount = 0]
    IN  IF segsAcked = 0 THEN dup
        ELSE IF ~RecoveryCovered(s1) /\ s1.congState = "RECOVERY"
        THEN PartialAck(s1, segsAcked, delivered, retransAcked)
        ELSE IF ~RecoveryCovered(s1) /\ s1.congState = "LOSS"
        THEN NewAck(IncreaseWindow(s1, segsAcked), TRUE)
        ELSE IF s1.congState = "CWR"
        THEN NewAck(DoRecovery(s1, delivered, retransAcked), TRUE)
        ELSE FullAck(s1, segsAcked, isDupack)

----------------------------------------------------------------------------
(***************************************************************************)
(* Events.  The simulator runs one event at a time: while the phase is not *)
(* idle, SendPendingData goes on.                                          *)
(***************************************************************************)

Running(s) == s.alive /\ s.failed = "none"

\* What a handler leaves: its segments go to the network.
Handled(s, next) ==
    /\ snd' = [s EXCEPT !.out = {}]
    /\ net' = net \cup s.out
    /\ phase' = IF Running(s) THEN next ELSE "idle"

\* Send: the application writes one more segment.
Send ==
    /\ phase = "idle" /\ Running(snd) /\ snd.written < NumSegs
    /\ Handled([snd EXCEPT !.written = @ + 1], "sending")
    /\ UNCHANGED <<rcvd, acks>>

\* One turn of the loop in SendPendingData.
SendSegment ==
    /\ phase # "idle" /\ CanSend(snd)
    /\ Handled(SendDataPacket(snd, NextSeg(snd, snd.congState = "RECOVERY")), phase)
    /\ UNCHANGED <<rcvd, acks>>

\* Its end, and after a timeout the assertion on what was sent.
StopSending ==
    /\ phase # "idle" /\ ~CanSend(snd)
    /\ LET flight == BytesInFlight(snd)
           seen   == [snd EXCEPT !.bytesInFlight = flight]
       IN  Handled(IF phase = "afterRto" THEN Assert(seen, flight <= SegSize, "RtoFlight") ELSE seen,
                   "idle")
    /\ UNCHANGED <<rcvd, acks>>

\* ProcessEstablished ignores an ACK below SND.UNA; ReceivedAck takes the others,
\* up to SendPendingData.
ReceivedAck(a, ece, isCongestion) ==
    LET updated == Update(snd, a.sack)
        newly   == NewlySacked(snd, a.sack)
        acked   == snd.una..(a.ack - 1)
        delivered    == SizeOf(newly \cup (acked \ snd.sacked))
        retransAcked == /\ snd.congState = "RECOVERY" /\ a.ack < snd.recover
                        /\ acked \cap (updated.retrans \ updated.sacked) # {}
        kept    == DiscardUpTo(updated, a.ack)
        leftCwr == IF kept.congState = "CWR" /\ a.ack > kept.recover
                   THEN RecoveryOpsExit([kept EXCEPT !.congState = "OPEN", !.cwnd = kept.ssThresh])
                   ELSE kept
        echoed  == IF acked # {} /\ ece /\ leftCwr.congState # "CWR"
                   THEN EnterCwr(leftCwr, delivered, retransAcked)
                   ELSE leftCwr
        flown   == [echoed EXCEPT !.bytesInFlight = BytesInFlight(echoed)]
    IN  /\ phase = "idle" /\ Running(snd)
        /\ acks' = acks \ {a}
        /\ IF a.ack < snd.una THEN UNCHANGED <<snd, net, phase>>
           ELSE Handled(ProcessAck(flown, Cardinality(acked), newly # {}, delivered,
                                   retransAcked, isCongestion),
                        "sending")
        /\ UNCHANGED rcvd

\* ReTxTimeout, up to SendPendingData.
ReTxTimeout ==
    LET lost  == [SetSentListLost(snd) EXCEPT !.dupAckCount = 0]
        asked == Assert(lost, lost.ackSeen, "CerlAckSeen")
        loss  == [asked EXCEPT
                    !.retxEvent = FALSE, !.retries = @ - 1,
                    !.recover = snd.nxt, !.recoverActive = TRUE,
                    !.ssThresh = IF snd.congState # "LOSS" \/ lost.una \notin lost.retrans
                                 THEN HalfFlight(BytesInFlight(snd)) ELSE @,
                    !.congState = "LOSS", !.cwnd = SegSize, !.cwndInfl = SegSize,
                    !.bytesInFlight = BytesInFlight(lost)]
    IN  /\ phase = "idle" /\ Running(snd) /\ snd.retxEvent
        /\ IF snd.una = snd.written
           THEN Handled([snd EXCEPT !.retxEvent = FALSE], "idle")
           ELSE IF snd.retries = 0
           THEN Handled([snd EXCEPT !.retxEvent = FALSE, !.alive = FALSE], "idle")
           ELSE Handled(Assert(loss, BytesInFlight(lost) = 0, "RtoInFlight"), "afterRto")
        /\ UNCHANGED <<rcvd, acks>>

\* The peer: every segment is acknowledged with all that is held.
AckFor(held) ==
    LET nxt == Min({i \in 0..NumSegs : i \notin held})
    IN  [ack |-> nxt, sack |-> {i \in held : i > nxt}]

\* A copy may stay behind in the network; the ACK may find it full and be lost.
Deliver(i) ==
    /\ phase = "idle" /\ i \in net
    /\ net' \in {net, net \ {i}}
    /\ rcvd' = rcvd \cup {i}
    /\ acks' = IF Cardinality(acks) < MaxAcks THEN acks \cup {AckFor(rcvd')} ELSE acks
    /\ UNCHANGED <<snd, phase>>

Lose ==
    /\ phase = "idle"
    /\ \/ \E i \in net : net' = net \ {i} /\ UNCHANGED acks
       \/ \E a \in acks : acks' = acks \ {a} /\ UNCHANGED net
    /\ UNCHANGED <<snd, rcvd, phase>>

Init ==
    /\ \E r \in Recoveries, b \in Builds :
         snd = [una |-> 0, nxt |-> 0, written |-> FirstWrite,
                sacked |-> {}, lost |-> {}, retrans |-> {}, highSack |-> None,
                cwnd |-> InitialCwnd * SegSize, cwndInfl |-> InitialCwnd * SegSize,
                ssThresh |-> InitialSsThresh, congState |-> "OPEN",
                recover |-> 0, recoverActive |-> FALSE, dupAckCount |-> 0,
                isFirstPartialAck |-> TRUE, bytesInFlight |-> 0,
                retxEvent |-> FALSE, retries |-> DataRetries, ackSeen |-> FALSE,
                oldCwnd |-> None, maxSentSeq |-> 0,
                recovery |-> r, prrDelivered |-> 0, prrOut |-> 0, recoveryFlight |-> 0,
                out |-> {}, alive |-> TRUE, build |-> b, failed |-> "none"]
    /\ net = {} /\ rcvd = {} /\ acks = {}
    /\ phase = "sending"

Ece == IF UseEcn THEN BOOLEAN ELSE {FALSE}

Next ==
    \/ Send \/ SendSegment \/ StopSending \/ ReTxTimeout \/ Lose
    \/ \E i \in Segs : Deliver(i)
    \/ \E a \in acks, ece \in Ece, c \in BOOLEAN : ReceivedAck(a, ece, c)

Spec == Init /\ [][Next]_vars

\* Every step of the socket is an event at a finite time, so it comes if it
\* stays scheduled.  The retransmission timer is such an event even while ACKs
\* keep arriving, which only NewAck lets postpone it.
FairSpec ==
    /\ Spec
    /\ WF_vars(SendSegment) /\ WF_vars(StopSending)
    /\ SF_vars(ReTxTimeout)

----------------------------------------------------------------------------
(***************************************************************************)
(* Properties.                                                             *)
(***************************************************************************)

Idle == phase = "idle" /\ Running(snd)

Bytes == 0..(2 * SegSize * NumSegs)

TypeOK ==
    /\ snd \in [una : 0..NumSegs, nxt : 0..NumSegs, written : 0..NumSegs,
                sacked : SUBSET Segs, lost : SUBSET Segs, retrans : SUBSET Segs,
                highSack : Segs \cup {None},
                cwnd : 0..(Word - 1), cwndInfl : 0..(Word - 1), ssThresh : 0..(Word - 1),
                congState : CongStates, recover : 0..NumSegs, recoverActive : BOOLEAN,
                dupAckCount : Nat, isFirstPartialAck : BOOLEAN, bytesInFlight : Bytes,
                retxEvent : BOOLEAN, retries : 0..DataRetries, ackSeen : BOOLEAN,
                oldCwnd : (-Word)..(Word - 1), maxSentSeq : 0..NumSegs,
                recovery : Recoveries, prrDelivered : 0..(Word - 1), prrOut : 0..(Word - 1),
                recoveryFlight : Bytes, out : {{}}, alive : BOOLEAN, build : Builds,
                failed : {"none", "CerlAckSeen", "DupAckCount", "DisorderCount",
                          "EmptySegment", "RtoFlight", "RtoInFlight"}]
    /\ net \subseteq Segs /\ rcvd \subseteq Segs
    /\ acks \subseteq [ack : 0..NumSegs, sack : SUBSET Segs]
    /\ phase \in {"idle", "sending", "afterRto"}

\* What the scoreboard reports as delivered, cumulatively or by SACK, the peer
\* has: Update and DiscardUpTo never drop data the peer still needs, whatever
\* the order of the ACKs.
ScoreboardTruthful == 0..(snd.una - 1) \cup snd.sacked \subseteq rcvd

\* The marks of the sent list agree with each other: a segment is never both
\* lost and SACKed, the head is never SACKed, only sent segments are marked,
\* and there is a highest SACK exactly while something is SACKed.
ScoreboardConsistent ==
    /\ snd.una <= snd.nxt /\ snd.nxt <= snd.written
    /\ snd.lost \cap snd.sacked = {}
    /\ snd.una \notin snd.sacked
    /\ snd.sacked \cup snd.lost \cup snd.retrans \subseteq Sent(snd)
    /\ (snd.highSack = None) = (snd.sacked = {})

\* Nothing is in flight and the congestion window lets nothing be sent: the
\* states in which SendPendingData sends nothing and no ACK can come.
Stranded == snd.una = snd.nxt /\ snd.cwnd < SegSize

\* Between events, while anything written is not acknowledged the
\* retransmission timer runs, or the window was lost as WindowUsable says: no
\* order of timeouts, partial ACKs and CWR leaves the connection waiting for an
\* answer that cannot come.
TimerRuns == Idle /\ snd.una < snd.written => snd.retxEvent \/ Stranded

\* In fast recovery and after a timeout the recovery point is active, not yet
\* acknowledged and was sent; outside of both (CWR can interrupt them) it is not
\* active, so that a stale one never keeps DupAck from entering recovery.
RecoveryPoint ==
    /\ snd.congState \in {"RECOVERY", "LOSS"} =>
         snd.recoverActive /\ snd.una < snd.recover /\ snd.recover <= snd.nxt
    /\ snd.recoverActive => snd.congState \in {"RECOVERY", "LOSS", "CWR"}

\* Between events the congestion window holds a segment as soon as a reduction
\* has set the slow start threshold: from then on no mix of recoveries, CERL, CWR
\* and timeouts leaves a window in which nothing can be sent.  Before, fast
\* recovery entered for a loss that TcpCerl does not take for congestion ends
\* with a window of the initial threshold, which congestion avoidance wraps to 0
\* when it is the default; with PRR it is empty only while recovery goes on.
WindowUsable ==
    Idle /\ snd.cwnd < SegSize =>
        /\ snd.ssThresh = InitialSsThresh
        /\ snd.recovery = "PRR" => snd.congState = "RECOVERY" /\ snd.una < snd.nxt

\* The ACK that ends TcpClassicRecovery finds the window set to the threshold
\* (tcp-recovery-ops.cc:122, "actual m_cWnd value is reset to ssThresh"), and
\* congestion avoidance only adds to it (doc/tcp.rst:403, "cwnd is incremented
\* by roughly 1 full-sized segment per round-trip time").
RecoveryExitGrows ==
    [][snd.congState = "RECOVERY" /\ snd'.congState = "OPEN" =>
           snd'.cwnd >= snd'.ssThresh]_vars

\* The assertions of ReTxTimeout and of DupAck in CA_DISORDER hold in a debug
\* build, after any history of duplicate ACKs, recoveries and timeouts.  The
\* one of DupAck in CA_OPEN ("DupAckCount") does not: duplicate ACKs counted in
\* CA_CWR are not forgotten by the ACK that ends it.
SocketAssertions == snd.failed \notin {"RtoInFlight", "RtoFlight", "DisorderCount"}

\* A step that sends a segment again picks one that is not SACKed, before or
\* after the ACK that caused it (the assertion of CopyFromSequence).
NeverResendSacked ==
    [][\A i \in snd'.retrans \ snd.retrans : i \notin snd.sacked \cup snd'.sacked]_vars

\* The step that enters fast recovery sends the head of the sent list again, and
\* so does every timeout before the next event: what the peer waits for is not
\* passed over for other lost or new data.
HeadResent ==
    [][/\ snd.congState # "RECOVERY" /\ snd'.congState = "RECOVERY" => snd'.una \in snd'.retrans
       /\ Idle' /\ snd'.congState = "LOSS" => snd'.una \in snd'.retrans]_vars

\* Everything written is acknowledged in the end, or the socket gives up after
\* DataRetries timeouts without an answer, or its window was lost: otherwise it
\* never waits for ever, whatever the network loses.
Settles ==
    snd.una < snd.written ~> snd.una = snd.written \/ ~snd.alive \/ (Idle /\ Stranded)

\* NS_ASSERT(state->m_lastAckedSeq.GetValue() > 0) of TcpCerl::GetSsThresh holds
\* whenever the socket asks for a new threshold.
CerlAssertion == snd.failed # "CerlAckSeen"
=============================================================================
