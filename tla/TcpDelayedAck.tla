---------------------------- MODULE TcpDelayedAck ----------------------------
(***************************************************************************)
(* The receiving half of TcpSocketBase in state ESTABLISHED, before a FIN: *)
(* when a data segment is acknowledged at once, when its ACK is delayed,   *)
(* by how much, and which timer pays for it.  Three policies share the     *)
(* code: the classic delayed ACK (DelAckCount / DelAckTimeout), TCP-AAD    *)
(* (AggregationAwareDelay) and TCP-ADW (AdaptiveDelayWindow).              *)
(*                                                                         *)
(* Time is a count of ticks; every clock is relative to now.  Sequence     *)
(* numbers count segments and are offsets from RCV.NXT (0 is the next      *)
(* in-sequence segment), so an unbounded stream has finitely many states.  *)
(* Floating-point windows are exact rationals: m_dwnd is kept in 1/Scale   *)
(* bytes, and a delay in seconds is rounded down to ticks.  The peer sends *)
(* any segment inside the window it was offered, in any order, any number  *)
(* of times, or never.                                                     *)
(***************************************************************************)
EXTENDS Integers, FiniteSets

CONSTANTS
    AdaptiveDelayWindow,    \* m_adwEnabled
    AggregationAwareDelay,  \* m_aadEnabled
    DelAckMaxCount,         \* m_delAckMaxCount, in segments
    DelAckTime,             \* m_delAckTimeout, in ticks
    IatThreshold,           \* m_iatThreshold, in ticks
    AlphaNum, AlphaDen,     \* m_alpha = AlphaNum / AlphaDen
    Beta,                   \* m_beta
    Lambda,                 \* m_lambda
    UpdatePeriod,           \* the one second between resets of m_baseIat
    SegSize,                \* GetSegSize(), in bytes
    RcvBuf,                 \* RcvBufSize, in segments
    MaxWinSize,             \* m_maxWinSize: AdvertisedWindowSize is a uint16_t
    CwndValues,             \* what the peer's CWND option may carry; {}: not negotiated
    EcnCapable,             \* ECN was negotiated on this connection
    Bidirectional,          \* this socket sends data too
    SecondsOfInfinity,      \* what Seconds(INFINITY) may yield (undefined conversion)
    MaxGap,                 \* bound: a longer inter-arrival time counts as MaxGap
    MaxWait,                \* bound: a longer wait for an ACK counts as MaxWait
    MaxLag,                 \* bound: a larger lag of m_highTxAck counts as MaxLag
    Infinity,               \* INFINITY
    Never,                  \* Time::Min(), an expired EventId
    Scale                   \* 1/Scale bytes is the unit of m_dwnd

ASSUME ModeAssumption ==
    /\ AdaptiveDelayWindow \in BOOLEAN /\ AggregationAwareDelay \in BOOLEAN
    /\ EcnCapable \in BOOLEAN /\ Bidirectional \in BOOLEAN

ASSUME SizeAssumption ==
    /\ DelAckMaxCount \in Nat \ {0} /\ DelAckTime \in Nat \ {0}
    /\ IatThreshold \in Nat \ {0} /\ UpdatePeriod \in Nat
    /\ SegSize \in Nat \ {0} /\ RcvBuf \in Nat \ {0} /\ MaxWinSize \in Nat
    /\ CwndValues \subseteq Nat /\ MaxLag \in Nat
    /\ MaxGap \in Nat /\ MaxGap >= DelAckTime /\ MaxGap >= IatThreshold
    /\ MaxWait \in Nat /\ MaxWait >= DelAckTime

ASSUME ParameterAssumption ==
    /\ Lambda \in Nat \ {0} /\ Beta \in Nat
    /\ AlphaNum \in Nat /\ AlphaDen \in Nat \ {0} /\ AlphaNum <= AlphaDen
    /\ SecondsOfInfinity \subseteq Int /\ SecondsOfInfinity # {}
    /\ Infinity \notin Int /\ Never \notin Int

\* Scale is a common denominator of every 1 - theta (the proofs use only its type).
ASSUME ScaleAssumption ==
    Scale \in Nat \ {0} /\ \A b \in 1..MaxGap : Scale % (Lambda * b) = 0

VARIABLES
    ooo,         \* offsets of the segments buffered out of order
    avail,       \* in-sequence segments the application has not read
    edge,        \* right edge of the window last offered, as an offset
    unacked,     \* in-sequence segments no ACK sent so far covers
    highTxAck,   \* RCV.NXT - m_highTxAck, capped by MaxLag
    delAckCount, \* m_delAckCount
    delAckEvent, \* m_delAckEvent: ticks left, or Never
    lastPacket,  \* ticks since m_lastPacketTime, capped by MaxGap, or Never
    lastUpdate,  \* ticks since m_lastUpdate, capped just above UpdatePeriod
    iat,         \* m_iat
    baseIat,     \* m_baseIat
    dwnd,        \* m_dwnd, in 1/Scale bytes
    rcvCwnd,     \* m_rcvCwndValue, in bytes
    cwndDiff,    \* the sign of m_cwndDiff
    ecnState,    \* m_ecnState
    ecnCESeq,    \* m_ecnCESeq as an offset, -3 when lower
    echoAhead,   \* m_ecnEchoSeq > m_ecnCWRSeq
    inFlight,    \* this socket has sent data that is not acknowledged
    aborted,     \* an assertion of the simulator stopped the run
    waited,      \* history: ticks since the first unacknowledged segment came,
                 \* capped by MaxWait
    out          \* history: the segment the last step sent, if any

rxVars    == <<ooo, avail, edge>>
iatVars   == <<lastPacket, lastUpdate, iat, baseIat, dwnd>>
cwndVars  == <<rcvCwnd, cwndDiff>>
ecnVars   == <<ecnState, ecnCESeq, echoAhead, inFlight>>
ackVars   == <<unacked, highTxAck, delAckCount, delAckEvent, waited, out>>
vars      == <<rxVars, iatVars, cwndVars, ecnVars, ackVars, aborted>>

EcnStates == {"DISABLED", "IDLE", "CE_RCVD", "SENDING_ECE", "ECE_RCVD", "CWR_SENT"}

Lesser(a, b)  == IF a <= b THEN a ELSE b
Greater(a, b) == IF a >= b THEN a ELSE b
Sign(n) == IF n > 0 THEN 1 ELSE IF n < 0 THEN -1 ELSE 0

Adaptive == AdaptiveDelayWindow \/ AggregationAwareDelay

----------------------------------------------------------------------------
(***************************************************************************)
(* The delay policy: pure functions of the socket's members.               *)
(***************************************************************************)

\* lambda segments, the value every reset of m_dwnd returns to.
BaseWindow == Lambda * SegSize * Scale

\* (1 - theta) * Scale, theta being what GetTimeRatio returns for (i, b).
TimeRatioComplement(i, b) ==
    IF i # Infinity /\ b # Infinity /\ i < Lambda * b
    THEN (Scale * i) \div (Lambda * b)
    ELSE Scale

\* AdvertisedWindowSize(false), in bytes.
AdvertisedWindowSize == Lesser((RcvBuf - avail) * SegSize, MaxWinSize)

\* The m_dwnd that UpdateDelayWindow leaves for option values (cwnd, diff).
UpdateDelayWindow(i, b, cwnd, diff) ==
    IF diff > 0 THEN Lesser(dwnd + TimeRatioComplement(i, b) * SegSize,
                            Lesser(cwnd, AdvertisedWindowSize) * Scale)
    ELSE IF diff < 0 THEN BaseWindow
    ELSE dwnd

\* Mutant: the cap by m_delAckTimeout is forgotten.
GetDelayTimeoutUncapped(count, i, b) ==
    LET parameter == IF AdaptiveDelayWindow THEN Lambda ELSE Beta
        smoothed  == AlphaNum * b + (AlphaDen - AlphaNum) * i
    IN  IF ~Adaptive \/ (AggregationAwareDelay /\ count < DelAckMaxCount)
        THEN {DelAckTime}
        ELSE IF i = Infinity \/ b = Infinity THEN SecondsOfInfinity
             ELSE {(parameter * smoothed) \div AlphaDen}

\* The delays GetDelayTimeout can return.  Seconds(INFINITY) is undefined.
GetDelayTimeout(count, i, b) ==
    LET parameter == IF AdaptiveDelayWindow THEN Lambda ELSE Beta
        smoothed  == AlphaNum * b + (AlphaDen - AlphaNum) * i
    IN  IF ~Adaptive \/ (AggregationAwareDelay /\ count < DelAckMaxCount)
        THEN {DelAckTime}
        ELSE IF i = Infinity \/ b = Infinity
             THEN {Lesser(d, DelAckTime) : d \in SecondsOfInfinity}
             ELSE {Lesser((parameter * smoothed) \div AlphaDen, DelAckTime)}

\* Mutant: > for >=.
DelayWindowPassed(count, window) ==
    IF AdaptiveDelayWindow THEN count * SegSize * Scale > window
    ELSE ~AggregationAwareDelay /\ count > DelAckMaxCount

\* count >= DelayWindow(); under AAD alone the window is infinite.
DelayWindowReached(count, window) ==
    IF AdaptiveDelayWindow THEN count * SegSize * Scale >= window
    ELSE ~AggregationAwareDelay /\ count >= DelAckMaxCount

----------------------------------------------------------------------------
(***************************************************************************)
(* Sending an ACK.                                                         *)
(***************************************************************************)

\* Mutant: m_delAckEvent is not cancelled.
AckSentTimerKept(segment) ==
    /\ UNCHANGED delAckEvent
    /\ delAckCount' = 0 /\ unacked' = 0 /\ waited' = 0
    /\ edge' = RcvBuf - avail'
    /\ out' = segment

\* Mutant: the whole buffer is offered, whatever the application left in it.
AckSentWholeBuffer(segment) ==
    /\ delAckEvent' = Never
    /\ delAckCount' = 0 /\ unacked' = 0 /\ waited' = 0
    /\ edge' = RcvBuf
    /\ out' = segment

\* Any segment with the ACK flag: the delayed ACK is no longer owed, and the
\* window offered is what the buffer has left.
AckSent(segment) ==
    /\ delAckEvent' = Never
    /\ delAckCount' = 0
    /\ unacked' = 0
    /\ waited' = 0
    /\ edge' = RcvBuf - avail'
    /\ out' = segment

\* SendEmptyPacket(ACK), or (ACK | ECE) when the receiver owes an ECN echo in
\* state e, with the state change its callers make.
SendEmptyPacket(e) ==
    LET ece == e \in {"CE_RCVD", "SENDING_ECE"}
    IN  /\ AckSent(IF ece THEN "ACK|ECE" ELSE "ACK")
        /\ highTxAck' = 0
        /\ ecnState' = IF ece THEN "SENDING_ECE" ELSE e

\* SendDataPacket(seq, maxSize, TRUE): the ACK rides on a data segment, which
\* may be a retransmission; m_highTxAck is left alone, no ECE is set, and a
\* CWR answers an ECN echo received.
SendDataPacket ==
    /\ Bidirectional /\ ~aborted
    /\ UNCHANGED <<ooo, avail, iatVars, cwndVars, ecnCESeq, highTxAck, aborted>>
    /\ AckSent("DATA")
    /\ inFlight' = TRUE
    /\ \E isRetransmission \in {FALSE} \cup {inFlight} :
         LET cwr == ecnState = "ECE_RCVD" /\ echoAhead /\ ~isRetransmission
         IN  /\ ecnState' = IF cwr THEN "CWR_SENT" ELSE ecnState
             /\ echoAhead' = (echoAhead /\ ~cwr)

----------------------------------------------------------------------------
(***************************************************************************)
(* Receiving a segment.                                                    *)
(***************************************************************************)

\* The peer sends old segments again, anything inside the window it was
\* offered, and a probe when that window is closed.
Offered(s) == s < edge \/ (s = 0 /\ edge = 0 /\ unacked = 0)

OutOfRange(s) == s + 1 < 0 \/ RcvBuf - avail <= s

\* IsValidTcpSegment: a segment wholly outside the window is answered by a
\* bare ACK and dropped.
ForwardUpOutOfRange(s) ==
    /\ ~aborted
    /\ Offered(s) /\ OutOfRange(s)
    /\ UNCHANGED <<ooo, avail, iatVars, cwndVars, ecnVars, aborted>>
    /\ AckSent("ACK")
    /\ highTxAck' = 0

\* The option is on every segment of a connection that negotiated it.
ProcessOptionCongestionWindow ==
    \/ CwndValues = {} /\ UNCHANGED cwndVars
    \/ \E cwnd \in CwndValues :
         rcvCwnd' = cwnd /\ cwndDiff' = Sign(cwnd - rcvCwnd)

\* Mutant: a CWR ends the echo even when the same segment is marked.
EcnStateAfterAnyCwr(s, ce, cwr) ==
    LET marked  == IF ce /\ ecnCESeq < s THEN "CE_RCVD" ELSE ecnState
        reduced == IF cwr THEN "IDLE" ELSE marked
    IN  IF reduced = "ECE_RCVD" THEN "IDLE" ELSE reduced

\* The ECN state after ForwardUp (CE), DoForwardUp (CWR) and ReceivedAck
\* (an ACK without ECE) have seen a data segment at offset s.
EcnStateAfter(s, ce, cwr) ==
    LET marked  == IF ce /\ ecnCESeq < s THEN "CE_RCVD" ELSE ecnState
        reduced == IF cwr /\ marked # "CE_RCVD" THEN "IDLE" ELSE marked
    IN  IF reduced = "ECE_RCVD" THEN "IDLE" ELSE reduced

\* Mutant: inter-arrival times below m_iatThreshold are not skipped.
MeasureIatUnfiltered ==
    /\ iat' = IF lastPacket = Never THEN iat ELSE lastPacket
    /\ baseIat' = IF lastPacket = Never THEN baseIat
                  ELSE IF baseIat = Infinity THEN lastPacket
                  ELSE Lesser(lastPacket, baseIat)
    /\ lastPacket' = 0
    /\ UNCHANGED lastUpdate

\* Mutant: the base is never reset.
MeasureIatNoReset ==
    LET measured == lastPacket # Never /\ lastPacket >= IatThreshold
    IN  /\ iat' = IF lastPacket = Never THEN iat ELSE lastPacket
        /\ baseIat' = IF ~measured THEN baseIat
                      ELSE IF baseIat = Infinity THEN lastPacket
                      ELSE Lesser(lastPacket, baseIat)
        /\ lastPacket' = 0
        /\ UNCHANGED lastUpdate

\* The opening of ReceivedData: the inter-arrival time of this segment.
MeasureIat ==
    LET measured == lastPacket # Never /\ lastPacket >= IatThreshold
        reset    == measured /\ AggregationAwareDelay /\ lastUpdate > UpdatePeriod
    IN  /\ iat' = IF lastPacket = Never THEN iat ELSE lastPacket
        /\ lastUpdate' = IF reset THEN 0 ELSE lastUpdate
        /\ baseIat' = IF ~measured THEN baseIat
                      ELSE IF reset \/ baseIat = Infinity THEN lastPacket
                      ELSE Lesser(lastPacket, baseIat)
        /\ lastPacket' = 0

\* The m_dwnd that opening leaves (needs the primed iat and option values).
MeasuredWindow ==
    IF lastPacket = Never THEN BaseWindow
    ELSE IF lastPacket < IatThreshold THEN dwnd
    ELSE UpdateDelayWindow(iat', baseIat', rcvCwnd', cwndDiff')

\* What every data segment that is not out of range does before Add; k is by
\* how much it will move RCV.NXT.
DataSegment(s, ce, k) ==
    /\ ~aborted
    /\ Offered(s) /\ ~OutOfRange(s)
    /\ ProcessOptionCongestionWindow
    /\ MeasureIat
    /\ ecnCESeq' = LET seq == IF ce /\ ecnCESeq < s THEN s ELSE ecnCESeq
                   IN  Greater(seq - k, -3)
    /\ UNCHANGED <<echoAhead, inFlight>>

\* Add stores nothing: the segment is a duplicate.
ReceivedDuplicate(s, ce, cwr) ==
    /\ s < 0 \/ s \in ooo
    /\ DataSegment(s, ce, 0)
    /\ dwnd' = MeasuredWindow
    /\ UNCHANGED <<ooo, avail, aborted>>
    /\ SendEmptyPacket(EcnStateAfter(s, ce, cwr))

\* Add stores the segment beyond a gap.
ReceivedOutOfOrder(s, ce, cwr) ==
    /\ s > 0 /\ s \notin ooo
    /\ DataSegment(s, ce, 0)
    /\ ooo' = ooo \cup {s}
    /\ dwnd' = BaseWindow
    /\ UNCHANGED <<avail, aborted>>
    /\ SendEmptyPacket(EcnStateAfter(s, ce, cwr))

\* Add stores the next segment and RCV.NXT passes it and the run behind it;
\* the application reads from inside NotifyDataRecv.
NextSegment(k, ce) ==
    /\ k \notin ooo /\ \A o \in 1..(k - 1) : o \in ooo
    /\ DataSegment(0, ce, k)
    /\ ooo' = {o - k : o \in {p \in ooo : p > k}}
    /\ \E read \in 0..(avail + k) : avail' = avail + k - read

GapFilledOrLeft(k) == k > 1 \/ ooo' # {}

\* A hole was filled or another one remains: ACK now and reset the window.
ReceivedGapSegment(k, ce, cwr) ==
    /\ NextSegment(k, ce)
    /\ GapFilledOrLeft(k)
    /\ dwnd' = BaseWindow
    /\ UNCHANGED aborted
    /\ SendEmptyPacket(EcnStateAfter(0, ce, cwr))

\* In sequence and the delay window is full: ACK now.
ReceivedWindowFull(ce, cwr) ==
    /\ NextSegment(1, ce)
    /\ ~GapFilledOrLeft(1)
    /\ dwnd' = MeasuredWindow
    /\ DelayWindowReached(delAckCount + 1, dwnd')
    /\ UNCHANGED aborted
    /\ SendEmptyPacket(EcnStateAfter(0, ce, cwr))

\* Mutant: the timer that was cancelled is not issued again.
IssueTimeoutDropped(count) == delAckEvent' = Never /\ aborted' = FALSE

\* issueTimout: Simulator::Schedule asserts that the delay is not negative.
IssueTimeout(count) ==
    \E delay \in GetDelayTimeout(count, iat', baseIat') :
        \/ delay < 0 /\ aborted' = TRUE /\ delAckEvent' = Never
        \/ delay >= 0 /\ aborted' = FALSE /\ delAckEvent' = delay

\* Mutant: the classic policy restarts its timer too.
ReceivedDelayedRestart(ce, cwr) ==
    /\ NextSegment(1, ce)
    /\ ~GapFilledOrLeft(1)
    /\ dwnd' = MeasuredWindow
    /\ ~DelayWindowReached(delAckCount + 1, dwnd')
    /\ delAckCount' = delAckCount + 1
    /\ IssueTimeout(delAckCount + 1)
    /\ unacked' = unacked + 1
    /\ highTxAck' = Lesser(highTxAck + 1, MaxLag)
    /\ edge' = Greater(edge - 1, 0)
    /\ ecnState' = EcnStateAfter(0, ce, cwr)
    /\ out' = "none"
    /\ UNCHANGED waited

\* In sequence and the window has room: the ACK is delayed.  The classic
\* policy keeps a running timer, AAD and ADW replace it.
ReceivedDelayed(ce, cwr) ==
    /\ NextSegment(1, ce)
    /\ ~GapFilledOrLeft(1)
    /\ dwnd' = MeasuredWindow
    /\ ~DelayWindowReached(delAckCount + 1, dwnd')
    /\ delAckCount' = delAckCount + 1
    /\ IF delAckEvent # Never /\ ~Adaptive
       THEN UNCHANGED <<delAckEvent, aborted>>
       ELSE IssueTimeout(delAckCount + 1)
    /\ unacked' = unacked + 1
    /\ highTxAck' = Lesser(highTxAck + 1, MaxLag)
    /\ edge' = Greater(edge - 1, 0)
    /\ ecnState' = EcnStateAfter(0, ce, cwr)
    /\ out' = "none"
    /\ UNCHANGED waited

\* A pure ACK for data this socket sent, with or without an ECN echo (which
\* counts when its ACK number is above the last one echoed).
ReceivedAck(ece) ==
    /\ inFlight /\ ~aborted
    /\ ProcessOptionCongestionWindow
    /\ inFlight' \in BOOLEAN
    /\ IF ece
       THEN \/ ecnState' = "ECE_RCVD" /\ echoAhead' \in BOOLEAN
            \/ UNCHANGED <<ecnState, echoAhead>>
       ELSE /\ ecnState' = IF ecnState = "ECE_RCVD" THEN "IDLE" ELSE ecnState
            /\ UNCHANGED echoAhead
    /\ out' = "none"
    /\ UNCHANGED <<rxVars, iatVars, ecnCESeq, unacked, highTxAck, delAckCount,
                   delAckEvent, waited, aborted>>

----------------------------------------------------------------------------
(***************************************************************************)
(* The timer, the application and the clock.                               *)
(***************************************************************************)

\* DelAckTimeout: theta of (INFINITY, INFINITY) is 0, theta of a finite iat
\* over an infinite base is NaN, which std::max turns into lambda segments.
DelAckTimeout ==
    /\ ~aborted
    /\ delAckEvent = 0
    /\ dwnd' = IF iat # Infinity /\ baseIat = Infinity THEN BaseWindow
               ELSE Greater(BaseWindow, dwnd - TimeRatioComplement(iat, baseIat))
    /\ UNCHANGED <<ooo, avail, lastPacket, lastUpdate, iat, baseIat, cwndVars,
                   ecnCESeq, echoAhead, inFlight, aborted>>
    /\ SendEmptyPacket(ecnState)

\* Recv outside the callback; it announces nothing to the peer.
Recv ==
    /\ ~aborted
    /\ \E read \in 1..avail : avail' = avail - read
    /\ out' = "none"
    /\ UNCHANGED <<ooo, edge, iatVars, cwndVars, ecnVars, unacked, highTxAck,
                   delAckCount, delAckEvent, waited, aborted>>

\* Time passes; it never passes the instant at which the timer is due.
Tick ==
    /\ ~aborted
    /\ delAckEvent # 0
    /\ delAckEvent' = IF delAckEvent = Never THEN Never ELSE delAckEvent - 1
    /\ lastPacket' = IF lastPacket = Never THEN Never ELSE Lesser(lastPacket + 1, MaxGap)
    /\ lastUpdate' = Lesser(lastUpdate + 1, UpdatePeriod + 1)
    /\ waited' = IF unacked = 0 THEN 0 ELSE Lesser(waited + 1, MaxWait)
    /\ out' = "none"
    /\ UNCHANGED <<rxVars, iat, baseIat, dwnd, cwndVars, ecnVars, unacked,
                   highTxAck, delAckCount, aborted>>

----------------------------------------------------------------------------
\* ESTABLISHED has just been entered: m_delAckCount is m_delAckMaxCount so
\* that the first data segment is answered, nothing has been measured, and
\* the simulation is any number of ticks old.
Init ==
    /\ ooo = {} /\ avail = 0 /\ edge = RcvBuf
    /\ unacked = 0 /\ highTxAck = 0 /\ waited = 0 /\ out = "none"
    /\ delAckCount = DelAckMaxCount /\ delAckEvent = Never
    /\ lastPacket = Never /\ lastUpdate \in 0..(UpdatePeriod + 1)
    /\ iat = Infinity /\ baseIat = Infinity
    /\ dwnd = 3 * Scale
    /\ rcvCwnd = 0 /\ cwndDiff = 0
    /\ ecnState = IF EcnCapable THEN "IDLE" ELSE "DISABLED"
    /\ ecnCESeq = -1 /\ echoAhead = FALSE /\ inFlight = FALSE
    /\ aborted = FALSE

\* Flags a peer can set: CE and CWR need ECN.
Flag == IF EcnCapable THEN BOOLEAN ELSE {FALSE}

ReceivedData ==
    \E ce \in Flag, cwr \in Flag :
        \/ \E s \in -1..RcvBuf : ReceivedDuplicate(s, ce, cwr)
        \/ \E s \in 1..RcvBuf : ReceivedOutOfOrder(s, ce, cwr)
        \/ \E k \in 1..RcvBuf : ReceivedGapSegment(k, ce, cwr)
        \/ ReceivedWindowFull(ce, cwr)
        \/ ReceivedDelayed(ce, cwr)

Next ==
    \/ ReceivedData
    \/ \E s \in -2..RcvBuf : ForwardUpOutOfRange(s)
    \/ SendDataPacket
    \/ \E ece \in Flag : ReceivedAck(ece)
    \/ DelAckTimeout
    \/ Recv
    \/ Tick

Spec == Init /\ [][Next]_vars

\* The simulator always advances to the next event, and runs a due event.
FairSpec == Spec /\ WF_vars(Tick) /\ WF_vars(DelAckTimeout)

----------------------------------------------------------------------------
(***************************************************************************)
(* Properties.                                                             *)
(***************************************************************************)

\* Type invariant: every member keeps to the values its C++ type and the
\* code's use of it allow; a measured base is never below the threshold.
TypeOK ==
    /\ ooo \subseteq 1..RcvBuf /\ avail \in 0..RcvBuf /\ edge \in 0..RcvBuf
    /\ unacked \in Nat /\ highTxAck \in 0..MaxLag /\ waited \in Nat
    /\ delAckCount \in Nat /\ delAckEvent \in {Never} \cup 0..DelAckTime
    /\ lastPacket \in {Never} \cup 0..MaxGap
    /\ lastUpdate \in 0..(UpdatePeriod + 1)
    /\ iat \in {Infinity} \cup 0..MaxGap
    /\ baseIat \in {Infinity} \cup IatThreshold..MaxGap
    /\ dwnd \in Nat /\ rcvCwnd \in {0} \cup CwndValues /\ cwndDiff \in {-1, 0, 1}
    /\ ecnState \in EcnStates /\ ecnCESeq \in -3..RcvBuf
    /\ echoAhead \in BOOLEAN /\ inFlight \in BOOLEAN /\ aborted \in BOOLEAN
    /\ out \in {"none", "ACK", "ACK|ECE", "DATA"}

\* No ACK is forgotten: while in-sequence data is not acknowledged the
\* delayed-ACK timer is running, whatever cancelled or replaced it before;
\* and it never runs for nothing (ReceivedData, SendEmptyPacket,
\* SendDataPacket all cancel m_delAckEvent).
NoForgottenAck == ~aborted => (unacked > 0 <=> delAckEvent # Never)

\* The delay is bounded.  The classic timer is started by the first
\* unacknowledged segment and never moved; AAD and ADW restart it with every
\* segment, so only the silence since the last one is bounded by DelAckTimeout,
\* and the first one waits at most that long per unacknowledged segment.
AckLatency ==
    (unacked > 0 /\ ~aborted) =>
        /\ ~Adaptive => waited + delAckEvent = DelAckTime
        /\ lastPacket # Never /\ lastPacket + delAckEvent <= DelAckTime
        /\ waited + delAckEvent <= unacked * DelAckTime

\* The assertion of AdvertisedWindowSize, and what it rests on: with a peer
\* that keeps to the window offered, neither the bytes waiting for the
\* application nor the ones beyond a gap leave the receive buffer.
WindowRespected ==
    /\ RcvBuf - avail >= 0
    /\ edge <= RcvBuf - avail
    /\ \A o \in ooo : o < edge

\* The cap that the buffer and the 16-bit window put on m_dwnd.
WindowCap == Lesser(RcvBuf * SegSize, MaxWinSize) * Scale

\* How many segments wait for one ACK: fewer than DelAckCount in the classic
\* policy, and in ADW fewer than the delay window holds, which itself stays
\* within lambda segments or what the peer and the buffer allow.
DelayedSegmentsBounded ==
    unacked > 0 =>
        /\ ~Adaptive => unacked < DelAckMaxCount
        /\ AdaptiveDelayWindow =>
             /\ unacked * SegSize * Scale < dwnd
             /\ dwnd <= Greater(BaseWindow, WindowCap)

\* The inductive invariant: the four invariants above it rest on, and how the
\* counter, the history and the window follow the unacknowledged segments.
Bookkeeping ==
    /\ delAckCount >= unacked
    /\ unacked = 0 => waited = 0
    /\ unacked > 0 =>
         /\ lastPacket # Never
         /\ ~Adaptive => delAckCount < DelAckMaxCount
         /\ AdaptiveDelayWindow => delAckCount * SegSize * Scale < dwnd
    /\ lastPacket # Never => dwnd <= Greater(BaseWindow, WindowCap)

IndInv == TypeOK /\ WindowRespected /\ NoForgottenAck /\ AckLatency /\ Bookkeeping

\* A CE mark is not lost: the receiver leaves ECN_CE_RCVD only by sending an
\* ACK with ECE.  (Holds while this socket sends no data: m_ecnState also
\* keeps the sender's half of ECN.)
CeEchoed ==
    [][(ecnState = "CE_RCVD" /\ ecnState' # "CE_RCVD")
            => (ecnState' = "SENDING_ECE" /\ out' = "ACK|ECE")]_vars

\* Every in-sequence segment is acknowledged in the end.
EventuallyAcked == (unacked > 0) ~> (unacked = 0)

\* A segment whose inter-arrival time the base takes into account.
Measures == lastPacket # Never /\ lastPacket >= IatThreshold /\ lastPacket' = 0

\* The base follows the traffic: when from some moment on no inter-arrival
\* time below x is measured, and x itself again and again, then m_baseIat
\* never falls below x again and comes back to x for ever.  So AAD forgets a
\* base that has become too small (the reset in ReceivedData, at most once a
\* second and only when a segment is measured), and a base that a reset set
\* too high yields to the next smaller inter-arrival time.
BaseIatTracks ==
    \A x \in IatThreshold..MaxGap :
        (/\ <>[][Measures => lastPacket >= x]_vars
         /\ []<><<Measures /\ lastPacket = x>>_vars)
            => /\ <>[](baseIat # Infinity /\ baseIat >= x)
               /\ []<>(baseIat = x)
=============================================================================
