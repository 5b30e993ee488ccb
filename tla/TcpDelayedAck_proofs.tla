------------------------ MODULE TcpDelayedAck_proofs ------------------------
(***************************************************************************)
(* Proofs about TcpDelayedAck, for every value of its constants.           *)
(***************************************************************************)
EXTENDS TcpDelayedAck, TLAPS

----------------------------------------------------------------------------
(* Arithmetic the policy functions need.                                   *)

\* Products of naturals are naturals and multiplication is monotone.
LEMMA TimesNat == \A a, b \in Nat : a * b \in Nat
  OBVIOUS

\* Multiplication by a natural keeps the order.
LEMMA TimesMonotone == \A a, b, c \in Nat : a <= b => a * c <= b * c
  OBVIOUS

\* A quotient of a natural by a positive natural is a natural.
LEMMA QuotientNat == \A a \in Nat, b \in Nat \ {0} : a \div b \in Nat
  OBVIOUS

\* BaseWindow, lambda segments in the unit of m_dwnd, is a natural.
LEMMA BaseWindowNat == BaseWindow \in Nat /\ Scale \in Nat
  BY ScaleAssumption, SizeAssumption, ParameterAssumption, TimesNat DEF BaseWindow

\* 1 - theta is a natural multiple of 1/Scale for any inter-arrival times.
LEMMA ComplementNat ==
    ASSUME NEW i \in {Infinity} \cup Nat,
           NEW b \in {Infinity} \cup (Nat \ {0})
    PROVE  TimeRatioComplement(i, b) \in Nat
  <1>1. CASE i # Infinity /\ b # Infinity
    <2>1. Scale * i \in Nat /\ Lambda * b \in Nat \ {0}
      BY <1>1, ScaleAssumption, ParameterAssumption, TimesNat
    <2> QED  BY <2>1, QuotientNat, ScaleAssumption DEF TimeRatioComplement
  <1>2. CASE i = Infinity \/ b = Infinity
    BY <1>2, ScaleAssumption DEF TimeRatioComplement
  <1> QED  BY <1>1, <1>2

\* UpdateDelayWindow keeps m_dwnd a natural, and below lambda segments, the
\* window the receive buffer can advertise, or its old value.
LEMMA UpdateDelayWindowBounded ==
    ASSUME NEW i \in {Infinity} \cup Nat,
           NEW b \in {Infinity} \cup (Nat \ {0}),
           NEW cwnd \in Nat, NEW diff \in {-1, 0, 1},
           dwnd \in Nat, avail \in 0..RcvBuf
    PROVE  /\ UpdateDelayWindow(i, b, cwnd, diff) \in Nat
           /\ UpdateDelayWindow(i, b, cwnd, diff) <= Greater(BaseWindow, WindowCap)
                \/ UpdateDelayWindow(i, b, cwnd, diff) = dwnd
  <1> DEFINE grown == dwnd + TimeRatioComplement(i, b) * SegSize
             limit == Lesser(cwnd, AdvertisedWindowSize) * Scale
  <1>1. grown \in Nat
    BY ComplementNat, TimesNat, SizeAssumption
  <1>2. AdvertisedWindowSize \in Nat
        /\ AdvertisedWindowSize <= Lesser(RcvBuf * SegSize, MaxWinSize)
    <2>1. RcvBuf - avail \in Nat /\ RcvBuf - avail <= RcvBuf
      BY SizeAssumption
    <2>2. (RcvBuf - avail) * SegSize \in Nat
          /\ (RcvBuf - avail) * SegSize <= RcvBuf * SegSize
      BY <2>1, TimesNat, TimesMonotone, SizeAssumption
    <2>3. RcvBuf * SegSize \in Nat
      BY TimesNat, SizeAssumption
    <2> QED  BY <2>2, <2>3, SizeAssumption DEF AdvertisedWindowSize, Lesser
  <1>3. limit \in Nat /\ limit <= WindowCap /\ WindowCap \in Nat
    <2>1. Lesser(cwnd, AdvertisedWindowSize) \in Nat
          /\ Lesser(cwnd, AdvertisedWindowSize) <= Lesser(RcvBuf * SegSize, MaxWinSize)
      BY <1>2, TimesNat, SizeAssumption DEF Lesser
    <2>2. Lesser(RcvBuf * SegSize, MaxWinSize) \in Nat
      BY TimesNat, SizeAssumption DEF Lesser
    <2> QED  BY <2>1, <2>2, BaseWindowNat, TimesNat, TimesMonotone DEF WindowCap
  <1> HIDE DEF grown, limit
  <1>4. CASE diff > 0
    <2>1. UpdateDelayWindow(i, b, cwnd, diff) = Lesser(grown, limit)
      BY <1>4 DEF UpdateDelayWindow, grown, limit
    <2> QED  BY <2>1, <1>1, <1>3, BaseWindowNat DEF Lesser, Greater
  <1>5. CASE diff < 0
    <2>1. UpdateDelayWindow(i, b, cwnd, diff) = BaseWindow
      BY <1>5 DEF UpdateDelayWindow
    <2> QED  BY <2>1, <1>3, BaseWindowNat DEF Greater
  <1>6. CASE diff = 0
    BY <1>6 DEF UpdateDelayWindow
  <1> QED  BY <1>4, <1>5, <1>6

\* A delay never exceeds DelAckTimeout, and without a policy it is exactly that.
LEMMA DelayBounded ==
    ASSUME NEW count \in Nat,
           NEW i \in {Infinity} \cup Nat,
           NEW b \in {Infinity} \cup Nat,
           NEW d \in GetDelayTimeout(count, i, b)
    PROVE  /\ d \in Int /\ d <= DelAckTime
           /\ ~Adaptive => d = DelAckTime
  <1>1. CASE ~Adaptive \/ (AggregationAwareDelay /\ count < DelAckMaxCount)
    <2>1. GetDelayTimeout(count, i, b) = {DelAckTime}
      BY <1>1 DEF GetDelayTimeout, Adaptive
    <2> QED  BY <2>1, SizeAssumption
  <1>2. CASE ~(~Adaptive \/ (AggregationAwareDelay /\ count < DelAckMaxCount))
    <2> DEFINE parameter == IF AdaptiveDelayWindow THEN Lambda ELSE Beta
               smoothed  == AlphaNum * b + (AlphaDen - AlphaNum) * i
    <2>1. CASE i = Infinity \/ b = Infinity
      <3>1. GetDelayTimeout(count, i, b)
              = {Lesser(e, DelAckTime) : e \in SecondsOfInfinity}
        BY <1>2, <2>1 DEF GetDelayTimeout
      <3> QED  BY <3>1, <1>2, ParameterAssumption, SizeAssumption DEF Lesser
    <2>2. CASE ~(i = Infinity \/ b = Infinity)
      <3>1. GetDelayTimeout(count, i, b)
              = {Lesser((parameter * smoothed) \div AlphaDen, DelAckTime)}
        BY <1>2, <2>2 DEF GetDelayTimeout
      <3>2. smoothed \in Nat
        BY <2>2, ParameterAssumption, TimesNat
      <3>3. parameter \in Nat
        BY ParameterAssumption
      <3>4. (parameter * smoothed) \div AlphaDen \in Nat
        <4> HIDE DEF parameter, smoothed
        <4> QED  BY <3>2, <3>3, TimesNat, QuotientNat, ParameterAssumption
      <3> HIDE DEF parameter, smoothed
      <3> QED  BY <3>1, <3>4, <1>2, SizeAssumption DEF Lesser
    <2> QED  BY <2>1, <2>2
  <1> QED  BY <1>1, <1>2

----------------------------------------------------------------------------
(* The steps a data segment shares.                                        *)

\* The opening of ReceivedData keeps its members typed, and the window it
\* leaves is bounded.
LEMMA DataSegmentTypes ==
    ASSUME TypeOK, WindowRespected, Bookkeeping,
           NEW s \in -1..RcvBuf, NEW ce \in BOOLEAN, NEW k \in 0..RcvBuf,
           DataSegment(s, ce, k)
    PROVE  /\ lastPacket' = 0 /\ lastUpdate' \in 0..(UpdatePeriod + 1)
           /\ iat' \in {Infinity} \cup 0..MaxGap
           /\ baseIat' \in {Infinity} \cup IatThreshold..MaxGap
           /\ rcvCwnd' \in {0} \cup CwndValues /\ cwndDiff' \in {-1, 0, 1}
           /\ ecnCESeq' \in -3..RcvBuf
           /\ echoAhead' \in BOOLEAN /\ inFlight' \in BOOLEAN
           /\ MeasuredWindow \in Nat
           /\ MeasuredWindow <= Greater(BaseWindow, WindowCap)
  <1>1. /\ lastPacket' = 0 /\ lastUpdate' \in 0..(UpdatePeriod + 1)
        /\ iat' \in {Infinity} \cup 0..MaxGap
        /\ baseIat' \in {Infinity} \cup IatThreshold..MaxGap
    BY SizeAssumption, ParameterAssumption DEF TypeOK, DataSegment, MeasureIat, Lesser
  <1>2. rcvCwnd' \in {0} \cup CwndValues /\ cwndDiff' \in {-1, 0, 1}
    BY SizeAssumption DEF TypeOK, DataSegment, ProcessOptionCongestionWindow, cwndVars, Sign
  <1>3. ecnCESeq' \in -3..RcvBuf
    BY SizeAssumption DEF TypeOK, DataSegment, Greater
  <1>4. echoAhead' \in BOOLEAN /\ inFlight' \in BOOLEAN
    BY DEF TypeOK, DataSegment
  <1>5. /\ MeasuredWindow \in Nat
        /\ MeasuredWindow <= Greater(BaseWindow, WindowCap)
    <2>0. WindowCap \in Nat
      BY BaseWindowNat, TimesNat, SizeAssumption DEF WindowCap, Lesser
    <2>1. CASE lastPacket = Never
      BY <2>0, <2>1, BaseWindowNat DEF MeasuredWindow, Greater
    <2>2. CASE lastPacket # Never /\ lastPacket < IatThreshold
      BY <2>0, <2>2 DEF MeasuredWindow, TypeOK, Bookkeeping
    <2>3. CASE lastPacket # Never /\ ~(lastPacket < IatThreshold)
      <3>1. iat' \in {Infinity} \cup Nat /\ baseIat' \in {Infinity} \cup (Nat \ {0})
        BY <1>1, SizeAssumption
      <3>2. rcvCwnd' \in Nat
        BY <1>2, SizeAssumption
      <3>3. MeasuredWindow = UpdateDelayWindow(iat', baseIat', rcvCwnd', cwndDiff')
        BY <2>3 DEF MeasuredWindow
      <3>4. dwnd \in Nat /\ avail \in 0..RcvBuf /\ dwnd <= Greater(BaseWindow, WindowCap)
        BY <2>3 DEF TypeOK, Bookkeeping
      <3> QED  BY <3>1, <3>2, <3>3, <3>4, <1>2, UpdateDelayWindowBounded
    <2> QED  BY <2>1, <2>2, <2>3
  <1> QED  BY <1>1, <1>2, <1>3, <1>4, <1>5

\* The ECN state a data segment leaves is one of the six.
LEMMA EcnStateTypes ==
    ASSUME TypeOK, NEW s \in Int, NEW ce \in BOOLEAN, NEW cwr \in BOOLEAN
    PROVE  EcnStateAfter(s, ce, cwr) \in EcnStates
  BY DEF TypeOK, EcnStateAfter, EcnStates

\* The room an ACK advertises.
LEMMA RoomLeft ==
    \A a \in 0..RcvBuf : /\ RcvBuf - a \in 0..RcvBuf
                          /\ RcvBuf - a >= 0 /\ RcvBuf - a <= RcvBuf - a
  BY SizeAssumption

\* After an ACK nothing is owed: whatever the sender of the ACK left in the
\* window, the history and the buffer, the invariant holds again.
LEMMA AckRestores ==
    ASSUME NEW segment \in {"ACK", "ACK|ECE", "DATA"},
           AckSent(segment),
           avail' \in 0..RcvBuf, ooo' \subseteq 1..RcvBuf,
           \A o \in ooo' : o < RcvBuf - avail',
           highTxAck' \in 0..MaxLag,
           lastPacket' \in {Never} \cup 0..MaxGap,
           lastUpdate' \in 0..(UpdatePeriod + 1),
           iat' \in {Infinity} \cup 0..MaxGap,
           baseIat' \in {Infinity} \cup IatThreshold..MaxGap,
           rcvCwnd' \in {0} \cup CwndValues, cwndDiff' \in {-1, 0, 1},
           ecnState' \in EcnStates, ecnCESeq' \in -3..RcvBuf,
           echoAhead' \in BOOLEAN, inFlight' \in BOOLEAN, aborted' \in BOOLEAN,
           dwnd' \in Nat, lastPacket' # Never => dwnd' <= Greater(BaseWindow, WindowCap)
    PROVE  IndInv'
  <1>1. /\ delAckEvent' = Never /\ delAckCount' = 0 /\ unacked' = 0 /\ waited' = 0
        /\ edge' = RcvBuf - avail' /\ out' = segment
    BY DEF AckSent
  <1>2. edge' \in 0..RcvBuf /\ RcvBuf - avail' >= 0 /\ edge' <= RcvBuf - avail'
    BY <1>1, RoomLeft, Zenon
  <1>3. TypeOK'
    <2>1. unacked' \in Nat /\ delAckCount' \in Nat /\ waited' \in Nat
      BY <1>1
    <2>2. delAckEvent' \in {Never} \cup 0..DelAckTime
      BY <1>1
    <2>3. out' \in {"none", "ACK", "ACK|ECE", "DATA"}
      BY <1>1
    <2> QED  BY <1>2, <2>1, <2>2, <2>3, Zenon DEF TypeOK, EcnStates
  <1>5. WindowRespected'
    BY <1>1, <1>2, Zenon DEF WindowRespected
  <1>4. NoForgottenAck' /\ AckLatency' /\ Bookkeeping'
    BY <1>1 DEF NoForgottenAck, AckLatency, Bookkeeping, BaseWindow, WindowCap
  <1> QED  BY <1>3, <1>4, <1>5 DEF IndInv

----------------------------------------------------------------------------
(* The invariant, action by action.                                        *)

\* It holds when ESTABLISHED is entered.
LEMMA InitInv == Init => IndInv
  <1> SUFFICES ASSUME Init PROVE IndInv
    OBVIOUS
  <1>1. dwnd \in Nat
    BY ScaleAssumption DEF Init
  <1>2. TypeOK
    <2>1. /\ ooo \subseteq 1..RcvBuf /\ avail \in 0..RcvBuf /\ edge \in 0..RcvBuf
          /\ unacked \in Nat /\ highTxAck \in 0..MaxLag /\ waited \in Nat
          /\ delAckCount \in Nat /\ lastUpdate \in 0..(UpdatePeriod + 1)
          /\ cwndDiff \in {-1, 0, 1} /\ ecnCESeq \in -3..RcvBuf
      BY SizeAssumption DEF Init
    <2>2. /\ delAckEvent \in {Never} /\ lastPacket \in {Never}
          /\ iat \in {Infinity} /\ baseIat \in {Infinity} /\ rcvCwnd \in {0}
          /\ echoAhead \in BOOLEAN /\ inFlight \in BOOLEAN /\ aborted \in BOOLEAN
          /\ out \in {"none", "ACK", "ACK|ECE", "DATA"} /\ ecnState \in EcnStates
      BY DEF Init, EcnStates
    <2> QED  BY <1>1, <2>1, <2>2 DEF TypeOK
  <1>3. WindowRespected
    BY SizeAssumption DEF Init, WindowRespected
  <1>4. NoForgottenAck /\ AckLatency /\ Bookkeeping
    BY SizeAssumption DEF Init, NoForgottenAck, AckLatency, Bookkeeping
  <1> QED  BY <1>2, <1>3, <1>4 DEF IndInv

\* What the window invariant gives for a segment the peer may send.
LEMMA WindowFacts ==
    ASSUME TypeOK, WindowRespected
    PROVE  \A o \in ooo : o \in 1..RcvBuf /\ o < RcvBuf - avail
  BY SizeAssumption DEF TypeOK, WindowRespected

\* The ACK that IsValidTcpSegment sends for an out-of-window segment.
LEMMA OutOfRangeInv ==
    ASSUME IndInv, NEW s \in -2..RcvBuf, ForwardUpOutOfRange(s) PROVE IndInv'
  <1>1. TypeOK /\ WindowRespected /\ Bookkeeping
    BY DEF IndInv
  <1>2. /\ UNCHANGED <<ooo, avail, lastPacket, lastUpdate, iat, baseIat, dwnd, rcvCwnd,
                       cwndDiff, ecnState, ecnCESeq, echoAhead, inFlight, aborted>>
        /\ AckSent("ACK") /\ highTxAck' = 0
    BY DEF ForwardUpOutOfRange, iatVars, cwndVars, ecnVars
  <1>3. \A o \in ooo' : o < RcvBuf - avail'
    BY <1>1, <1>2, WindowFacts
  <1>4. highTxAck' \in 0..MaxLag
    BY <1>2, SizeAssumption
  <1>5. dwnd' \in Nat /\ (lastPacket' # Never => dwnd' <= Greater(BaseWindow, WindowCap))
    BY <1>1, <1>2 DEF TypeOK, Bookkeeping
  <1> QED  BY <1>1, <1>2, <1>3, <1>4, <1>5, AckRestores, Zenon DEF TypeOK

\* The ACK that rides on a data segment.
LEMMA SendDataPacketInv == ASSUME IndInv, SendDataPacket PROVE IndInv'
  <1>1. TypeOK /\ WindowRespected /\ Bookkeeping
    BY DEF IndInv
  <1>2. /\ UNCHANGED <<ooo, avail, lastPacket, lastUpdate, iat, baseIat, dwnd, rcvCwnd,
                       cwndDiff, ecnCESeq, highTxAck, aborted>>
        /\ AckSent("DATA") /\ inFlight' = TRUE
    BY DEF SendDataPacket, iatVars, cwndVars
  <1>3. \A o \in ooo' : o < RcvBuf - avail'
    BY <1>1, <1>2, WindowFacts
  <1>4. ecnState' \in EcnStates /\ echoAhead' \in BOOLEAN
    BY <1>1 DEF SendDataPacket, TypeOK, EcnStates
  <1>5. dwnd' \in Nat /\ (lastPacket' # Never => dwnd' <= Greater(BaseWindow, WindowCap))
    BY <1>1, <1>2 DEF TypeOK, Bookkeeping
  <1> QED  BY <1>1, <1>2, <1>3, <1>4, <1>5, AckRestores, Zenon DEF TypeOK

\* The ACK that the timer sends, and the smaller m_dwnd it leaves.
LEMMA DelAckTimeoutInv == ASSUME IndInv, DelAckTimeout PROVE IndInv'
  <1>1. TypeOK /\ WindowRespected /\ Bookkeeping /\ NoForgottenAck
    BY DEF IndInv
  <1>2. /\ UNCHANGED <<ooo, avail, lastPacket, lastUpdate, iat, baseIat, rcvCwnd,
                       cwndDiff, ecnCESeq, echoAhead, inFlight, aborted>>
        /\ SendEmptyPacket(ecnState)
    BY DEF DelAckTimeout, cwndVars
  <1>3. \A o \in ooo' : o < RcvBuf - avail'
    BY <1>1, <1>2, WindowFacts
  <1>4. highTxAck' \in 0..MaxLag
    BY <1>2, SizeAssumption DEF SendEmptyPacket
  <1>5. ecnState' \in EcnStates
    BY <1>1, <1>2 DEF SendEmptyPacket, TypeOK, EcnStates
  <1>6. PICK segment \in {"ACK", "ACK|ECE", "DATA"} : AckSent(segment)
    BY <1>2 DEF SendEmptyPacket
  <1>7. dwnd' \in Nat /\ (lastPacket' # Never => dwnd' <= Greater(BaseWindow, WindowCap))
    <2>1. unacked > 0 /\ lastPacket # Never /\ dwnd <= Greater(BaseWindow, WindowCap)
      BY <1>1, ParameterAssumption DEF DelAckTimeout, NoForgottenAck, Bookkeeping, TypeOK
    <2>2. WindowCap \in Nat
      BY BaseWindowNat, TimesNat, SizeAssumption DEF WindowCap, Lesser
    <2>3. CASE iat # Infinity /\ baseIat = Infinity
      BY <2>2, <2>3, BaseWindowNat DEF DelAckTimeout, Greater
    <2>4. CASE ~(iat # Infinity /\ baseIat = Infinity)
      <3>1. TimeRatioComplement(iat, baseIat) \in Nat
        BY <1>1, ComplementNat, SizeAssumption DEF TypeOK
      <3> QED  BY <2>1, <2>2, <2>4, <3>1, <1>1, BaseWindowNat DEF DelAckTimeout, Greater, TypeOK
    <2> QED  BY <2>3, <2>4
  <1> QED  BY <1>1, <1>2, <1>3, <1>4, <1>5, <1>6, <1>7, AckRestores, Zenon DEF TypeOK

\* The three ways a data segment is acknowledged at once share this: what is
\* left to show is the buffer and the window it leaves.
LEMMA ImmediateAckInv ==
    ASSUME IndInv, NEW s \in -1..RcvBuf, NEW k \in 0..RcvBuf,
           NEW ce \in BOOLEAN, NEW cwr \in BOOLEAN,
           DataSegment(s, ce, k),
           SendEmptyPacket(EcnStateAfter(s, ce, cwr)),
           UNCHANGED aborted,
           avail' \in 0..RcvBuf, ooo' \subseteq 1..RcvBuf,
           \A o \in ooo' : o < RcvBuf - avail',
           dwnd' \in {BaseWindow, MeasuredWindow}
    PROVE  IndInv'
  <1>1. TypeOK /\ WindowRespected /\ Bookkeeping
    BY DEF IndInv
  <1>2. /\ lastPacket' = 0 /\ lastUpdate' \in 0..(UpdatePeriod + 1)
        /\ iat' \in {Infinity} \cup 0..MaxGap
        /\ baseIat' \in {Infinity} \cup IatThreshold..MaxGap
        /\ rcvCwnd' \in {0} \cup CwndValues /\ cwndDiff' \in {-1, 0, 1}
        /\ ecnCESeq' \in -3..RcvBuf
        /\ echoAhead' \in BOOLEAN /\ inFlight' \in BOOLEAN
        /\ MeasuredWindow \in Nat
        /\ MeasuredWindow <= Greater(BaseWindow, WindowCap)
    BY <1>1, DataSegmentTypes
  <1>3. highTxAck' \in 0..MaxLag
    BY SizeAssumption DEF SendEmptyPacket
  <1>4. ecnState' \in EcnStates
    <2>1. EcnStateAfter(s, ce, cwr) \in EcnStates
      BY <1>1, EcnStateTypes
    <2> QED  BY <2>1 DEF SendEmptyPacket, EcnStates
  <1>5. PICK segment \in {"ACK", "ACK|ECE", "DATA"} : AckSent(segment)
    BY DEF SendEmptyPacket
  <1>6. dwnd' \in Nat /\ dwnd' <= Greater(BaseWindow, WindowCap)
    <2>1. BaseWindow \in Nat /\ BaseWindow <= Greater(BaseWindow, WindowCap)
      <3>1. WindowCap \in Nat
        BY BaseWindowNat, TimesNat, SizeAssumption DEF WindowCap, Lesser
      <3> QED  BY <3>1, BaseWindowNat DEF Greater
    <2> QED  BY <2>1, <1>2, Zenon
  <1>7. aborted' \in BOOLEAN /\ lastPacket' \in {Never} \cup 0..MaxGap
    <2>1. 0 \in 0..MaxGap
      BY SizeAssumption
    <2> QED  BY <2>1, <1>1, <1>2, Zenon DEF TypeOK
  <1> QED  BY <1>2, <1>3, <1>4, <1>5, <1>6, <1>7, AckRestores, Zenon

\* A duplicate: nothing is stored and the segment is acknowledged.
LEMMA DuplicateInv ==
    ASSUME IndInv, NEW s \in -1..RcvBuf, NEW ce \in BOOLEAN, NEW cwr \in BOOLEAN,
           ReceivedDuplicate(s, ce, cwr)
    PROVE  IndInv'
  <1>1. TypeOK /\ WindowRespected
    BY DEF IndInv
  <1>2. /\ DataSegment(s, ce, 0) /\ dwnd' = MeasuredWindow
        /\ SendEmptyPacket(EcnStateAfter(s, ce, cwr))
        /\ UNCHANGED <<ooo, avail, aborted>>
    BY DEF ReceivedDuplicate
  <1>3. avail' \in 0..RcvBuf /\ ooo' \subseteq 1..RcvBuf
    BY <1>1, <1>2 DEF TypeOK
  <1>4. \A o \in ooo' : o < RcvBuf - avail'
    BY <1>1, <1>2, WindowFacts
  <1>5. 0 \in 0..RcvBuf
    BY SizeAssumption
  <1> QED  BY <1>2, <1>3, <1>4, <1>5, ImmediateAckInv, Zenon

\* A segment beyond a gap lies inside the window that was offered.
LEMMA OutOfOrderInv ==
    ASSUME IndInv, NEW s \in 1..RcvBuf, NEW ce \in BOOLEAN, NEW cwr \in BOOLEAN,
           ReceivedOutOfOrder(s, ce, cwr)
    PROVE  IndInv'
  <1>1. TypeOK /\ WindowRespected
    BY DEF IndInv
  <1>2. /\ DataSegment(s, ce, 0) /\ dwnd' = BaseWindow
        /\ SendEmptyPacket(EcnStateAfter(s, ce, cwr))
        /\ ooo' = ooo \cup {s} /\ UNCHANGED <<avail, aborted>>
    BY DEF ReceivedOutOfOrder
  <1>3. avail' \in 0..RcvBuf /\ ooo' \subseteq 1..RcvBuf
    BY <1>1, <1>2 DEF TypeOK
  <1>4. s < RcvBuf - avail
    BY <1>1, <1>2, SizeAssumption DEF DataSegment, OutOfRange, TypeOK
  <1>5. \A o \in ooo' : o < RcvBuf - avail'
    BY <1>1, <1>2, <1>4, WindowFacts
  <1>6. 0 \in 0..RcvBuf /\ s \in -1..RcvBuf
    BY SizeAssumption
  <1> QED  BY <1>2, <1>3, <1>5, <1>6, ImmediateAckInv, Zenon

\* What the next segment does to the buffer: the run behind it fits.
LEMMA NextSegmentBuffer ==
    ASSUME TypeOK, WindowRespected, NEW k \in 1..RcvBuf, NEW ce \in BOOLEAN,
           NextSegment(k, ce)
    PROVE  /\ avail + k <= RcvBuf
           /\ \E read \in 0..(avail + k) : avail' = avail + k - read
           /\ ooo' = {o - k : o \in {p \in ooo : p > k}}
           /\ \A o \in ooo' : o \in 1..RcvBuf /\ o < RcvBuf - avail - k
  <1>1. avail \in 0..RcvBuf /\ ooo \subseteq 1..RcvBuf
    BY DEF TypeOK
  <1>2. avail < RcvBuf
    BY <1>1, SizeAssumption DEF NextSegment, DataSegment, OutOfRange
  <1>3. avail + k <= RcvBuf
    <2>1. CASE k = 1
      BY <1>1, <1>2, <2>1, SizeAssumption
    <2>2. CASE k > 1
      <3>1. k - 1 \in ooo
        BY <2>2, SizeAssumption DEF NextSegment
      <3>2. k - 1 < RcvBuf - avail
        BY <3>1, WindowFacts
      <3> QED  BY <1>1, <3>2, SizeAssumption
    <2> QED  BY <2>1, <2>2, SizeAssumption
  <1>5. \E read \in 0..(avail + k) : avail' = avail + k - read
    BY DEF NextSegment
  <1>6. ooo' = {o - k : o \in {p \in ooo : p > k}}
    BY DEF NextSegment
  <1>7. \A o \in ooo' : o \in 1..RcvBuf /\ o < RcvBuf - avail - k
    <2> SUFFICES ASSUME NEW p \in ooo, p > k
                 PROVE  p - k \in 1..RcvBuf /\ p - k < RcvBuf - avail - k
      BY <1>6
    <2>1. p \in 1..RcvBuf /\ p < RcvBuf - avail
      BY WindowFacts
    <2> QED  BY <1>1, <2>1, SizeAssumption
  <1> QED  BY <1>3, <1>5, <1>6, <1>7

\* After the next segment the room left still covers what is out of order.
LEMMA NextSegmentRoom ==
    ASSUME TypeOK, WindowRespected, NEW k \in 1..RcvBuf, NEW ce \in BOOLEAN,
           NextSegment(k, ce)
    PROVE  /\ avail' \in 0..RcvBuf /\ ooo' \subseteq 1..RcvBuf
           /\ \A o \in ooo' : o < RcvBuf - avail'
  <1>1. /\ avail + k <= RcvBuf
        /\ \A o \in ooo' : o \in 1..RcvBuf /\ o < RcvBuf - avail - k
    BY NextSegmentBuffer
  <1>2. PICK read \in 0..(avail + k) : avail' = avail + k - read
    BY NextSegmentBuffer
  <1>3. avail \in 0..RcvBuf
    BY DEF TypeOK
  <1>4. avail' \in 0..RcvBuf
    BY <1>1, <1>2, <1>3, SizeAssumption
  <1>5. \A o \in ooo' : o < RcvBuf - avail'
    BY <1>1, <1>2, <1>3, SizeAssumption
  <1> QED  BY <1>1, <1>4, <1>5, Zenon

\* The next segment when it fills a gap or another gap remains.
LEMMA GapSegmentInv ==
    ASSUME IndInv, NEW k \in 1..RcvBuf, NEW ce \in BOOLEAN, NEW cwr \in BOOLEAN,
           ReceivedGapSegment(k, ce, cwr)
    PROVE  IndInv'
  <1>1. TypeOK /\ WindowRespected
    BY DEF IndInv
  <1>2. /\ NextSegment(k, ce) /\ DataSegment(0, ce, k) /\ dwnd' = BaseWindow
        /\ SendEmptyPacket(EcnStateAfter(0, ce, cwr)) /\ UNCHANGED aborted
    BY DEF ReceivedGapSegment, NextSegment
  <1>3. /\ avail' \in 0..RcvBuf /\ ooo' \subseteq 1..RcvBuf
        /\ \A o \in ooo' : o < RcvBuf - avail'
    BY <1>1, <1>2, NextSegmentRoom, Zenon
  <1>4. 0 \in -1..RcvBuf /\ k \in 0..RcvBuf
    BY SizeAssumption
  <1> QED  BY <1>2, <1>3, <1>4, ImmediateAckInv, Zenon

\* The next segment when it fills the delay window.
LEMMA WindowFullInv ==
    ASSUME IndInv, NEW ce \in BOOLEAN, NEW cwr \in BOOLEAN,
           ReceivedWindowFull(ce, cwr)
    PROVE  IndInv'
  <1>1. TypeOK /\ WindowRespected
    BY DEF IndInv
  <1>2. /\ NextSegment(1, ce) /\ DataSegment(0, ce, 1) /\ dwnd' = MeasuredWindow
        /\ SendEmptyPacket(EcnStateAfter(0, ce, cwr)) /\ UNCHANGED aborted
    BY DEF ReceivedWindowFull, NextSegment
  <1>3. 0 \in -1..RcvBuf /\ 1 \in 0..RcvBuf /\ 1 \in 1..RcvBuf
    BY SizeAssumption
  <1>4. /\ avail' \in 0..RcvBuf /\ ooo' \subseteq 1..RcvBuf
        /\ \A o \in ooo' : o < RcvBuf - avail'
    BY <1>1, <1>2, <1>3, NextSegmentRoom, Zenon
  <1> QED  BY <1>2, <1>3, <1>4, ImmediateAckInv, Zenon

\* The timer a delayed segment leaves: running, within DelAckTimeout, and
\* under the classic policy the one that was running before.
LEMMA DelayedTimer ==
    ASSUME IndInv, NEW ce \in BOOLEAN, NEW cwr \in BOOLEAN,
           ReceivedDelayed(ce, cwr)
    PROVE  \/ /\ aborted' = TRUE /\ delAckEvent' = Never
           \/ /\ aborted' = FALSE
              /\ \E left \in 0..DelAckTime :
                    /\ delAckEvent' = left
                    /\ ~Adaptive => waited + left = DelAckTime
  <1>1. TypeOK /\ NoForgottenAck /\ AckLatency /\ Bookkeeping /\ WindowRespected
    BY DEF IndInv
  <1>2. ~aborted /\ aborted = FALSE
    BY <1>1 DEF ReceivedDelayed, NextSegment, DataSegment, TypeOK
  <1>3. CASE delAckEvent # Never /\ ~Adaptive
    <2>1. unacked > 0 /\ delAckEvent \in 0..DelAckTime
      BY <1>1, <1>2, <1>3 DEF NoForgottenAck, TypeOK
    <2>2. waited + delAckEvent = DelAckTime
      BY <1>1, <1>2, <1>3, <2>1 DEF AckLatency
    <2>3. delAckEvent' = delAckEvent /\ aborted' = aborted
      BY <1>3 DEF ReceivedDelayed
    <2> QED  BY <1>2, <2>1, <2>2, <2>3
  <1>4. CASE ~(delAckEvent # Never /\ ~Adaptive)
    <2>1. PICK delay \in GetDelayTimeout(delAckCount + 1, iat', baseIat') :
            \/ delay < 0 /\ aborted' = TRUE /\ delAckEvent' = Never
            \/ delay >= 0 /\ aborted' = FALSE /\ delAckEvent' = delay
      BY <1>4 DEF ReceivedDelayed, IssueTimeout
    <2>2. iat' \in {Infinity} \cup Nat /\ baseIat' \in {Infinity} \cup Nat
      <3>1. 0 \in -1..RcvBuf /\ 1 \in 0..RcvBuf
        BY SizeAssumption
      <3>2. DataSegment(0, ce, 1)
        BY DEF ReceivedDelayed, NextSegment
      <3>3. /\ iat' \in {Infinity} \cup 0..MaxGap
            /\ baseIat' \in {Infinity} \cup IatThreshold..MaxGap
        BY <1>1, <3>1, <3>2, DataSegmentTypes, Zenon
      <3> QED  BY <3>3, SizeAssumption
    <2>3. delAckCount + 1 \in Nat
      BY <1>1 DEF TypeOK
    <2>4. delay \in Int /\ delay <= DelAckTime /\ (~Adaptive => delay = DelAckTime)
      BY <2>1, <2>2, <2>3, DelayBounded, Zenon
    <2>5. ~Adaptive => waited = 0
      <3>1. ~Adaptive => delAckEvent = Never
        BY <1>4
      <3> QED  BY <1>1, <1>2, <3>1 DEF NoForgottenAck, Bookkeeping, TypeOK
    <2>6. CASE delay < 0 /\ aborted' = TRUE /\ delAckEvent' = Never
      BY <2>6
    <2>7. CASE delay >= 0 /\ aborted' = FALSE /\ delAckEvent' = delay
      <3>1. delay \in 0..DelAckTime /\ (~Adaptive => waited + delay = DelAckTime)
        BY <2>4, <2>5, <2>7, SizeAssumption
      <3> QED  BY <2>7, <3>1, Zenon
    <2> QED  BY <2>1, <2>6, <2>7
  <1> QED  BY <1>3, <1>4

\* The next segment when its ACK is delayed: the only step that adds to
\* unacked, so every part of the invariant is at stake.
LEMMA DelayedInv ==
    ASSUME IndInv, NEW ce \in BOOLEAN, NEW cwr \in BOOLEAN,
           ReceivedDelayed(ce, cwr)
    PROVE  IndInv'
  <1>1. TypeOK /\ WindowRespected /\ NoForgottenAck /\ AckLatency /\ Bookkeeping
    BY DEF IndInv
  <1>2. /\ NextSegment(1, ce) /\ DataSegment(0, ce, 1)
        /\ delAckCount' = delAckCount + 1 /\ unacked' = unacked + 1
        /\ waited' = waited /\ edge' = Greater(edge - 1, 0)
        /\ highTxAck' = Lesser(highTxAck + 1, MaxLag)
        /\ ecnState' = EcnStateAfter(0, ce, cwr) /\ out' = "none" /\ ooo' = {}
    BY DEF ReceivedDelayed, NextSegment, GapFilledOrLeft
  <1>3. 0 \in -1..RcvBuf /\ 1 \in 0..RcvBuf /\ 1 \in 1..RcvBuf
    BY SizeAssumption
  <1>4. /\ lastPacket' = 0 /\ lastUpdate' \in 0..(UpdatePeriod + 1)
        /\ iat' \in {Infinity} \cup 0..MaxGap
        /\ baseIat' \in {Infinity} \cup IatThreshold..MaxGap
        /\ rcvCwnd' \in {0} \cup CwndValues /\ cwndDiff' \in {-1, 0, 1}
        /\ ecnCESeq' \in -3..RcvBuf
        /\ echoAhead' \in BOOLEAN /\ inFlight' \in BOOLEAN
        /\ MeasuredWindow \in Nat
        /\ MeasuredWindow <= Greater(BaseWindow, WindowCap)
    BY <1>1, <1>2, <1>3, DataSegmentTypes, Zenon
  <1>5. PICK w \in Nat : /\ dwnd' = w /\ w <= Greater(BaseWindow, WindowCap)
                         /\ ~DelayWindowReached(delAckCount + 1, w)
    BY <1>4 DEF ReceivedDelayed
  <1>6. PICK read \in 0..(avail + 1) : avail' = avail + 1 - read
    BY <1>1, <1>2, <1>3, NextSegmentBuffer, Zenon
  <1>7. avail + 1 <= RcvBuf /\ avail \in 0..RcvBuf /\ edge \in 0..RcvBuf
    BY <1>1, <1>2, <1>3, NextSegmentBuffer DEF TypeOK
  <1>8. \/ /\ aborted' = TRUE /\ delAckEvent' = Never
        \/ /\ aborted' = FALSE
           /\ \E left \in 0..DelAckTime :
                /\ delAckEvent' = left
                /\ ~Adaptive => waited + left = DelAckTime
    BY DelayedTimer
  <1>9. TypeOK'
    <2>1. /\ ooo' \subseteq 1..RcvBuf /\ avail' \in 0..RcvBuf /\ edge' \in 0..RcvBuf
      BY <1>2, <1>6, <1>7, SizeAssumption DEF Greater
    <2>2. unacked' \in Nat /\ waited' \in Nat /\ delAckCount' \in Nat /\ highTxAck' \in 0..MaxLag
      BY <1>1, <1>2, SizeAssumption DEF TypeOK, Lesser
    <2>3. delAckEvent' \in {Never} \cup 0..DelAckTime /\ aborted' \in BOOLEAN
      BY <1>8, Zenon
    <2>4. lastPacket' \in {Never} \cup 0..MaxGap /\ dwnd' \in Nat
      BY <1>4, <1>5, SizeAssumption
    <2>5. ecnState' \in EcnStates
      BY <1>1, <1>2, <1>3, EcnStateTypes
    <2>6. out' \in {"none", "ACK", "ACK|ECE", "DATA"}
      BY <1>2
    <2> QED  BY <2>1, <2>2, <2>3, <2>4, <2>5, <2>6, <1>4, Zenon DEF TypeOK, EcnStates
  <1>10. WindowRespected'
    <2>1. edge <= RcvBuf - avail
      BY <1>1 DEF WindowRespected
    <2>2. RcvBuf - avail' >= 0 /\ edge' <= RcvBuf - avail'
      BY <1>2, <1>6, <1>7, <2>1, SizeAssumption DEF Greater
    <2> QED  BY <1>2, <2>2, Zenon DEF WindowRespected
  <1>11. NoForgottenAck'
    <2>1. unacked' > 0
      BY <1>1, <1>2 DEF TypeOK
    <2>2. aborted' \/ delAckEvent' # Never
      <3>1. \A left \in 0..DelAckTime : left # Never
        BY ParameterAssumption
      <3> QED  BY <1>8, <3>1, Zenon
    <2> QED  BY <2>1, <2>2, Zenon DEF NoForgottenAck
  <1>12. AckLatency'
    <2>1. CASE aborted' = TRUE
      BY <2>1 DEF AckLatency
    <2>2. CASE aborted' = FALSE
      <3>1. PICK left \in 0..DelAckTime :
              /\ delAckEvent' = left
              /\ ~Adaptive => waited + left = DelAckTime
        BY <1>8, <2>2, Zenon
      <3>2. lastPacket' # Never /\ lastPacket' + delAckEvent' <= DelAckTime
        BY <1>4, <3>1, ParameterAssumption, SizeAssumption
      <3>3. waited <= unacked * DelAckTime
        <4>1. CASE unacked = 0
          BY <4>1, <1>1, SizeAssumption DEF Bookkeeping, TypeOK
        <4>2. CASE unacked > 0
          <5>1. ~aborted
            BY <1>2 DEF DataSegment
          <5>2. delAckEvent \in 0..DelAckTime
            BY <1>1, <4>2, <5>1 DEF NoForgottenAck, TypeOK
          <5>3. waited + delAckEvent <= unacked * DelAckTime
            BY <1>1, <4>2, <5>1 DEF AckLatency
          <5>4. unacked * DelAckTime \in Nat /\ waited \in Nat
            BY <1>1, TimesNat, SizeAssumption DEF TypeOK
          <5> QED  BY <5>2, <5>3, <5>4, SizeAssumption
        <4> QED  BY <4>1, <4>2, <1>1 DEF TypeOK
      <3>4. (unacked + 1) * DelAckTime = unacked * DelAckTime + DelAckTime
            /\ unacked * DelAckTime \in Nat /\ waited \in Nat
        BY <1>1, TimesNat, SizeAssumption DEF TypeOK
      <3>5. waited + left <= (unacked + 1) * DelAckTime
        BY <3>1, <3>3, <3>4, SizeAssumption
      <3>6. waited' + delAckEvent' <= unacked' * DelAckTime
        BY <1>2, <3>1, <3>5
      <3>7. ~Adaptive => waited' + delAckEvent' = DelAckTime
        BY <1>2, <3>1
      <3> QED  BY <3>2, <3>6, <3>7, Zenon DEF AckLatency, Adaptive
    <2> QED  BY <2>1, <2>2, <1>8
  <1>13. Bookkeeping'
    <2>1. delAckCount' >= unacked' /\ ~(unacked' = 0) /\ unacked' > 0
      BY <1>1, <1>2 DEF TypeOK, Bookkeeping
    <2>2. lastPacket' # Never
      BY <1>4, ParameterAssumption
    <2>3. ~Adaptive => delAckCount' < DelAckMaxCount
      BY <1>1, <1>2, <1>5, SizeAssumption DEF DelayWindowReached, Adaptive, TypeOK
    <2>4. AdaptiveDelayWindow => delAckCount' * SegSize * Scale < dwnd'
      <3>1. (delAckCount + 1) * SegSize * Scale \in Nat
        BY <1>1, SizeAssumption, BaseWindowNat, TimesNat DEF TypeOK
      <3>2. AdaptiveDelayWindow => (delAckCount + 1) * SegSize * Scale < w
        BY <1>5, <3>1 DEF DelayWindowReached
      <3> QED  BY <1>2, <1>5, <3>2
    <2>5. dwnd' <= Greater(BaseWindow, WindowCap)
      BY <1>5
    <2> QED  BY <2>1, <2>2, <2>3, <2>4, <2>5, Zenon
             DEF Bookkeeping, Adaptive, BaseWindow, WindowCap, Greater, Lesser
  <1> QED  BY <1>9, <1>10, <1>11, <1>12, <1>13, Zenon DEF IndInv

\* A pure ACK touches the peer's CWND value and the ECN state only.
LEMMA ReceivedAckInv ==
    ASSUME IndInv, NEW ece \in BOOLEAN, ReceivedAck(ece) PROVE IndInv'
  <1>1. /\ UNCHANGED <<ooo, avail, edge, lastPacket, lastUpdate, iat, baseIat, dwnd,
                       ecnCESeq, unacked, highTxAck, delAckCount, delAckEvent,
                       waited, aborted>>
        /\ out' = "none"
    BY DEF ReceivedAck, rxVars, iatVars
  <1>2. rcvCwnd' \in {0} \cup CwndValues /\ cwndDiff' \in {-1, 0, 1}
    BY SizeAssumption DEF IndInv, TypeOK, ReceivedAck, ProcessOptionCongestionWindow, cwndVars, Sign
  <1>3. ecnState' \in EcnStates /\ echoAhead' \in BOOLEAN /\ inFlight' \in BOOLEAN
    BY DEF IndInv, TypeOK, ReceivedAck, EcnStates
  <1>4. TypeOK'
    BY <1>1, <1>2, <1>3, Zenon DEF IndInv, TypeOK, EcnStates
  <1>5. WindowRespected' /\ NoForgottenAck' /\ AckLatency' /\ Bookkeeping'
    BY <1>1, Zenon DEF IndInv, WindowRespected, NoForgottenAck, AckLatency, Bookkeeping,
                   Adaptive, BaseWindow, WindowCap
  <1> QED  BY <1>4, <1>5 DEF IndInv

\* Reading frees room and promises nothing to the peer.
LEMMA RecvInv == ASSUME IndInv, Recv PROVE IndInv'
  <1>1. /\ UNCHANGED <<ooo, edge, lastPacket, lastUpdate, iat, baseIat, dwnd, rcvCwnd,
                       cwndDiff, ecnState, ecnCESeq, echoAhead, inFlight, unacked,
                       highTxAck, delAckCount, delAckEvent, waited, aborted>>
        /\ out' = "none"
    BY DEF Recv, iatVars, cwndVars, ecnVars
  <1>2. PICK read \in 1..avail : avail' = avail - read
    BY DEF Recv
  <1>3. avail \in 0..RcvBuf /\ edge \in 0..RcvBuf /\ edge <= RcvBuf - avail
    BY DEF IndInv, TypeOK, WindowRespected
  <1>4. avail' \in 0..RcvBuf
    BY <1>2, <1>3, SizeAssumption
  <1>5. RcvBuf - avail' >= 0 /\ edge' <= RcvBuf - avail'
    BY <1>1, <1>2, <1>3, SizeAssumption
  <1>6. TypeOK'
    <2>1. TypeOK
      BY DEF IndInv
    <2>2. out' \in {"none", "ACK", "ACK|ECE", "DATA"}
      BY <1>1
    <2> QED  BY <1>1, <1>4, <2>1, <2>2 DEF TypeOK, EcnStates
  <1>7. WindowRespected'
    BY <1>1, <1>5, Zenon DEF IndInv, WindowRespected
  <1>8. NoForgottenAck' /\ AckLatency' /\ Bookkeeping'
    BY <1>1, Zenon DEF IndInv, NoForgottenAck, AckLatency, Bookkeeping, Adaptive,
                   BaseWindow, WindowCap
  <1> QED  BY <1>6, <1>7, <1>8 DEF IndInv

\* A tick moves the clocks of AckLatency against each other by one.
LEMMA TickInv == ASSUME IndInv, Tick PROVE IndInv'
  <1>1. /\ UNCHANGED <<ooo, avail, edge, iat, baseIat, dwnd, rcvCwnd, cwndDiff, ecnState,
                       ecnCESeq, echoAhead, inFlight, unacked, highTxAck, delAckCount,
                       aborted>>
        /\ out' = "none" /\ ~aborted
    BY DEF Tick, rxVars, cwndVars, ecnVars
  <1>2. TypeOK /\ WindowRespected /\ NoForgottenAck /\ AckLatency /\ Bookkeeping
    BY DEF IndInv
  <1>3. lastUpdate' \in 0..(UpdatePeriod + 1)
    BY <1>2, SizeAssumption DEF Tick, TypeOK, Lesser
  <1>4. WindowRespected'
    BY <1>1, <1>2, Zenon DEF WindowRespected
  <1>5. CASE unacked = 0
    <2>1. delAckEvent = Never
      BY <1>1, <1>2, <1>5 DEF NoForgottenAck
    <2>2. delAckEvent' = Never /\ waited' = 0
      BY <1>5, <2>1 DEF Tick
    <2>3. lastPacket' \in {Never} \cup 0..MaxGap
      BY <1>2, SizeAssumption DEF Tick, TypeOK, Lesser
    <2>4. lastPacket' # Never => lastPacket # Never
      BY DEF Tick
    <2>5. TypeOK'
      BY <1>1, <1>2, <1>3, <2>2, <2>3 DEF TypeOK, EcnStates
    <2>6. NoForgottenAck' /\ AckLatency'
      BY <1>1, <1>5, <2>2 DEF NoForgottenAck, AckLatency
    <2>7. Bookkeeping'
      BY <1>1, <1>2, <1>5, <2>2, <2>4 DEF Bookkeeping, BaseWindow, WindowCap
    <2> QED  BY <1>4, <2>5, <2>6, <2>7 DEF IndInv
  <1>6. CASE unacked > 0
    <2>1. delAckEvent \in 1..DelAckTime /\ lastPacket \in 0..MaxGap
      BY <1>1, <1>2, <1>6, SizeAssumption DEF Tick, NoForgottenAck, Bookkeeping, TypeOK
    <2>2. PICK left \in 0..DelAckTime : delAckEvent' = left /\ left = delAckEvent - 1
      <3>1. delAckEvent # Never
        BY <2>1, ParameterAssumption
      <3> QED  BY <2>1, <3>1, SizeAssumption DEF Tick
    <2>3. PICK gap \in 0..MaxGap : lastPacket' = gap /\ gap <= lastPacket + 1
      <3>1. lastPacket # Never
        BY <2>1, ParameterAssumption
      <3> QED  BY <2>1, <3>1, SizeAssumption DEF Tick, Lesser
    <2>4. waited \in Nat /\ unacked \in Nat
      BY <1>2 DEF TypeOK
    <2>w. PICK w \in Nat : waited' = w /\ w = Lesser(waited + 1, MaxWait)
      BY <1>6, <2>4, SizeAssumption DEF Tick, Lesser
    <2>5. TypeOK'
      <3>1. waited' \in Nat
        BY <2>w
      <3>2. delAckEvent' \in {Never} \cup 0..DelAckTime /\ lastPacket' \in {Never} \cup 0..MaxGap
        BY <2>2, <2>3
      <3> QED  BY <1>1, <1>2, <1>3, <3>1, <3>2, Zenon DEF TypeOK, EcnStates
    <2>6. delAckEvent' # Never /\ lastPacket' # Never
      BY <2>2, <2>3, ParameterAssumption
    <2>7. NoForgottenAck'
      BY <1>1, <1>6, <2>6, Zenon DEF NoForgottenAck
    <2>8. AckLatency'
      <3>1. lastPacket' + delAckEvent' <= DelAckTime
        <4>1. lastPacket + delAckEvent <= DelAckTime
          BY <1>1, <1>2, <1>6 DEF AckLatency
        <4> QED  BY <2>1, <2>2, <2>3, <4>1, SizeAssumption
      <3>2. waited' + delAckEvent' <= unacked * DelAckTime
        <4>1. waited + delAckEvent <= unacked * DelAckTime /\ unacked * DelAckTime \in Nat
          BY <1>1, <1>2, <1>6, <2>4, TimesNat, SizeAssumption DEF AckLatency
        <4> QED  BY <2>1, <2>2, <2>4, <2>w, <4>1, SizeAssumption DEF Lesser
      <3>3. ~Adaptive => waited' + delAckEvent' = DelAckTime
        <4>1. ~Adaptive => waited + delAckEvent = DelAckTime
          BY <1>1, <1>2, <1>6 DEF AckLatency
        <4> QED  BY <2>1, <2>2, <2>4, <2>w, <4>1, SizeAssumption DEF Lesser
      <3> QED  BY <1>1, <2>6, <3>1, <3>2, <3>3, Zenon DEF AckLatency, Adaptive
    <2>9. Bookkeeping'
      <3>1. ~(unacked' = 0)
        BY <1>1, <1>6, <2>4
      <3> QED  BY <1>1, <1>2, <1>6, <2>6, <3>1, Zenon
               DEF Bookkeeping, Adaptive, BaseWindow, WindowCap
    <2> QED  BY <1>4, <2>5, <2>7, <2>8, <2>9, Zenon DEF IndInv
  <1> QED  BY <1>2, <1>5, <1>6 DEF TypeOK

\* Every step keeps the inductive invariant.
LEMMA StepInv == IndInv /\ [Next]_vars => IndInv'
  <1> SUFFICES ASSUME IndInv, [Next]_vars PROVE IndInv'
    OBVIOUS
  <1>0. Flag \subseteq BOOLEAN
    BY DEF Flag
  <1>1. CASE ReceivedData
    <2>1. PICK ce \in BOOLEAN, cwr \in BOOLEAN :
            \/ \E s \in -1..RcvBuf : ReceivedDuplicate(s, ce, cwr)
            \/ \E s \in 1..RcvBuf : ReceivedOutOfOrder(s, ce, cwr)
            \/ \E k \in 1..RcvBuf : ReceivedGapSegment(k, ce, cwr)
            \/ ReceivedWindowFull(ce, cwr)
            \/ ReceivedDelayed(ce, cwr)
      BY <1>0, <1>1, Zenon DEF ReceivedData
    <2> QED  BY <2>1, DuplicateInv, OutOfOrderInv, GapSegmentInv, WindowFullInv,
                DelayedInv, Zenon
  <1>2. CASE \E s \in -2..RcvBuf : ForwardUpOutOfRange(s)
    BY <1>2, OutOfRangeInv
  <1>3. CASE SendDataPacket
    BY <1>3, SendDataPacketInv
  <1>4. CASE \E ece \in Flag : ReceivedAck(ece)
    BY <1>0, <1>4, ReceivedAckInv
  <1>5. CASE DelAckTimeout
    BY <1>5, DelAckTimeoutInv
  <1>6. CASE Recv
    BY <1>6, RecvInv
  <1>7. CASE Tick
    BY <1>7, TickInv
  <1>8. CASE UNCHANGED vars
    BY <1>8 DEF vars, rxVars, iatVars, cwndVars, ecnVars, ackVars, IndInv, TypeOK,
                WindowRespected, NoForgottenAck, AckLatency, Bookkeeping, Adaptive,
                BaseWindow, WindowCap, EcnStates
  <1> QED  BY <1>1, <1>2, <1>3, <1>4, <1>5, <1>6, <1>7, <1>8 DEF Next

----------------------------------------------------------------------------
(* The theorems.                                                           *)

\* IndInv holds in every reachable state.
THEOREM Invariance == Spec => []IndInv
  BY InitInv, StepInv, PTL DEF Spec

\* Type correctness, for every value of the constants.
THEOREM TypeCorrect == Spec => []TypeOK
  <1>1. IndInv => TypeOK
    BY DEF IndInv
  <1> QED  BY <1>1, Invariance, PTL

\* While in-sequence data is unacknowledged the delayed-ACK timer runs, under
\* each of the three policies and whatever cancelled or replaced it.
THEOREM AckNeverForgotten == Spec => []NoForgottenAck
  <1>1. IndInv => NoForgottenAck
    BY DEF IndInv
  <1> QED  BY <1>1, Invariance, PTL

\* How long an ACK may be delayed, under each of the three policies.
THEOREM AckLatencyBounded == Spec => []AckLatency
  <1>1. IndInv => AckLatency
    BY DEF IndInv
  <1> QED  BY <1>1, Invariance, PTL

\* The assertion of AdvertisedWindowSize holds against a peer that keeps to
\* the window it was offered.
THEOREM ReceiveWindowSafe == Spec => []WindowRespected
  <1>1. IndInv => WindowRespected
    BY DEF IndInv
  <1> QED  BY <1>1, Invariance, PTL

\* How many segments one delayed ACK may cover.
THEOREM DelayedSegments == Spec => []DelayedSegmentsBounded
  <1>1. IndInv => DelayedSegmentsBounded
    <2> SUFFICES ASSUME IndInv, unacked > 0
                 PROVE  /\ ~Adaptive => unacked < DelAckMaxCount
                        /\ AdaptiveDelayWindow =>
                             /\ unacked * SegSize * Scale < dwnd
                             /\ dwnd <= Greater(BaseWindow, WindowCap)
      BY DEF DelayedSegmentsBounded
    <2>1. unacked \in Nat /\ delAckCount \in Nat /\ unacked <= delAckCount /\ dwnd \in Nat
      BY DEF IndInv, TypeOK, Bookkeeping
    <2>2. ~Adaptive => unacked < DelAckMaxCount
      BY <2>1, SizeAssumption DEF IndInv, Bookkeeping
    <2>3. dwnd <= Greater(BaseWindow, WindowCap)
      BY DEF IndInv, Bookkeeping
    <2>4. AdaptiveDelayWindow => unacked * SegSize * Scale < dwnd
      <3>1. unacked * SegSize \in Nat /\ delAckCount * SegSize \in Nat
            /\ unacked * SegSize <= delAckCount * SegSize
        BY <2>1, SizeAssumption, TimesNat, TimesMonotone
      <3>2. unacked * SegSize * Scale \in Nat /\ delAckCount * SegSize * Scale \in Nat
            /\ unacked * SegSize * Scale <= delAckCount * SegSize * Scale
        BY <3>1, BaseWindowNat, TimesNat, TimesMonotone
      <3>3. AdaptiveDelayWindow => delAckCount * SegSize * Scale < dwnd
        BY DEF IndInv, Bookkeeping
      <3> QED  BY <2>1, <3>2, <3>3
    <2> QED  BY <2>2, <2>3, <2>4
  <1> QED  BY <1>1, Invariance, PTL

----------------------------------------------------------------------------
(* Action properties.                                                      *)

\* On a socket that only receives, a CE mark stays pending until an ACK with
\* ECE has been sent: no CWR, no bare ACK and no later segment clears it.
THEOREM MarkEchoed == ASSUME ~Bidirectional PROVE Spec => CeEchoed
  <1> DEFINE A == (ecnState = "CE_RCVD" /\ ecnState' # "CE_RCVD")
                    => (ecnState' = "SENDING_ECE" /\ out' = "ACK|ECE")
  <1>1. Init => ~inFlight
    BY DEF Init
  <1>2. ~inFlight /\ [Next]_vars => ~inFlight'
    BY DEF Next, ReceivedData, ReceivedDuplicate, ReceivedOutOfOrder, ReceivedGapSegment,
           ReceivedWindowFull, ReceivedDelayed, NextSegment, DataSegment,
           ForwardUpOutOfRange, SendDataPacket, ReceivedAck, DelAckTimeout, Recv, Tick,
           ecnVars, vars
  <1>3. ~inFlight /\ [Next]_vars => [A]_vars
    <2> SUFFICES ASSUME ~inFlight, Next, ecnState = "CE_RCVD", ecnState' # "CE_RCVD"
                 PROVE  ecnState' = "SENDING_ECE" /\ out' = "ACK|ECE"
      OBVIOUS
    <2>1. \A s, ce, cwr : EcnStateAfter(s, ce, cwr) = "CE_RCVD"
      BY DEF EcnStateAfter
    <2>2. SendEmptyPacket("CE_RCVD")
      <3>1. CASE ReceivedData
        BY <2>1, <3>1, Zenon DEF ReceivedData, ReceivedDuplicate, ReceivedOutOfOrder,
                          ReceivedGapSegment, ReceivedWindowFull, ReceivedDelayed
      <3>2. CASE DelAckTimeout
        BY <3>2 DEF DelAckTimeout
      <3>3. CASE ~ReceivedData /\ ~DelAckTimeout
        BY <3>3 DEF Next, ForwardUpOutOfRange, SendDataPacket, ReceivedAck, Recv, Tick, ecnVars
      <3> QED  BY <3>1, <3>2, <3>3
    <2> QED  BY <2>2 DEF SendEmptyPacket, AckSent
  <1> QED  BY <1>1, <1>2, <1>3, PTL DEF CeEchoed, Spec
=============================================================================
