----------------------- MODULE TcpSenderWindow_proofs -----------------------
(***************************************************************************)
(* Proofs about the windows of TcpSender with TcpClassicRecovery, for the  *)
(* default slow start threshold (the largest unsigned number) as for any   *)
(* other of at least a segment: every field keeps its type, and as soon as *)
(* a reduction has set the threshold no window wraps and the congestion    *)
(* window holds a segment.  What TcpSender_proofs shows then holds with    *)
(* no hypothesis about types, and the windows matter to it only while the  *)
(* threshold is still the initial one.                                     *)
(***************************************************************************)
EXTENDS TcpSender_proofs

\* Every socket is given TcpClassicRecovery.
Classic == Recoveries \subseteq {"Classic"}

Span(n) == SegSize * n

\* No reduced threshold is larger, and no window from a reduced threshold on
\* before any ACK has let it grow.
Base == Span(InitialCwnd) + Span(NumSegs + 2)

\* The unsigned type has room for all that the data can add to a window.  The
\* default threshold is Word - 1.
Ample ==
    /\ SegSize <= InitialSsThresh /\ InitialSsThresh < Word
    /\ Base + 3 * Span(NumSegs) < Word

\* Segments the peer has reported, cumulatively or by SACK: an ACK that moves
\* a window reports at least one more.
Heard(s) == s.una + Cardinality(s.sacked)

\* The duplicate ACKs that inflate the window on entering recovery.
Extra(s) == IF s.congState \in {"RECOVERY", "CWR"} THEN Span(NumSegs) ELSE 0

Failures == {"none", "CerlAckSeen", "DupAckCount", "DisorderCount", "EmptySegment",
             "RtoFlight", "RtoInFlight"}

\* The slow start threshold is the initial one or a reduced one.
Threshold(t) ==
    /\ t \in Int /\ SegSize <= t /\ t < Word
    /\ t <= Base \/ t = InitialSsThresh

\* The fields that Typed leaves open, but for the windows.
Frame(s) ==
    /\ Threshold(s.ssThresh)
    /\ s.recover \in 0..NumSegs /\ s.recovery \in Recoveries
    /\ s.bytesInFlight \in Bytes /\ s.recoveryFlight \in Bytes
    /\ s.retries \in 0..DataRetries /\ s.ackSeen \in BOOLEAN
    /\ s.oldCwnd \in (-Word)..(Word - 1) /\ s.maxSentSeq \in 0..NumSegs
    /\ s.prrDelivered \in 0..(Word - 1) /\ s.prrOut \in 0..(Word - 1)
    /\ s.build \in Builds /\ s.failed \in Failures

\* With a reduced threshold the congestion window holds a segment and is at
\* most b; with another it is any unsigned number.
Cwnd(s, b) ==
    /\ s.cwnd \in Int /\ 0 <= s.cwnd /\ s.cwnd < Word
    /\ s.ssThresh <= Base => SegSize <= s.cwnd /\ s.cwnd <= b

Win(s, b) ==
    /\ Cwnd(s, b)
    /\ s.cwndInfl \in Int /\ 0 <= s.cwndInfl /\ s.cwndInfl < Word
    /\ s.ssThresh <= Base => s.cwndInfl <= b

Count(s, h) == 0 <= s.dupAckCount /\ s.dupAckCount <= h

Fit(s, b) == Frame(s) /\ Win(s, b)

\* With a reduced threshold every report has let the windows grow by two
\* segments at most.
Bounded(s) == Fit(s, Base + 2 * Span(Heard(s)) + Extra(s)) /\ Count(s, Heard(s))

Windows ==
    /\ Bounded(snd)
    /\ snd = [x \in Fields |-> snd[x]]
    /\ acks \subseteq [ack : 0..NumSegs, sack : SUBSET Segs]

----------------------------------------------------------------------------
(* Arithmetic.                                                             *)

LEMMA SpanFacts ==
    /\ SegSize \in Nat /\ 2 <= SegSize /\ NumSegs \in Nat
    /\ Span(0) = 0 /\ Span(1) = SegSize /\ Span(2) = 2 * SegSize
  <1>1. SegSize \in Nat /\ 2 <= SegSize /\ NumSegs \in Nat
    BY SenderAssumption
  <1> QED  BY <1>1 DEF Span

LEMMA SpanSum ==
    ASSUME NEW m \in Int, NEW n \in Int
    PROVE  Span(m + n) = Span(m) + Span(n) /\ Span(m) \in Int /\ Span(n) \in Int
  BY SpanFacts DEF Span

LEMMA SpanOrder ==
    ASSUME NEW m \in Int, NEW n \in Int, m <= n
    PROVE  Span(m) <= Span(n)
  <1>1. \A p \in Nat : \A t \in Nat : p * t >= 0
    OBVIOUS
  <1> DEFINE t == n - m
  <1>2. t \in Nat /\ m + t = n
    OBVIOUS
  <1> HIDE DEF t
  <1>3. Span(n) = Span(m) + Span(t) /\ Span(t) \in Int /\ Span(m) \in Int
    <2>1. t \in Int
      BY <1>2
    <2>2. Span(m + t) = Span(m) + Span(t) /\ Span(t) \in Int /\ Span(m) \in Int
      BY <2>1, SpanSum
    <2> QED  BY <1>2, <2>2, Zenon
  <1>4. Span(t) >= 0
    BY <1>1, <1>2, SpanFacts DEF Span
  <1> QED  BY <1>3, <1>4

LEMMA BaseFacts ==
    ASSUME Ample
    PROVE  /\ Base \in Int /\ Base < Word /\ Word \in Nat /\ Threshold(InitialSsThresh)
           /\ Span(InitialCwnd) \in Int /\ SegSize <= Span(InitialCwnd)
           /\ Span(InitialCwnd) <= Base
           /\ Span(NumSegs) \in Int /\ 0 <= Span(NumSegs)
           /\ Span(NumSegs) + 2 * SegSize <= Base
           /\ Base + 3 * Span(NumSegs) < Word
  <1>1. /\ InitialCwnd \in Int /\ 1 <= InitialCwnd /\ InitialSsThresh \in Nat
        /\ Word \in Nat /\ NumSegs \in Int /\ 0 <= NumSegs
    BY SenderAssumption
  <1>2. /\ Span(InitialCwnd) \in Int /\ SegSize <= Span(InitialCwnd)
        /\ Span(NumSegs) \in Int /\ 0 <= Span(NumSegs)
        /\ Span(NumSegs + 2) = Span(NumSegs) + 2 * SegSize
    <2>1. Span(1) <= Span(InitialCwnd) /\ Span(0) <= Span(NumSegs)
      BY <1>1, SpanOrder
    <2>2. Span(NumSegs + 2) = Span(NumSegs) + Span(2) /\ Span(NumSegs) \in Int
      BY <1>1, SpanSum
    <2>3. Span(InitialCwnd) \in Int
      BY <1>1, SpanSum
    <2> QED  BY <2>1, <2>2, <2>3, SpanFacts
  <1> QED  BY <1>1, <1>2, SpanFacts DEF Base, Ample, Threshold

\* Unsigned addition.
LEMMA AddFacts ==
    ASSUME NEW c \in Int, 0 <= c, NEW g \in Int, 0 <= g
    PROVE  LET w == (c + g) % Word IN
           w \in Int /\ 0 <= w /\ w < Word /\ (c + g < Word => w = c + g)
  <1> DEFINE x == c + g
             w == x % Word
  <1>1. x \in Int /\ 0 <= x /\ Word \in Nat /\ Word > 0
    BY SenderAssumption
  <1> HIDE DEF x
  <1>2. w \in Int /\ 0 <= w /\ w < Word /\ (x < Word => w = x)
    BY <1>1
  <1> QED  BY <1>2 DEF x

LEMMA DivFacts ==
    ASSUME NEW c \in Int, SegSize <= c
    PROVE  LET d == (SegSize * SegSize) \div c IN d \in Int /\ 0 <= d /\ d <= SegSize
  <1> DEFINE a == SegSize * SegSize
             d == a \div c
  <1>1. SegSize \in Nat /\ 2 <= SegSize
    BY SenderAssumption
  <1>2. a \in Nat
    BY <1>1
  <1> HIDE DEF a
  <1>3. d \in Int /\ 0 <= d /\ c * d <= a
    BY <1>1, <1>2
  <1> HIDE DEF d
  <1>4. d <= SegSize
    <2> SUFFICES ASSUME d >= SegSize + 1 PROVE FALSE
      BY <1>1, <1>3
    <2>1. \A p \in Nat : \A t \in Nat : p * t >= 0
      OBVIOUS
    <2> DEFINE x == c - SegSize
               y == d - SegSize - 1
    <2>2. x \in Nat /\ y \in Nat /\ c = SegSize + x /\ d = SegSize + 1 + y
      BY <1>1, <1>3
    <2> HIDE DEF x, y
    <2>3. c * d = a + SegSize + SegSize * y + x * SegSize + x + x * y
      BY <1>1, <2>2 DEF a
    <2>4. SegSize * y >= 0 /\ x * SegSize >= 0 /\ x * y >= 0
      BY <1>1, <2>1, <2>2
    <2>5. SegSize * y \in Int /\ x * SegSize \in Int /\ x * y \in Int
      BY <1>1, <2>2
    <2> QED  BY <1>1, <1>2, <1>3, <2>2, <2>3, <2>4, <2>5
  <1> QED  BY <1>3, <1>4 DEF a, d

\* What GetSsThresh computes is at least two segments and well below the limit.
LEMMA HalfFacts ==
    ASSUME Ample, NEW f \in Bytes
    PROVE  /\ HalfFlight(f) \in Int /\ SegSize <= HalfFlight(f)
           /\ HalfFlight(f) <= Base /\ Threshold(HalfFlight(f))
  <1> DEFINE h == f \div 2
             p == 2 * SegSize
  <1>1. f \in Int /\ 0 <= f /\ f <= 2 * Span(NumSegs)
    <2>1. 2 * SegSize * NumSegs = 2 * Span(NumSegs)
      BY SenderAssumption DEF Span
    <2> QED  BY <2>1, BaseFacts DEF Bytes
  <1>2. h \in Int /\ 0 <= h /\ h <= Span(NumSegs)
    BY <1>1, BaseFacts
  <1>3. p \in Int
    BY SpanFacts
  <1> HIDE DEF h, p
  <1>4. HalfFlight(f) = IF p >= h THEN p ELSE h
    BY <1>2, <1>3, PairFacts DEF HalfFlight, p, h
  <1>5. 0 <= p /\ Span(NumSegs) + p <= Base /\ Span(NumSegs) \in Int /\ Base \in Int
        /\ 0 <= Span(NumSegs)
    BY BaseFacts, SpanFacts DEF p
  <1>6. HalfFlight(f) \in Int /\ p <= HalfFlight(f) /\ HalfFlight(f) <= Base
    BY <1>2, <1>3, <1>4, <1>5
  <1> QED  BY <1>6, SpanFacts, BaseFacts DEF p, Threshold

\* What is in flight is never negative, and at most everything sent twice.
LEMMA FlightBytes ==
    ASSUME NEW s, Typed(s), Board(s)
    PROVE  BytesInFlight(s) \in Bytes
  <1> DEFINE k == Cardinality(s.sacked)
             l == Cardinality(s.lost)
             m == Cardinality(s.retrans)
             n == (s.nxt - s.una) - k - l + m
  <1>1. /\ s.una \in Int /\ s.nxt \in Int /\ 0 <= s.una /\ s.una <= s.nxt /\ s.nxt <= NumSegs
        /\ NumSegs \in Nat
    BY SenderAssumption DEF Typed, Board
  <1>2. /\ s.sacked \subseteq Sent(s) /\ s.lost \subseteq Sent(s) /\ s.retrans \subseteq Sent(s)
        /\ s.lost \cap s.sacked = {}
    BY DEF Board
  <1>3. /\ IsFiniteSet(s.lost) /\ IsFiniteSet(s.sacked) /\ IsFiniteSet(Sent(s))
        /\ k \in Nat /\ l \in Nat /\ m \in Nat
    BY <1>2, SentFinite
  <1>4. Cardinality(Sent(s)) = s.nxt - s.una
    <2>1. Cardinality(Sent(s)) = IF s.una >= s.nxt THEN 0 ELSE s.nxt - s.una
      BY <1>1, IntervalCount DEF Sent
    <2> QED  BY <1>1, <2>1
  <1>5. m <= s.nxt - s.una
    BY <1>2, <1>3, <1>4, FS_Subset
  <1>6. l + k <= s.nxt - s.una
    <2>1. Cardinality(s.lost \cup s.sacked) = l + k - Cardinality(s.lost \cap s.sacked)
      BY <1>3, FS_Union
    <2>2. Cardinality(s.lost \cap s.sacked) = 0
      BY <1>2, FS_EmptySet
    <2>3. s.lost \cup s.sacked \subseteq Sent(s)
      BY <1>2
    <2>4. Cardinality(s.lost \cup s.sacked) <= Cardinality(Sent(s))
      BY <1>3, <2>3, FS_Subset
    <2> HIDE DEF k, l
    <2> QED  BY <1>1, <1>3, <1>4, <2>1, <2>2, <2>4
  <1>7. BytesInFlight(s) = Span(n)
    BY FlightFacts DEF Span
  <1> HIDE DEF k, l, m
  <1>8. n \in Int /\ 0 <= n /\ n <= NumSegs + NumSegs
    BY <1>1, <1>3, <1>5, <1>6
  <1> HIDE DEF n
  <1>9. Span(0) <= Span(n) /\ Span(n) <= Span(NumSegs + NumSegs)
    BY <1>1, <1>8, SpanOrder
  <1> DEFINE w == 2 * SegSize * NumSegs
  <1>10. Span(NumSegs + NumSegs) = w /\ w \in Int /\ Span(n) \in Int
    BY <1>8, SenderAssumption DEF Span
  <1> HIDE DEF w
  <1>11. Span(n) \in 0..w
    BY <1>9, <1>10, SpanFacts
  <1> QED  BY <1>7, <1>11 DEF Bytes, w

\* The peer cannot report more than there is.
LEMMA HeardBound ==
    ASSUME NEW s, Typed(s), Board(s)
    PROVE  Heard(s) \in Nat /\ Heard(s) <= NumSegs
  <1> DEFINE k == Cardinality(s.sacked)
  <1>1. /\ s.una \in Int /\ s.nxt \in Int /\ 0 <= s.una /\ s.una <= s.nxt /\ s.nxt <= NumSegs
        /\ NumSegs \in Nat
    BY SenderAssumption DEF Typed, Board
  <1>2. s.sacked \subseteq Sent(s)
    BY DEF Board
  <1>3. IsFiniteSet(Sent(s)) /\ k \in Nat
    BY <1>2, SentFinite
  <1>4. Cardinality(Sent(s)) = IF s.una >= s.nxt THEN 0 ELSE s.nxt - s.una
    BY <1>1, IntervalCount DEF Sent
  <1>5. k <= Cardinality(Sent(s))
    BY <1>2, <1>3, FS_Subset
  <1> HIDE DEF k
  <1>6. k <= s.nxt - s.una
    BY <1>1, <1>3, <1>4, <1>5
  <1> QED  BY <1>1, <1>3, <1>6 DEF Heard, k

----------------------------------------------------------------------------
(* The operators of the windows.                                           *)

FrameKept(q, s) ==
    /\ q.ssThresh = s.ssThresh /\ q.recover = s.recover /\ q.recovery = s.recovery
    /\ q.bytesInFlight = s.bytesInFlight /\ q.recoveryFlight = s.recoveryFlight
    /\ q.retries = s.retries /\ q.ackSeen = s.ackSeen /\ q.oldCwnd = s.oldCwnd
    /\ q.maxSentSeq = s.maxSentSeq /\ q.prrDelivered = s.prrDelivered /\ q.prrOut = s.prrOut
    /\ q.build = s.build /\ q.failed = s.failed

LEMMA KeptFrame ==
    ASSUME NEW q, NEW s, Frame(s), FrameKept(q, s)
    PROVE  Frame(q)
  BY DEF Frame, FrameKept

LEMMA KeptTrans ==
    ASSUME NEW p, NEW q, NEW s, FrameKept(p, q), FrameKept(q, s)
    PROVE  FrameKept(p, s)
  BY DEF FrameKept

LEMMA WinWider ==
    ASSUME NEW s, NEW b \in Int, NEW c \in Int, b <= c, Win(s, b)
    PROVE  Win(s, c)
  BY DEF Win, Cwnd

LEMMA WinKept ==
    ASSUME NEW q, NEW s, NEW b, Win(s, b), q.cwnd = s.cwnd, q.cwndInfl = s.cwndInfl,
           q.ssThresh = s.ssThresh
    PROVE  Win(q, b)
  BY DEF Win, Cwnd

\* The window grows by at most n.
LEMMA CwndGrows ==
    ASSUME NEW s, NEW b \in Int, Win(s, b), NEW n \in Int, b + n < Word,
           NEW g \in Int, 0 <= g, g <= n, Base \in Int, s.ssThresh \in Int,
           NEW q, FrameKept(q, s), q.cwnd = (s.cwnd + g) % Word, q.cwndInfl = s.cwndInfl
    PROVE  Win(q, b + n)
  <1> DEFINE w == (s.cwnd + g) % Word
  <1>1. /\ s.cwnd \in Int /\ 0 <= s.cwnd /\ s.cwndInfl \in Int /\ 0 <= s.cwndInfl
        /\ s.cwndInfl < Word
        /\ s.ssThresh <= Base => SegSize <= s.cwnd /\ s.cwnd <= b /\ s.cwndInfl <= b
    BY DEF Win, Cwnd
  <1>2. w \in Int /\ 0 <= w /\ w < Word /\ (s.cwnd + g < Word => w = s.cwnd + g)
    BY <1>1, AddFacts
  <1> HIDE DEF w
  <1>3. q.ssThresh = s.ssThresh /\ q.cwnd = w
    BY DEF FrameKept, w
  <1>4. ASSUME s.ssThresh <= Base PROVE SegSize <= w /\ w <= b + n
    <2>1. SegSize <= s.cwnd /\ s.cwnd <= b
      BY <1>1, <1>4
    <2>2. w = s.cwnd + g
      BY <1>1, <1>2, <2>1, SenderAssumption
    <2> QED  BY <1>1, <2>1, <2>2, SpanFacts
  <1> QED  BY <1>1, <1>2, <1>3, <1>4 DEF Win, Cwnd

LEMMA SlowWin ==
    ASSUME Ample, NEW s, DOMAIN s = Fields, Frame(s), NEW b \in Int, Win(s, b),
           b + SegSize < Word
    PROVE  LET q == SlowStart(s) IN
           DOMAIN q = Fields /\ FrameKept(q, s) /\ Win(q, b + SegSize)
  <1> DEFINE q == SlowStart(s)
             w == (s.cwnd + SegSize) % Word
  <1>1. q = [s EXCEPT !.cwnd = w]
    BY DEF SlowStart
  <1> HIDE DEF w
  <1>2. DOMAIN q = Fields /\ FrameKept(q, s) /\ q.cwnd = w /\ q.cwndInfl = s.cwndInfl
    BY <1>1 DEF FrameKept, Fields
  <1> HIDE DEF q
  <1>3. SegSize \in Int /\ 0 <= SegSize /\ Base \in Int /\ s.ssThresh \in Int
    BY SpanFacts, BaseFacts DEF Frame, Threshold
  <1>4. Win(q, b + SegSize)
    BY <1>2, <1>3, CwndGrows DEF w
  <1> QED  BY <1>2, <1>4 DEF q

\* The division by m_cWnd is by at least the threshold.
LEMMA AvoidanceWin ==
    ASSUME Ample, NEW s, DOMAIN s = Fields, Frame(s), s.cwnd >= s.ssThresh,
           NEW b \in Int, Win(s, b), b + SegSize < Word
    PROVE  LET q == CongestionAvoidance(s) IN
           DOMAIN q = Fields /\ FrameKept(q, s) /\ Win(q, b + SegSize)
  <1> DEFINE q == CongestionAvoidance(s)
             d == (SegSize * SegSize) \div s.cwnd
             g == Max({1, d})
             w == (s.cwnd + g) % Word
  <1>1. s.cwnd \in Int /\ SegSize <= s.cwnd
    BY SpanFacts DEF Win, Cwnd, Frame, Threshold
  <1>2. d \in Int /\ 0 <= d /\ d <= SegSize
    BY <1>1, DivFacts
  <1>3. q = [s EXCEPT !.cwnd = w]
    BY DEF CongestionAvoidance
  <1> HIDE DEF d
  <1>4. g \in Int /\ 1 <= g /\ g <= SegSize
    <2>1. g = IF 1 >= d THEN 1 ELSE d
      BY <1>2, PairFacts
    <2> HIDE DEF g
    <2> QED  BY <1>2, <2>1, SpanFacts
  <1> HIDE DEF g, w
  <1>5. DOMAIN q = Fields /\ FrameKept(q, s) /\ q.cwnd = w /\ q.cwndInfl = s.cwndInfl
    BY <1>3 DEF FrameKept, Fields
  <1> HIDE DEF q
  <1>6. SegSize \in Int /\ 0 <= g /\ Base \in Int /\ s.ssThresh \in Int
    BY <1>4, SpanFacts, BaseFacts DEF Frame, Threshold
  <1>7. Win(q, b + SegSize)
    BY <1>4, <1>5, <1>6, CwndGrows DEF w
  <1> QED  BY <1>5, <1>7 DEF q

LEMMA IncreaseWin ==
    ASSUME Ample, NEW s, DOMAIN s = Fields, Frame(s), NEW b \in Int, Win(s, b),
           b + 2 * SegSize < Word, NEW n
    PROVE  LET q == IncreaseWindow(s, n) IN
           DOMAIN q = Fields /\ FrameKept(q, s) /\ Win(q, b + 2 * SegSize)
  <1> DEFINE slow == s.cwnd < s.ssThresh /\ n >= 1
             t == SlowStart(s)
             m == IF slow THEN t ELSE s
             k == IF s.cwnd < s.ssThresh THEN Max({0, n - 1}) ELSE n
             q == IncreaseWindow(s, n)
             c == b + SegSize
             e == b + 2 * SegSize
  <1>1. c \in Int /\ e \in Int /\ b <= c /\ c <= e /\ c < Word /\ c + SegSize = e
    BY SpanFacts, SenderAssumption
  <1>2. q = IF m.cwnd >= m.ssThresh /\ k > 0 THEN CongestionAvoidance(m) ELSE m
    BY DEF IncreaseWindow
  <1>3. DOMAIN t = Fields /\ FrameKept(t, s) /\ Win(t, c)
    BY <1>1, SlowWin
  <1>4. FrameKept(s, s) /\ Win(s, c)
    BY <1>1, WinWider DEF FrameKept
  <1> HIDE DEF t, slow, k, c, e
  <1>5. DOMAIN m = Fields /\ FrameKept(m, s) /\ Win(m, c)
    BY <1>3, <1>4
  <1> HIDE DEF m
  <1>6. Frame(m)
    BY <1>5, KeptFrame
  <1>7. CASE m.cwnd >= m.ssThresh /\ k > 0
    <2>1. q = CongestionAvoidance(m)
      BY <1>2, <1>7
    <2>2. c + SegSize < Word
      BY <1>1 DEF e
    <2>3. DOMAIN q = Fields /\ FrameKept(q, m) /\ Win(q, c + SegSize)
      BY <1>1, <1>5, <1>6, <1>7, <2>1, <2>2, AvoidanceWin
    <2>4. FrameKept(q, s)
      BY <1>5, <2>3, KeptTrans
    <2>5. Win(q, e)
      BY <1>1, <2>3, Zenon
    <2> HIDE DEF q
    <2> QED  BY <2>3, <2>4, <2>5 DEF q, e
  <1>8. CASE ~(m.cwnd >= m.ssThresh /\ k > 0)
    <2>1. q = m
      BY <1>2, <1>8
    <2>2. Win(m, e)
      BY <1>1, <1>5, WinWider
    <2> HIDE DEF q
    <2> QED  BY <1>5, <2>1, <2>2 DEF q, e
  <1> QED  BY <1>7, <1>8

\* TcpClassicRecovery::DoRecovery inflates the window by a segment.
LEMMA DoRecoveryWin ==
    ASSUME Classic, Ample, NEW s, DOMAIN s = Fields, Frame(s), NEW b \in Int, Win(s, b),
           b + SegSize < Word, NEW d, NEW r
    PROVE  LET q == DoRecovery(s, d, r) IN FrameKept(q, s) /\ Win(q, b + SegSize)
  <1> DEFINE q == DoRecovery(s, d, r)
             w == (s.cwndInfl + SegSize) % Word
  <1>1. /\ s.cwndInfl \in Int /\ 0 <= s.cwndInfl /\ s.recovery # "PRR"
        /\ s.ssThresh <= Base => s.cwndInfl <= b
    BY DEF Win, Classic, Frame
  <1>2. SegSize \in Int /\ 0 <= SegSize /\ Word \in Int
    BY SpanFacts, BaseFacts
  <1>3. w \in Int /\ 0 <= w /\ w < Word /\ (s.cwndInfl + SegSize < Word => w = s.cwndInfl + SegSize)
    BY <1>1, <1>2, AddFacts
  <1>4. q = [s EXCEPT !.cwnd = w, !.cwndInfl = w]
    BY <1>1 DEF DoRecovery
  <1> HIDE DEF w
  <1>5. FrameKept(q, s) /\ q.cwnd = w /\ q.cwndInfl = w
    BY <1>4 DEF FrameKept, Fields
  <1> HIDE DEF q
  <1>6. ASSUME s.ssThresh <= Base PROVE SegSize <= w /\ w <= b + SegSize
    BY <1>1, <1>2, <1>3, <1>6
  <1>7. Win(q, b + SegSize)
    BY <1>3, <1>5, <1>6 DEF Win, Cwnd, FrameKept
  <1> QED  BY <1>5, <1>7 DEF q

\* EnterRecovery inflates it by a segment for every duplicate ACK.
LEMMA EnterWin ==
    ASSUME Classic, Ample, NEW s, DOMAIN s = Fields, Frame(s), NEW b \in Int, Cwnd(s, b),
           s.dupAckCount \in Int, Count(s, NumSegs), b + Span(NumSegs) < Word, NEW d, NEW r
    PROVE  LET q == RecoveryOpsEnter(s, d, r) IN FrameKept(q, s) /\ Win(q, b + Span(NumSegs))
  <1> DEFINE q == RecoveryOpsEnter(s, d, r)
             g == s.dupAckCount * SegSize
             w == (s.cwnd + g) % Word
  <1>1. /\ s.cwnd \in Int /\ 0 <= s.cwnd /\ s.recovery # "PRR"
        /\ s.ssThresh <= Base => SegSize <= s.cwnd /\ s.cwnd <= b
    BY DEF Cwnd, Classic, Frame
  <1>2. g \in Int /\ 0 <= g /\ g <= Span(NumSegs)
    <2>1. 0 <= s.dupAckCount /\ s.dupAckCount <= NumSegs /\ NumSegs \in Int
      BY SpanFacts DEF Count
    <2>2. Span(0) <= Span(s.dupAckCount) /\ Span(s.dupAckCount) <= Span(NumSegs)
      BY <2>1, SpanOrder
    <2>3. g = Span(s.dupAckCount) /\ g \in Int
      BY SpanFacts DEF Span
    <2> QED  BY <2>2, <2>3, SpanFacts
  <1>3. q = [s EXCEPT !.cwnd = w, !.cwndInfl = w]
    BY <1>1 DEF RecoveryOpsEnter
  <1> HIDE DEF g
  <1>4. w \in Int /\ 0 <= w /\ w < Word /\ (s.cwnd + g < Word => w = s.cwnd + g)
    BY <1>1, <1>2, AddFacts
  <1> HIDE DEF w
  <1>5. FrameKept(q, s) /\ q.cwnd = w /\ q.cwndInfl = w
    BY <1>3 DEF FrameKept, Fields
  <1> HIDE DEF q
  <1>6. ASSUME s.ssThresh <= Base PROVE SegSize <= w /\ w <= b + Span(NumSegs)
    <2>1. SegSize <= s.cwnd /\ s.cwnd <= b /\ Span(NumSegs) \in Int /\ Word \in Int
          /\ SegSize \in Int
      BY <1>1, <1>6, BaseFacts, SpanFacts
    <2>2. w = s.cwnd + g
      BY <1>1, <1>2, <1>4, <2>1
    <2> QED  BY <1>1, <1>2, <2>1, <2>2
  <1>7. Win(q, b + Span(NumSegs))
    BY <1>4, <1>5, <1>6 DEF Win, Cwnd, FrameKept
  <1> QED  BY <1>5, <1>7 DEF q

\* ExitRecovery leaves the slow start threshold for a window.
LEMMA ExitWin ==
    ASSUME Classic, Ample, NEW s, DOMAIN s = Fields, Frame(s)
    PROVE  LET q == RecoveryOpsExit(s) IN FrameKept(q, s) /\ Win(q, Base)
  <1> DEFINE q == RecoveryOpsExit(s)
  <1>1. /\ s.recovery # "PRR" /\ s.ssThresh \in Int /\ SegSize <= s.ssThresh
        /\ s.ssThresh < Word
    BY DEF Classic, Frame, Threshold
  <1>2. q = [s EXCEPT !.cwnd = s.ssThresh, !.cwndInfl = s.ssThresh]
    BY <1>1 DEF RecoveryOpsExit
  <1>3. FrameKept(q, s) /\ q.cwnd = s.ssThresh /\ q.cwndInfl = s.ssThresh
    BY <1>2 DEF FrameKept, Fields
  <1> HIDE DEF q
  <1>4. Win(q, Base)
    BY <1>1, <1>3, SpanFacts DEF Win, Cwnd, FrameKept
  <1> QED  BY <1>3, <1>4 DEF q

LEMMA CerlExitFrame ==
    ASSUME NEW s, DOMAIN s = Fields, Frame(s)
    PROVE  LET q == CerlExitRecovery(s) IN DOMAIN q = Fields /\ Frame(q)
  <1> DEFINE q == CerlExitRecovery(s)
  <1>1. /\ DOMAIN q = Fields /\ q.ssThresh = s.ssThresh /\ q.recover = s.recover
        /\ q.recovery = s.recovery /\ q.bytesInFlight = s.bytesInFlight
        /\ q.recoveryFlight = s.recoveryFlight /\ q.retries = s.retries
        /\ q.ackSeen = s.ackSeen /\ q.oldCwnd \in {s.oldCwnd, None}
        /\ q.maxSentSeq = s.maxSentSeq /\ q.prrDelivered = s.prrDelivered /\ q.prrOut = s.prrOut
        /\ q.build = s.build /\ q.failed = s.failed
    BY DEF CerlExitRecovery, Fields
  <1>2. None \in (-Word)..(Word - 1)
    BY SenderAssumption DEF None
  <1> HIDE DEF q
  <1>3. Frame(q)
    BY <1>1, <1>2 DEF Frame
  <1> QED  BY <1>1, <1>3 DEF q

\* Only the congestion window: RecoveryOpsEnter then sets the inflated one.
LEMMA CerlEnterWin ==
    ASSUME Ample, NEW s, Typed(s), Board(s), Frame(s), NEW b \in Int, Base <= b, b < Word,
           Win(s, b), NEW c
    PROVE  LET q == CerlEnterRecovery(s, c) IN Frame(q) /\ Cwnd(q, b)
  <1> DEFINE q == CerlEnterRecovery(s, c)
             h == HalfFlight(s.bytesInFlight)
             o == Signed(s.cwnd)
  <1>1. DOMAIN s = Fields /\ s.nxt \in 0..NumSegs /\ s.bytesInFlight \in Bytes
    BY SpanFacts DEF Typed, Board, Frame
  <1>2. h \in Int /\ SegSize <= h /\ h <= Base /\ Threshold(h)
    BY <1>1, HalfFacts
  <1>3. o \in (-Word)..(Word - 1)
    BY SpanFacts, SenderAssumption DEF Win, Cwnd, Signed
  <1>4. q = IF s.una > s.maxSentSeq /\ c
            THEN [s EXCEPT !.ssThresh = h, !.maxSentSeq = s.nxt, !.cwnd = h]
            ELSE [s EXCEPT !.oldCwnd = o]
    BY DEF CerlEnterRecovery
  <1> HIDE DEF h, o
  <1>5. /\ q.recover = s.recover /\ q.recovery = s.recovery
        /\ q.bytesInFlight = s.bytesInFlight /\ q.recoveryFlight = s.recoveryFlight
        /\ q.retries = s.retries /\ q.ackSeen = s.ackSeen
        /\ q.prrDelivered = s.prrDelivered /\ q.prrOut = s.prrOut
        /\ q.build = s.build /\ q.failed = s.failed /\ q.cwndInfl = s.cwndInfl
        /\ \/ q.ssThresh = h /\ q.maxSentSeq = s.nxt /\ q.cwnd = h /\ q.oldCwnd = s.oldCwnd
           \/ q.ssThresh = s.ssThresh /\ q.maxSentSeq = s.maxSentSeq /\ q.cwnd = s.cwnd
              /\ q.oldCwnd = o
    BY <1>1, <1>4 DEF Fields
  <1> HIDE DEF q
  <1>6. Frame(q)
    <2>1. Threshold(q.ssThresh)
      BY <1>2, <1>5 DEF Frame
    <2>2. q.maxSentSeq \in 0..NumSegs /\ q.oldCwnd \in (-Word)..(Word - 1)
      BY <1>1, <1>3, <1>5 DEF Frame
    <2> QED  BY <1>5, <2>1, <2>2 DEF Frame
  <1>7. Cwnd(q, b)
    <2>1. h \in Int /\ 0 <= h /\ SegSize <= h /\ h <= b /\ h < Word
      BY <1>2, SpanFacts, BaseFacts
    <2> QED  BY <1>5, <2>1 DEF Win, Cwnd
  <1> QED  BY <1>6, <1>7 DEF q

----------------------------------------------------------------------------
(* The scoreboard and the transmission of segments.                        *)

\* The scoreboard's operators leave the frame and the windows alone.
Aside(q, s) == FrameKept(q, s) /\ q.cwnd = s.cwnd /\ q.cwndInfl = s.cwndInfl

LEMMA AsideFit ==
    ASSUME NEW q, NEW s, NEW b, Fit(s, b), Aside(q, s)
    PROVE  Fit(q, b)
  BY KeptFrame, WinKept DEF Fit, Aside, FrameKept

LEMMA AsideTrans ==
    ASSUME NEW p, NEW q, NEW s, Aside(p, q), Aside(q, s)
    PROVE  Aside(p, s)
  BY KeptTrans DEF Aside

Quiet(q, s) == Aside(q, s) /\ q.dupAckCount = s.dupAckCount /\ q.congState = s.congState

LEMMA QuietTrans ==
    ASSUME NEW p, NEW q, NEW s, Quiet(p, q), Quiet(q, s)
    PROVE  Quiet(p, s)
  BY AsideTrans DEF Quiet

LEMMA BoardQuiet ==
    ASSUME NEW s, DOMAIN s = Fields, NEW list, NEW ack
    PROVE  /\ Quiet(DiscardUpTo(Update(s, list), ack), s)
           /\ Quiet(MarkHeadAsLost(s), s) /\ Quiet(SetSentListLost(s), s)
  <1>1. ASSUME NEW t, DOMAIN t = Fields
        PROVE  DOMAIN LostCount(t) = Fields /\ Quiet(LostCount(t), t)
    <2> DEFINE above(i) == Cardinality({j \in t.sacked : i <= j /\ j <= t.highSack})
               marked == {i \in Sent(t) : /\ i # t.una /\ i <= t.highSack /\ i \notin t.sacked
                                          /\ above(i) >= RetxThresh}
               head == {i \in {t.una} : Cardinality({j \in t.sacked : j # i /\ j <= t.highSack})
                                          >= RetxThresh}
               l == t.lost \cup marked \cup head
    <2>1. LostCount(t) = [t EXCEPT !.lost = l]
      BY DEF LostCount
    <2> HIDE DEF l
    <2> QED  BY <1>1, <2>1 DEF Quiet, Aside, FrameKept, Fields
  <1> DEFINE new == NewlySacked(s, list)
             high == HighestSack(s, new)
             updated == [s EXCEPT !.sacked = @ \cup new, !.lost = @ \ new, !.highSack = high]
             u == Update(s, list)
  <1>2. u = IF new = {} THEN s ELSE LostCount(updated)
    BY DEF Update
  <1> HIDE DEF new, high
  <1>3. DOMAIN updated = Fields /\ Quiet(updated, s)
    BY DEF Quiet, Aside, FrameKept, Fields
  <1> HIDE DEF updated
  <1>4. DOMAIN u = Fields /\ Quiet(u, s)
    <2>1. CASE new = {}
      BY <1>2, <2>1 DEF Quiet, Aside, FrameKept
    <2>2. CASE new # {}
      <3>1. DOMAIN LostCount(updated) = Fields /\ Quiet(LostCount(updated), updated)
        BY <1>1, <1>3
      <3> QED  BY <1>2, <1>3, <2>2, <3>1, QuietTrans
    <2> QED  BY <2>1, <2>2
  <1> HIDE DEF u
  <1>5. Quiet(DiscardUpTo(u, ack), u)
    <2> DEFINE kept == ack..(u.nxt - 1)
               h == IF u.highSack <= ack THEN None ELSE u.highSack
    <2>1. DiscardUpTo(u, ack) = [u EXCEPT !.una = ack, !.sacked = @ \cap kept,
                                          !.lost = @ \cap kept, !.retrans = @ \cap kept,
                                          !.highSack = h]
      BY DEF DiscardUpTo
    <2> HIDE DEF kept, h
    <2> QED  BY <1>4, <2>1 DEF Quiet, Aside, FrameKept, Fields
  <1>6. Quiet(DiscardUpTo(u, ack), s)
    BY <1>4, <1>5, QuietTrans
  <1>7. Quiet(MarkHeadAsLost(s), s)
    BY DEF MarkHeadAsLost, Quiet, Aside, FrameKept, Fields
  <1>8. Quiet(SetSentListLost(s), s)
    BY DEF SetSentListLost, Quiet, Aside, FrameKept, Fields
  <1> QED  BY <1>6, <1>7, <1>8 DEF u

LEMMA AssertFit ==
    ASSUME NEW s, DOMAIN s = Fields, NEW b, Fit(s, b), NEW c, NEW name \in Failures
    PROVE  Fit(Assert(s, c, name), b)
  <1> DEFINE q == [s EXCEPT !.failed = name]
  <1>1. /\ q.ssThresh = s.ssThresh /\ q.recover = s.recover /\ q.recovery = s.recovery
        /\ q.bytesInFlight = s.bytesInFlight /\ q.recoveryFlight = s.recoveryFlight
        /\ q.retries = s.retries /\ q.ackSeen = s.ackSeen /\ q.oldCwnd = s.oldCwnd
        /\ q.maxSentSeq = s.maxSentSeq /\ q.prrDelivered = s.prrDelivered /\ q.prrOut = s.prrOut
        /\ q.build = s.build /\ q.failed = name /\ q.cwnd = s.cwnd /\ q.cwndInfl = s.cwndInfl
    BY DEF Fields
  <1> HIDE DEF q
  <1>2. Fit(q, b)
    BY <1>1 DEF Fit, Frame, Win, Cwnd
  <1>3. Assert(s, c, name) \in {s, q}
    BY DEF Assert, q
  <1> QED  BY <1>2, <1>3

LEMMA NewAckFit ==
    ASSUME NEW s, DOMAIN s = Fields, NEW b, Fit(s, b), NEW reset
    PROVE  Fit(NewAck(s, reset), b)
  <1> DEFINE e == IF s.una = s.written THEN FALSE ELSE s.retxEvent \/ reset
             q == NewAck(s, reset)
  <1>1. q = [s EXCEPT !.retries = DataRetries, !.retxEvent = e]
    BY DEF NewAck
  <1> HIDE DEF e
  <1>2. /\ q.ssThresh = s.ssThresh /\ q.recover = s.recover /\ q.recovery = s.recovery
        /\ q.bytesInFlight = s.bytesInFlight /\ q.recoveryFlight = s.recoveryFlight
        /\ q.retries = DataRetries /\ q.ackSeen = s.ackSeen /\ q.oldCwnd = s.oldCwnd
        /\ q.maxSentSeq = s.maxSentSeq /\ q.prrDelivered = s.prrDelivered /\ q.prrOut = s.prrOut
        /\ q.build = s.build /\ q.failed = s.failed /\ q.cwnd = s.cwnd /\ q.cwndInfl = s.cwndInfl
    BY <1>1 DEF Fields
  <1> HIDE DEF q
  <1>3. DataRetries \in 0..DataRetries
    BY SenderAssumption
  <1>4. Fit(q, b)
    BY <1>2, <1>3 DEF Fit, Frame, Win, Cwnd
  <1> QED  BY <1>4 DEF q

\* The bytes in flight are counted again.
LEMMA FlownFit ==
    ASSUME NEW s, DOMAIN s = Fields, NEW b, Fit(s, b), NEW f \in Bytes
    PROVE  LET q == [s EXCEPT !.bytesInFlight = f] IN Fit(q, b)
  <1> DEFINE q == [s EXCEPT !.bytesInFlight = f]
  <1>1. /\ q.ssThresh = s.ssThresh /\ q.recover = s.recover /\ q.recovery = s.recovery
        /\ q.bytesInFlight = f /\ q.recoveryFlight = s.recoveryFlight
        /\ q.retries = s.retries /\ q.ackSeen = s.ackSeen /\ q.oldCwnd = s.oldCwnd
        /\ q.maxSentSeq = s.maxSentSeq /\ q.prrDelivered = s.prrDelivered /\ q.prrOut = s.prrOut
        /\ q.build = s.build /\ q.failed = s.failed /\ q.cwnd = s.cwnd /\ q.cwndInfl = s.cwndInfl
    BY DEF Fields
  <1> HIDE DEF q
  <1>2. Fit(q, b)
    BY <1>1 DEF Fit, Frame, Win, Cwnd
  <1> QED  BY <1>2 DEF q

LEMMA SendFit ==
    ASSUME NEW s, Typed(s), Board(s), NEW b, Fit(s, b), NEW i
    PROVE  Fit(SendDataPacket(s, i), b) /\ SendDataPacket(s, i).ssThresh = s.ssThresh
  <1> DEFINE q == SendDataPacket(s, i)
             f == BytesInFlight(s)
             n == Max({s.nxt, i + 1})
             p == IF s.congState \in {"RECOVERY", "CWR"} THEN (s.prrOut + SegSize) % Word
                  ELSE s.prrOut
             r == IF i < s.nxt THEN s.retrans \cup {i} ELSE s.retrans
             e == IF s.failed = "none" THEN "EmptySegment" ELSE s.failed
  <1>1. DOMAIN s = Fields /\ f \in Bytes
    BY FlightBytes DEF Typed
  <1>2. p \in 0..(Word - 1)
    <2>1. s.prrOut \in 0..(Word - 1) /\ SegSize \in Nat /\ Word \in Nat /\ Word > 0
      BY SenderAssumption DEF Fit, Frame
    <2> DEFINE x == s.prrOut + SegSize
    <2>2. x \in Int
      BY <2>1
    <2> HIDE DEF x
    <2>3. x % Word \in 0..(Word - 1)
      BY <2>1, <2>2
    <2> QED  BY <2>1, <2>3 DEF x
  <1>3. e \in Failures
    BY DEF Failures, Fit, Frame
  <1>4. q = IF SizeAllowed(s, i) = 0 THEN [s EXCEPT !.failed = e]
            ELSE [s EXCEPT !.bytesInFlight = f, !.nxt = n, !.retrans = r,
                           !.retxEvent = TRUE, !.prrOut = p, !.out = s.out \cup {i}]
    BY DEF SendDataPacket
  <1> HIDE DEF n, p, r, e, f
  <1>5. /\ q.ssThresh = s.ssThresh /\ q.recover = s.recover /\ q.recovery = s.recovery
        /\ q.bytesInFlight \in {s.bytesInFlight, f} /\ q.recoveryFlight = s.recoveryFlight
        /\ q.retries = s.retries /\ q.ackSeen = s.ackSeen /\ q.oldCwnd = s.oldCwnd
        /\ q.maxSentSeq = s.maxSentSeq /\ q.prrDelivered = s.prrDelivered
        /\ q.prrOut \in {s.prrOut, p} /\ q.build = s.build /\ q.failed \in {s.failed, e}
        /\ q.cwnd = s.cwnd /\ q.cwndInfl = s.cwndInfl
    BY <1>1, <1>4 DEF Fields
  <1> HIDE DEF q
  <1>6. Frame(q)
    BY <1>1, <1>2, <1>3, <1>5 DEF Fit, Frame
  <1>7. Win(q, b)
    BY <1>5 DEF Fit, Win, Cwnd
  <1> QED  BY <1>5, <1>6, <1>7 DEF Fit, q

LEMMA RetransmitFit ==
    ASSUME NEW s, Typed(s), Board(s), NEW b, Fit(s, b)
    PROVE  Fit(DoRetransmit(s), b) /\ DoRetransmit(s).ssThresh = s.ssThresh
  <1> DEFINE i == NextSeg(s, FALSE)
             j == IF i = None THEN s.una ELSE i
  <1>1. DoRetransmit(s) = SendDataPacket(s, j)
    BY DEF DoRetransmit
  <1> HIDE DEF j
  <1> QED  BY <1>1, SendFit

----------------------------------------------------------------------------
(* The congestion states.                                                  *)

\* A bound from which an ACK may still grow the windows.
Room(b) == b \in Int /\ Base <= b /\ b + 2 * SegSize + Span(NumSegs) < Word

LEMMA ExtraFacts ==
    ASSUME Ample, NEW s
    PROVE  /\ Extra(s) \in Int /\ 0 <= Extra(s) /\ Extra(s) <= Span(NumSegs)
           /\ s.congState \in {"RECOVERY", "CWR"} => Extra(s) = Span(NumSegs)
           /\ s.congState \notin {"RECOVERY", "CWR"} => Extra(s) = 0
  BY BaseFacts DEF Extra

LEMMA EnterCwrFit ==
    ASSUME Classic, Ample, NEW s, Typed(s), Board(s), NEW b, Fit(s, b), Count(s, NumSegs),
           NEW d, NEW r
    PROVE  LET q == EnterCwr(s, d, r) IN
           Fit(q, Base + Span(NumSegs)) /\ q.dupAckCount = s.dupAckCount
  <1> DEFINE a == Assert(s, s.ackSeen, "CerlAckSeen")
             f == BytesInFlight(s)
             h == HalfFlight(f)
             e == [a EXCEPT !.bytesInFlight = f, !.ssThresh = h, !.cwnd = h, !.cwndInfl = h,
                            !.congState = "CWR", !.recover = s.nxt]
             q == EnterCwr(s, d, r)
  <1>1. q = RecoveryOpsEnter(e, d, r)
    BY DEF EnterCwr
  <1>2. Typed(a) /\ a.dupAckCount = s.dupAckCount
    BY AssertFacts
  <1>3. Fit(a, b)
    <2>1. "CerlAckSeen" \in Failures
      BY DEF Failures
    <2> QED  BY <2>1, AssertFit DEF Typed
  <1>4. f \in Bytes
    BY FlightBytes
  <1>5. h \in Int /\ SegSize <= h /\ h <= Base /\ Threshold(h)
    BY <1>4, HalfFacts
  <1>6. s.nxt \in 0..NumSegs
    BY SpanFacts DEF Typed, Board
  <1> HIDE DEF a, f, h
  <1>7. /\ DOMAIN e = Fields /\ e.ssThresh = h /\ e.recover = s.nxt /\ e.recovery = a.recovery
        /\ e.bytesInFlight = f /\ e.recoveryFlight = a.recoveryFlight
        /\ e.retries = a.retries /\ e.ackSeen = a.ackSeen /\ e.oldCwnd = a.oldCwnd
        /\ e.maxSentSeq = a.maxSentSeq /\ e.prrDelivered = a.prrDelivered /\ e.prrOut = a.prrOut
        /\ e.build = a.build /\ e.failed = a.failed /\ e.cwnd = h /\ e.cwndInfl = h
        /\ e.dupAckCount = a.dupAckCount
    BY <1>2 DEF Typed, Fields
  <1> HIDE DEF e
  <1>8. Frame(e)
    <2>1. Threshold(e.ssThresh)
      BY <1>5, <1>7
    <2> QED  BY <1>3, <1>4, <1>6, <1>7, <2>1 DEF Fit, Frame
  <1>9. Cwnd(e, Base)
    BY <1>5, <1>7, SpanFacts, BaseFacts DEF Cwnd
  <1>10. e.dupAckCount \in Int /\ Count(e, NumSegs) /\ Base \in Int /\ Base + Span(NumSegs) < Word
    <2>1. e.dupAckCount \in Int /\ Count(e, NumSegs)
      BY <1>2, <1>7 DEF Typed, Count
    <2> QED  BY <2>1, BaseFacts
  <1>11. FrameKept(q, e) /\ Win(q, Base + Span(NumSegs))
    BY <1>1, <1>7, <1>8, <1>9, <1>10, EnterWin
  <1>12. Same(q, e)
    BY <1>1, <1>7, RecoverySame
  <1> HIDE DEF q
  <1>13. Fit(q, Base + Span(NumSegs))
    BY <1>8, <1>11, KeptFrame DEF Fit
  <1> QED  BY <1>2, <1>7, <1>12, <1>13 DEF Same, q

LEMMA EnterRecoveryFit ==
    ASSUME Classic, Ample, NEW s, Typed(s), Board(s), s.una < s.nxt, NEW b, Room(b), Fit(s, b),
           Count(s, NumSegs), NEW d, NEW r, NEW c
    PROVE  LET q == EnterRecovery(s, d, r, c) IN
           Fit(q, b + Span(NumSegs)) /\ q.dupAckCount = s.dupAckCount
  <1> DEFINE m == IF IsLost(s, s.una) THEN s ELSE MarkHeadAsLost(s)
             f == BytesInFlight(m)
             e == [m EXCEPT !.recover = s.nxt, !.recoverActive = TRUE,
                            !.congState = "RECOVERY", !.bytesInFlight = f]
             t == CerlEnterRecovery(e, c)
             u == RecoveryOpsEnter(t, d, r)
             q == EnterRecovery(s, d, r, c)
  <1>1. q = DoRetransmit(u)
    BY DEF EnterRecovery
  <1>2. /\ b \in Int /\ Base <= b /\ b < Word /\ b + Span(NumSegs) < Word
        /\ s.nxt \in 0..NumSegs
    <2>1. s.nxt \in 0..NumSegs
      BY SpanFacts DEF Typed, Board
    <2> QED  BY <2>1, SpanFacts, BaseFacts DEF Room
  <1>3. /\ Typed(m) /\ Board(m) /\ m.dupAckCount = s.dupAckCount /\ Fit(m, b)
        /\ m.una = s.una /\ m.nxt = s.nxt
    <2>1. CASE m = s
      BY <2>1
    <2>2. CASE m = MarkHeadAsLost(s)
      <3>1. Ctl(m, s) /\ m.una = s.una /\ Typed(m) /\ Board(m)
        BY <2>2, HeadLostFacts
      <3>2. Aside(m, s)
        BY <2>2, BoardQuiet DEF Quiet, Typed
      <3> HIDE DEF m
      <3> QED  BY <3>1, <3>2, AsideFit DEF Ctl
    <2> QED  BY <2>1, <2>2
  <1> HIDE DEF m
  <1>4. f \in Bytes
    BY <1>3, FlightBytes
  <1> HIDE DEF f
  <1>5. /\ DOMAIN e = Fields /\ SameMarks(e, m) /\ e.ssThresh = m.ssThresh
        /\ e.recover = s.nxt /\ e.recovery = m.recovery
        /\ e.bytesInFlight = f /\ e.recoveryFlight = m.recoveryFlight
        /\ e.retries = m.retries /\ e.ackSeen = m.ackSeen /\ e.oldCwnd = m.oldCwnd
        /\ e.maxSentSeq = m.maxSentSeq /\ e.prrDelivered = m.prrDelivered /\ e.prrOut = m.prrOut
        /\ e.build = m.build /\ e.failed = m.failed /\ e.cwnd = m.cwnd /\ e.cwndInfl = m.cwndInfl
    BY <1>3 DEF SameMarks, Typed, Fields
  <1>6. /\ e.congState = "RECOVERY" /\ e.recoverActive = TRUE /\ e.dupAckCount = m.dupAckCount
        /\ e.isFirstPartialAck = m.isFirstPartialAck /\ e.retxEvent = m.retxEvent
        /\ e.alive = m.alive
    BY <1>3 DEF Typed, Fields
  <1> HIDE DEF e
  <1>7. Frame(e) /\ Win(e, b)
    BY <1>2, <1>3, <1>4, <1>5 DEF Fit, Frame, Win, Cwnd
  <1>8. Typed(e) /\ Board(e)
    <2>1. e.recover \in Int
      BY <1>2, <1>5
    <2>2. Typed(e)
      BY <1>3, <1>5, <1>6, <2>1 DEF Typed, SameMarks, CongStates
    <2> QED  BY <1>3, <1>5, <2>2, MarksBoard
  <1>9. Frame(t) /\ Cwnd(t, b)
    BY <1>2, <1>7, <1>8, CerlEnterWin
  <1>10. Same(t, e) /\ DOMAIN t = Fields
    BY <1>5, CerlSame DEF Same
  <1> HIDE DEF t
  <1>11. t.dupAckCount = s.dupAckCount /\ t.dupAckCount \in Int /\ Count(t, NumSegs)
    BY <1>3, <1>6, <1>8, <1>10 DEF Same, Typed, Count
  <1>12. FrameKept(u, t) /\ Win(u, b + Span(NumSegs))
    BY <1>2, <1>9, <1>10, <1>11, EnterWin
  <1>13. Same(u, t)
    BY <1>10, RecoverySame
  <1> HIDE DEF u
  <1>14. Same(u, e)
    BY <1>10, <1>13, SameTrans
  <1>15. Typed(u) /\ Board(u) /\ SameMarks(u, e)
    BY <1>8, <1>14, SameGives
  <1>16. Fit(u, b + Span(NumSegs))
    BY <1>9, <1>12, KeptFrame DEF Fit
  <1>17. Fit(q, b + Span(NumSegs))
    BY <1>1, <1>15, <1>16, RetransmitFit
  <1>18. u.una < u.nxt
    BY <1>3, <1>5, <1>15 DEF SameMarks
  <1>19. q.dupAckCount = u.dupAckCount
    BY <1>1, <1>15, <1>18, RetransmitGives
  <1> QED  BY <1>11, <1>13, <1>17, <1>19 DEF Same

\* The duplicate ACK is counted.
LEMMA CheckedFit ==
    ASSUME NEW s, Typed(s), NEW b, Fit(s, b)
    PROVE  LET counted == [s EXCEPT !.dupAckCount = @ + 1]
               disorder == IF s.congState = "OPEN"
                           THEN [Assert(counted, counted.dupAckCount = 1, "DupAckCount")
                                   EXCEPT !.congState = "DISORDER"]
                           ELSE counted
               q == Assert(disorder,
                           disorder.dupAckCount <= RetxThresh \/ disorder.recoverActive,
                           "DisorderCount")
           IN  /\ Fit(q, b) /\ q.dupAckCount = s.dupAckCount + 1
               /\ Fit(counted, b) /\ counted.dupAckCount = s.dupAckCount + 1
  <1> DEFINE counted == [s EXCEPT !.dupAckCount = @ + 1]
             one == counted.dupAckCount = 1
             asked == Assert(counted, one, "DupAckCount")
             moved == [asked EXCEPT !.congState = "DISORDER"]
             disorder == IF s.congState = "OPEN" THEN moved ELSE counted
             fine == disorder.dupAckCount <= RetxThresh \/ disorder.recoverActive
             q == Assert(disorder, fine, "DisorderCount")
  <1>1. /\ DOMAIN counted = Fields /\ Aside(counted, s) /\ counted.dupAckCount = s.dupAckCount + 1
        /\ SameMarks(counted, s) /\ SamePoint(counted, s) /\ counted.alive = s.alive
        /\ counted.isFirstPartialAck = s.isFirstPartialAck /\ counted.retxEvent = s.retxEvent
    BY DEF Typed, Fields, Aside, FrameKept, SameMarks, SamePoint
  <1>2. "DupAckCount" \in Failures /\ "DisorderCount" \in Failures
    BY DEF Failures
  <1> HIDE DEF counted
  <1>3. Fit(counted, b)
    BY <1>1, AsideFit
  <1>4. Typed(counted)
    BY <1>1 DEF Typed, SameMarks, SamePoint
  <1>5. Fit(asked, b) /\ asked.dupAckCount = counted.dupAckCount /\ Typed(asked)
    <2> HIDE DEF one
    <2> QED  BY <1>2, <1>3, <1>4, AssertFit, AssertFacts DEF Typed
  <1> HIDE DEF asked
  <1>6. /\ DOMAIN moved = Fields /\ Aside(moved, asked) /\ moved.dupAckCount = asked.dupAckCount
        /\ SameMarks(moved, asked) /\ moved.congState = "DISORDER" /\ moved.alive = asked.alive
        /\ moved.recover = asked.recover /\ moved.recoverActive = asked.recoverActive
        /\ moved.isFirstPartialAck = asked.isFirstPartialAck /\ moved.retxEvent = asked.retxEvent
    BY <1>5 DEF Typed, Fields, Aside, FrameKept, SameMarks
  <1> HIDE DEF moved
  <1>7. Fit(moved, b) /\ Typed(moved)
    <2>1. Fit(moved, b)
      BY <1>5, <1>6, AsideFit
    <2> QED  BY <1>5, <1>6, <2>1 DEF Typed, SameMarks, CongStates
  <1>8. Fit(disorder, b) /\ disorder.dupAckCount = s.dupAckCount + 1 /\ Typed(disorder)
    BY <1>1, <1>3, <1>4, <1>5, <1>6, <1>7
  <1> HIDE DEF disorder
  <1>9. Fit(q, b) /\ q.dupAckCount = disorder.dupAckCount
    <2> HIDE DEF fine
    <2> QED  BY <1>2, <1>8, AssertFit, AssertFacts DEF Typed
  <1> HIDE DEF q
  <1> QED  BY <1>1, <1>3, <1>8, <1>9 DEF q, fine, disorder, moved, asked, one, counted

LEMMA DupAckFit ==
    ASSUME Classic, Ample, NEW s, Typed(s), Board(s), CountOK(s), s.alive, s.una < s.nxt,
           NEW b, Room(b), Fit(s, b + Extra(s)), NEW h \in Int, h + 1 <= NumSegs, Count(s, h),
           NEW d, NEW r, NEW c
    PROVE  LET q == DupAck(s, d, r, c) IN
           /\ Fit(q, b + SegSize + Extra(q)) /\ Count(q, h + 1)
           /\ q.congState # "RECOVERY" => Fit(q, b + Extra(q))
  <1> DEFINE q == DupAck(s, d, r, c)
  <1>1. /\ b \in Int /\ Base <= b /\ SegSize \in Nat /\ NumSegs \in Nat /\ Span(NumSegs) \in Int
        /\ 0 <= Span(NumSegs) /\ b + Span(NumSegs) + SegSize < Word
    BY BaseFacts, SpanFacts DEF Room
  <1>2. /\ DOMAIN s = Fields /\ s.dupAckCount \in Int /\ 0 <= s.dupAckCount /\ s.dupAckCount <= h
    BY DEF Typed, Count
  <1>3. Extra(s) \in Int
    BY ExtraFacts
  <1>4. ASSUME NEW p, Fit(p, b + Extra(p)) PROVE Fit(p, b + SegSize + Extra(p))
    <2> DEFINE x == b + Extra(p)
               y == b + SegSize + Extra(p)
    <2>1. x \in Int /\ y \in Int /\ x <= y
      BY <1>1, ExtraFacts
    <2> HIDE DEF x, y
    <2> QED  BY <1>4, <2>1, WinWider DEF Fit, x, y
  <1>5. CASE s.congState = "LOSS"
    <2>1. q = s
      BY <1>5 DEF DupAck
    <2>2. Count(s, h + 1)
      BY <1>2 DEF Count
    <2> QED  BY <1>4, <2>1, <2>2
  <1>6. CASE s.congState = "RECOVERY"
    <2>1. q = DoRecovery(s, d, r)
      BY <1>6 DEF DupAck
    <2>2. Same(q, s)
      BY <1>2, <2>1, RecoverySame
    <2> DEFINE x == b + Extra(s)
    <2>3. x \in Int /\ x + SegSize < Word /\ x + SegSize = b + SegSize + Extra(s)
      BY <1>1, <1>6, ExtraFacts
    <2>4. Frame(s) /\ Win(s, x)
      BY DEF Fit
    <2> HIDE DEF x
    <2>5. FrameKept(q, s) /\ Win(q, x + SegSize)
      BY <1>2, <2>1, <2>3, <2>4, DoRecoveryWin
    <2> HIDE DEF q
    <2>6. Frame(q)
      BY <2>4, <2>5, KeptFrame
    <2>7. Extra(q) = Extra(s) /\ q.congState = "RECOVERY" /\ q.dupAckCount = s.dupAckCount
      BY <1>6, <2>2 DEF Same, Extra
    <2>8. Win(q, b + SegSize + Extra(q)) /\ Count(q, h + 1)
      BY <1>2, <2>3, <2>5, <2>7 DEF Count
    <2> QED  BY <2>6, <2>7, <2>8 DEF Fit, q
  <1> DEFINE counted == [s EXCEPT !.dupAckCount = @ + 1]
             disorder == IF s.congState = "OPEN"
                         THEN [Assert(counted, counted.dupAckCount = 1, "DupAckCount")
                                 EXCEPT !.congState = "DISORDER"]
                         ELSE counted
             k == Assert(disorder,
                         disorder.dupAckCount <= RetxThresh \/ disorder.recoverActive,
                         "DisorderCount")
             x == b + Extra(s)
  <1>7. /\ Fit(k, x) /\ k.dupAckCount = s.dupAckCount + 1
        /\ Fit(counted, x) /\ counted.dupAckCount = s.dupAckCount + 1
    BY CheckedFit
  <1>8. CASE s.congState = "CWR"
    <2>1. q = counted
      BY <1>8 DEF DupAck
    <2>2. counted.congState = s.congState
      BY <1>2 DEF Fields
    <2> HIDE DEF counted, q
    <2>3. Extra(q) = Extra(s) /\ Count(q, h + 1)
      BY <1>2, <1>7, <2>1, <2>2 DEF Extra, Count
    <2>4. Fit(q, b + Extra(q))
      BY <1>7, <2>1, <2>3
    <2> QED  BY <1>4, <2>3, <2>4 DEF q
  <1>9. CASE s.congState \in {"OPEN", "DISORDER"}
    <2> DEFINE enters == \/ k.dupAckCount = RetxThresh /\ (RecoveryCovered(s) \/ ~s.recoverActive)
                         \/ IsLost(s, s.una + 1)
    <2>1. q = IF enters THEN EnterRecovery(k, d, r, c) ELSE k
      BY <1>9 DEF DupAck
    <2>2. Gives(k, s) /\ SameMarks(k, s) /\ k.congState = "DISORDER"
      BY <1>9, CheckedFacts
    <2> HIDE DEF k, enters
    <2>3. Typed(k) /\ Board(k) /\ k.una < k.nxt
      BY <2>2 DEF Gives, SameMarks
    <2>4. x = b /\ Extra(k) = 0
      <3>1. Extra(s) = 0 /\ Extra(k) = 0
        BY <1>9, <2>2, ExtraFacts
      <3> QED  BY <1>1, <3>1
    <2>5. Fit(k, b) /\ Fit(k, b + Extra(k)) /\ Count(k, h + 1)
      <3>1. Fit(k, b)
        BY <1>7, <2>4, Zenon
      <3>2. b + Extra(k) = b
        BY <1>1, <2>4
      <3>3. Count(k, h + 1)
        BY <1>2, <1>7 DEF Count
      <3> QED  BY <3>1, <3>2, <3>3, Zenon
    <2>6. CASE enters
      <3>1. q = EnterRecovery(k, d, r, c)
        BY <2>1, <2>6
      <3>2. q.congState = "RECOVERY"
        BY <2>3, <3>1, EnterRecoveryFacts
      <3>3. Count(k, NumSegs)
        <4>1. k.dupAckCount \in Int
          BY <2>3 DEF Typed
        <4> QED  BY <1>1, <2>5, <4>1 DEF Count
      <3>4. Fit(q, b + Span(NumSegs)) /\ q.dupAckCount = k.dupAckCount
        BY <2>3, <2>5, <3>1, <3>3, EnterRecoveryFit
      <3> HIDE DEF q
      <3>5. Extra(q) = Span(NumSegs)
        BY <3>2, ExtraFacts
      <3>6. Fit(q, b + Extra(q)) /\ Count(q, h + 1)
        BY <2>5, <3>4, <3>5 DEF Count
      <3> QED  BY <1>4, <3>6 DEF q
    <2>7. CASE ~enters
      <3>1. q = k
        BY <2>1, <2>7
      <3> QED  BY <1>4, <2>5, <3>1
    <2> QED  BY <2>6, <2>7
  <1> QED  BY <1>5, <1>6, <1>8, <1>9 DEF Typed, CongStates

LEMMA PartialAckFit ==
    ASSUME Classic, Ample, NEW s, Typed(s), Board(s), s.una < s.nxt, NEW b \in Int, Fit(s, b),
           b + SegSize < Word, NEW n \in Nat, NEW d, NEW r
    PROVE  LET q == PartialAck(s, n, d, r) IN
           /\ Fit(q, b + SegSize) /\ q.dupAckCount = s.dupAckCount /\ q.congState = s.congState
  <1> DEFINE done == DoRecovery(s, d, r)
             sent == DoRetransmit(done)
             g == Max({0, done.cwndInfl - SegSize * n})
             cut == [sent EXCEPT !.cwndInfl = g]
             resent == IF s.una \in done.retrans \ done.sacked THEN done ELSE cut
             acked == NewAck(resent, s.isFirstPartialAck)
             q == PartialAck(s, n, d, r)
             e == b + SegSize
  <1>1. q = [acked EXCEPT !.isFirstPartialAck = FALSE]
    BY DEF PartialAck
  <1>2. Same(done, s) /\ DOMAIN s = Fields
    BY RecoverySame DEF Typed
  <1>3. FrameKept(done, s) /\ Win(done, e)
    BY <1>2, DoRecoveryWin DEF Fit
  <1> HIDE DEF done
  <1>4. Fit(done, e)
    BY <1>3, KeptFrame DEF Fit
  <1>5. Typed(done) /\ Board(done) /\ done.una < done.nxt /\ DOMAIN done = Fields
    BY <1>2, SameGives DEF Same
  <1>6. Fit(sent, e) /\ sent.ssThresh = done.ssThresh
    BY <1>4, <1>5, RetransmitFit
  <1>7. /\ Gives(sent, done) /\ sent.congState = done.congState
        /\ sent.dupAckCount = done.dupAckCount
    BY <1>5, RetransmitGives
  <1> HIDE DEF sent
  <1>8. /\ g \in Int /\ 0 <= g /\ g < Word
        /\ done.ssThresh <= Base => g <= e
    <2> DEFINE y == SegSize * n
               z == done.cwndInfl - y
    <2>1. y \in Nat
      BY SpanFacts
    <2>2. /\ done.cwndInfl \in Int /\ 0 <= done.cwndInfl /\ done.cwndInfl < Word /\ Word \in Int
          /\ e \in Int /\ (done.ssThresh <= Base => done.cwndInfl <= e)
      BY <1>3, SpanFacts, BaseFacts DEF Win
    <2> HIDE DEF y, e
    <2>3. z \in Int /\ z <= done.cwndInfl
      BY <2>1, <2>2
    <2>4. g = Max({0, z})
      BY DEF y
    <2> HIDE DEF z, g
    <2>5. g = IF 0 >= z THEN 0 ELSE z
      BY <2>3, <2>4, PairFacts
    <2> QED  BY <2>2, <2>3, <2>5
  <1> HIDE DEF g, e
  <1>9. /\ DOMAIN cut = Fields /\ FrameKept(cut, sent) /\ Same(cut, sent)
        /\ cut.cwnd = sent.cwnd /\ cut.cwndInfl = g
    BY <1>7 DEF FrameKept, Same, Gives, Typed, Fields
  <1> HIDE DEF cut
  <1>10. Fit(cut, e)
    <2>1. Frame(cut)
      BY <1>6, <1>9, KeptFrame DEF Fit
    <2>2. Win(cut, e)
      BY <1>6, <1>8, <1>9 DEF Fit, Win, Cwnd, FrameKept
    <2> QED  BY <2>1, <2>2 DEF Fit
  <1>11. /\ Fit(resent, e) /\ DOMAIN resent = Fields /\ resent.congState = s.congState
         /\ resent.dupAckCount = s.dupAckCount
    BY <1>2, <1>4, <1>5, <1>7, <1>9, <1>10 DEF Same
  <1>12. Typed(resent) /\ Board(resent)
    <2>1. Typed(sent) /\ Board(sent)
      BY <1>7 DEF Gives
    <2>2. Typed(cut) /\ Board(cut)
      BY <1>9, <2>1, SameGives
    <2> QED  BY <1>5, <2>2
  <1> HIDE DEF resent
  <1>13. /\ Fit(acked, e) /\ acked.congState = resent.congState
         /\ acked.dupAckCount = resent.dupAckCount /\ DOMAIN acked = Fields
    <2>1. s.isFirstPartialAck \in BOOLEAN
      BY DEF Typed
    <2>2. Gives(acked, resent) /\ acked.congState = resent.congState
          /\ acked.dupAckCount = resent.dupAckCount
      BY <1>12, <2>1, NewAckFacts
    <2>3. Fit(acked, e)
      BY <1>11, NewAckFit
    <2> QED  BY <2>2, <2>3 DEF Gives, Typed
  <1> HIDE DEF acked
  <1>14. Aside(q, acked) /\ q.congState = acked.congState /\ q.dupAckCount = acked.dupAckCount
    BY <1>1, <1>13 DEF Aside, FrameKept, Fields
  <1> HIDE DEF q
  <1>15. Fit(q, e)
    BY <1>13, <1>14, AsideFit
  <1> QED  BY <1>11, <1>13, <1>14, <1>15 DEF q, e

LEMMA FullAckFit ==
    ASSUME Classic, Ample, NEW s, Typed(s), Board(s), NEW b, Room(b), Frame(s),
           s.congState # "RECOVERY" => Fit(s, b), NEW n, NEW dup
    PROVE  LET q == FullAck(s, n, dup) IN
           Fit(q, b + 2 * SegSize) /\ q.dupAckCount \in {0, s.dupAckCount}
  <1> DEFINE leaves == s.congState \in {"RECOVERY", "LOSS"}
             st == IF leaves \/ ~dup THEN "OPEN" ELSE s.congState
             first == IF leaves THEN TRUE ELSE s.isFirstPartialAck
             count == IF s.congState = "RECOVERY" THEN 0 ELSE s.dupAckCount
             active == IF RecoveryCovered(s) THEN FALSE ELSE s.recoverActive
             acked == IF s.congState = "LOSS" THEN s.una - s.recover ELSE n
             opened == [s EXCEPT !.congState = st, !.isFirstPartialAck = first,
                                 !.dupAckCount = count, !.recoverActive = active]
             renewed == NewAck(opened, TRUE)
             cerl == CerlExitRecovery(renewed)
             left == RecoveryOpsExit(cerl)
             exited == IF s.congState # "RECOVERY" THEN opened ELSE left
             grown == IncreaseWindow(exited, acked)
             shown == [grown EXCEPT !.cwndInfl = grown.cwnd]
             last == NewAck(shown, TRUE)
             q == FullAck(s, n, dup)
             e == b + 2 * SegSize
  <1>1. q = IF exited.congState # "OPEN" THEN exited ELSE last
    BY DEF FullAck
  <1>2. b \in Int /\ e \in Int /\ Base <= b /\ b <= e /\ e < Word /\ Base \in Int
    BY SpanFacts, BaseFacts DEF Room
  <1>3. count \in {0, s.dupAckCount}
    OBVIOUS
  <1> HIDE DEF st, first, count, active, acked
  <1>4. DOMAIN opened = Fields /\ Aside(opened, s) /\ opened.dupAckCount = count
    BY DEF Typed, Aside, FrameKept, Fields
  <1> HIDE DEF opened
  <1>5. DOMAIN exited = Fields /\ Fit(exited, b) /\ exited.dupAckCount = count
    <2>1. CASE s.congState # "RECOVERY"
      BY <1>4, <2>1, AsideFit
    <2>2. CASE s.congState = "RECOVERY"
      <3>1. Frame(opened)
        BY <1>4, KeptFrame DEF Aside
      <3>2. DOMAIN renewed = Fields /\ renewed.dupAckCount = count /\ Frame(renewed)
        <4> DEFINE x == IF opened.una = opened.written THEN FALSE ELSE opened.retxEvent \/ TRUE
        <4>1. renewed = [opened EXCEPT !.retries = DataRetries, !.retxEvent = x]
          BY DEF NewAck
        <4> HIDE DEF x
        <4>2. /\ DOMAIN renewed = Fields /\ renewed.dupAckCount = count
              /\ renewed.ssThresh = opened.ssThresh /\ renewed.recover = opened.recover
              /\ renewed.recovery = opened.recovery
              /\ renewed.bytesInFlight = opened.bytesInFlight
              /\ renewed.recoveryFlight = opened.recoveryFlight
              /\ renewed.retries = DataRetries /\ renewed.ackSeen = opened.ackSeen
              /\ renewed.oldCwnd = opened.oldCwnd /\ renewed.maxSentSeq = opened.maxSentSeq
              /\ renewed.prrDelivered = opened.prrDelivered /\ renewed.prrOut = opened.prrOut
              /\ renewed.build = opened.build /\ renewed.failed = opened.failed
          BY <1>4, <4>1 DEF Fields
        <4>3. DataRetries \in 0..DataRetries
          BY SenderAssumption
        <4> HIDE DEF renewed
        <4> QED  BY <3>1, <4>2, <4>3 DEF Frame
      <3> HIDE DEF renewed
      <3>3. DOMAIN cerl = Fields /\ Frame(cerl) /\ cerl.dupAckCount = count
        BY <3>2, CerlExitFrame, CerlSame DEF Same
      <3> HIDE DEF cerl
      <3>4. FrameKept(left, cerl) /\ Win(left, Base) /\ Same(left, cerl)
        BY <3>3, ExitWin, RecoverySame
      <3> HIDE DEF left
      <3>5. Frame(left) /\ Win(left, b)
        BY <1>2, <3>3, <3>4, KeptFrame, WinWider
      <3>6. exited = left
        BY <2>2
      <3> HIDE DEF exited
      <3> QED  BY <3>3, <3>4, <3>5, <3>6 DEF Fit, Same
    <2> QED  BY <2>1, <2>2
  <1> HIDE DEF exited
  <1>6. DOMAIN grown = Fields /\ Fit(grown, e) /\ grown.dupAckCount = count
    <2>1. DOMAIN grown = Fields /\ FrameKept(grown, exited) /\ Win(grown, e)
      BY <1>2, <1>5, IncreaseWin DEF Fit
    <2>2. Same(grown, exited)
      BY <1>5, IncreaseSame
    <2> HIDE DEF grown, e
    <2> QED  BY <1>5, <2>1, <2>2, KeptFrame DEF Fit, Same
  <1> HIDE DEF grown
  <1>7. DOMAIN shown = Fields /\ Fit(shown, e) /\ shown.dupAckCount = count
    <2>1. /\ DOMAIN shown = Fields /\ FrameKept(shown, grown) /\ shown.dupAckCount = count
          /\ shown.cwnd = grown.cwnd /\ shown.cwndInfl = grown.cwnd
      BY <1>6 DEF FrameKept, Fields
    <2> HIDE DEF shown, e
    <2>2. Frame(shown)
      BY <1>6, <2>1, KeptFrame DEF Fit
    <2>3. Win(shown, e)
      BY <1>6, <2>1, SpanFacts DEF Fit, Win, Cwnd, FrameKept
    <2> QED  BY <2>1, <2>2, <2>3 DEF Fit
  <1> HIDE DEF shown
  <1>8. Fit(last, e)
    BY <1>7, NewAckFit
  <1>9. last.dupAckCount = count
    BY <1>7 DEF NewAck, Fields
  <1> HIDE DEF last
  <1>10. Fit(exited, e)
    BY <1>2, <1>5, WinWider DEF Fit
  <1>11. Fit(q, e) /\ q.dupAckCount = count
    BY <1>1, <1>5, <1>8, <1>9, <1>10
  <1> HIDE DEF q
  <1> QED  BY <1>3, <1>11 DEF q, e

\* An ACK that reports something grows the windows by at most two segments.
LEMMA ProcessAckFit ==
    ASSUME Classic, Ample, NEW s, Typed(s), Board(s), CountOK(s), s.alive, NEW n \in Nat,
           NEW b \in BOOLEAN, b => s.una < s.nxt, Before(s, n # 0),
           NEW x, Room(x), Fit(s, x + Extra(s)), NEW h \in Int, h + 1 <= NumSegs, Count(s, h),
           NEW d, NEW r, NEW c
    PROVE  LET q == ProcessAck(s, n, b, d, r, c) IN
           Fit(q, x + 2 * SegSize + Extra(q)) /\ Count(q, h + 1)
  <1> DEFINE acked == n # 0
             seen == [s EXCEPT !.ackSeen = TRUE]
             dup == IF b THEN DupAck(seen, d, r, c) ELSE seen
             reset == [dup EXCEPT !.dupAckCount = 0]
             t == IF b THEN dup ELSE reset
             q == ProcessAck(s, n, b, d, r, c)
             y == x + SegSize
             z == x + 2 * SegSize
  <1>1. q = IF n = 0 THEN dup
            ELSE IF ~RecoveryCovered(t) /\ t.congState = "RECOVERY" THEN PartialAck(t, n, d, r)
            ELSE IF ~RecoveryCovered(t) /\ t.congState = "LOSS"
            THEN NewAck(IncreaseWindow(t, n), TRUE)
            ELSE IF t.congState = "CWR" THEN NewAck(DoRecovery(t, d, r), TRUE)
            ELSE FullAck(t, n, b)
    BY DEF ProcessAck
  <1>2. /\ x \in Int /\ y \in Int /\ z \in Int /\ x <= y /\ y <= z /\ x <= z
        /\ y + SegSize = z /\ Base <= x /\ z + Span(NumSegs) < Word /\ Span(NumSegs) \in Int
        /\ 0 <= Span(NumSegs) /\ NumSegs \in Nat /\ x + SegSize = y /\ SegSize \in Nat /\ Word \in Int
    BY SpanFacts, BaseFacts DEF Room
  <1>3. ASSUME NEW p, NEW u \in Int, NEW v \in Int, u <= v, Fit(p, u + Extra(p))
        PROVE  Fit(p, v + Extra(p))
    <2> DEFINE i == u + Extra(p)
               j == v + Extra(p)
    <2>1. i \in Int /\ j \in Int /\ i <= j
      BY <1>3, ExtraFacts
    <2> HIDE DEF i, j
    <2> QED  BY <1>3, <2>1, WinWider DEF Fit, i, j
  <1>4. ASSUME NEW p, NEW u \in Int, Fit(p, u) PROVE Fit(p, u + Extra(p))
    <2> DEFINE j == u + Extra(p)
    <2>1. j \in Int /\ u <= j
      BY <1>4, ExtraFacts
    <2> HIDE DEF j
    <2> QED  BY <1>4, <2>1, WinWider DEF Fit, j
  <1>5. /\ Same(seen, s) /\ seen.ackSeen = TRUE /\ seen.ssThresh = s.ssThresh
        /\ seen.recovery = s.recovery /\ seen.bytesInFlight = s.bytesInFlight
        /\ seen.recoveryFlight = s.recoveryFlight /\ seen.retries = s.retries
        /\ seen.oldCwnd = s.oldCwnd /\ seen.maxSentSeq = s.maxSentSeq
        /\ seen.prrDelivered = s.prrDelivered /\ seen.prrOut = s.prrOut
        /\ seen.cwnd = s.cwnd /\ seen.cwndInfl = s.cwndInfl
    BY DEF Same, Typed, Fields
  <1> HIDE DEF seen, y, z
  <1>6. /\ Fit(seen, x + Extra(seen)) /\ Count(seen, h) /\ seen.alive /\ CountOK(seen)
        /\ Typed(seen) /\ Board(seen) /\ Before(seen, acked) /\ (b => seen.una < seen.nxt)
    <2>1. Typed(seen) /\ Board(seen)
      BY <1>5, SameGives
    <2> HIDE DEF acked
    <2>2. Before(s, acked)
      BY DEF acked
    <2>3. Before(seen, acked) /\ CountOK(seen)
      BY <1>5, <2>2, SameAfter DEF After
    <2>4. Extra(seen) = Extra(s) /\ Count(seen, h) /\ seen.alive /\ (b => seen.una < seen.nxt)
      BY <1>5 DEF Extra, Count, Same
    <2>5. Fit(seen, x + Extra(s))
      BY <1>5 DEF Fit, Frame, Win, Cwnd, Same
    <2> QED  BY <2>1, <2>3, <2>4, <2>5
  <1>7. /\ Fit(dup, y + Extra(dup)) /\ Count(dup, h + 1) /\ Typed(dup) /\ Board(dup)
        /\ dup.congState # "RECOVERY" => Fit(dup, x + Extra(dup))
        /\ Before(dup, acked)
    <2> HIDE DEF acked
    <2>1. CASE b
      <3>1. dup = DupAck(seen, d, r, c)
        BY <2>1
      <3>2. /\ Fit(dup, x + SegSize + Extra(dup)) /\ Count(dup, h + 1)
            /\ dup.congState # "RECOVERY" => Fit(dup, x + Extra(dup))
        BY <1>6, <2>1, <3>1, DupAckFit
      <3>3. After(dup, seen) /\ Before(dup, acked)
        BY <1>6, <2>1, <3>1, DupAckFacts
      <3> HIDE DEF dup
      <3> QED  BY <3>2, <3>3 DEF After, Gives, y
    <2>2. CASE ~b
      <3>1. dup = seen
        BY <2>2
      <3> HIDE DEF dup
      <3>2. Fit(seen, y + Extra(seen))
        BY <1>2, <1>3, <1>6
      <3>3. Count(seen, h + 1)
        <4>1. seen.dupAckCount \in Int
          BY <1>6 DEF Typed
        <4> QED  BY <1>6, <4>1 DEF Count
      <3> QED  BY <1>6, <3>1, <3>2, <3>3
    <2> QED  BY <2>1, <2>2
  <1> HIDE DEF dup
  <1>8. /\ Fit(t, y + Extra(t)) /\ Count(t, h + 1) /\ Typed(t) /\ Board(t)
        /\ t.congState # "RECOVERY" => Fit(t, x + Extra(t))
        /\ Before(t, acked)
    <2>1. CASE b
      BY <1>7, <2>1
    <2>2. CASE ~b
      <3>1. t = reset
        BY <2>2
      <3>2. /\ Aside(reset, dup) /\ reset.dupAckCount = 0 /\ DOMAIN reset = Fields
            /\ SameMarks(reset, dup) /\ SamePoint(reset, dup) /\ reset.retxEvent = dup.retxEvent
            /\ reset.alive = dup.alive /\ reset.isFirstPartialAck = dup.isFirstPartialAck
        BY <1>7 DEF Aside, FrameKept, Typed, Fields, SameMarks, SamePoint
      <3> HIDE DEF reset, acked
      <3>3. Typed(reset) /\ Board(reset)
        <4>1. Typed(reset)
          BY <1>7, <3>2 DEF Typed, SameMarks, SamePoint
        <4> QED  BY <1>7, <3>2, <4>1, MarksBoard
      <3>4. Before(reset, acked)
        BY <1>7, <3>2 DEF Before, SameMarks, SamePoint
      <3>5. Extra(reset) = Extra(dup) /\ reset.congState = dup.congState
        BY <3>2 DEF Extra, SamePoint
      <3>6. Fit(reset, y + Extra(reset)) /\ (reset.congState # "RECOVERY" => Fit(reset, x + Extra(reset)))
        BY <1>7, <3>2, <3>5, AsideFit
      <3>7. Count(reset, h + 1)
        <4>1. 0 <= dup.dupAckCount /\ dup.dupAckCount <= h + 1 /\ dup.dupAckCount \in Int
          BY <1>7 DEF Count, Typed
        <4> QED  BY <3>2, <4>1 DEF Count
      <3> QED  BY <3>1, <3>3, <3>4, <3>6, <3>7
    <2> QED  BY <2>1, <2>2
  <1> HIDE DEF t
  <1>9. CASE n = 0
    <2>1. q = dup
      BY <1>1, <1>9
    <2>2. Fit(dup, z + Extra(dup))
      BY <1>2, <1>3, <1>7
    <2> QED  BY <1>7, <2>1, <2>2 DEF z
  <1>10. CASE n # 0
    <2>1. Before(t, TRUE) /\ DOMAIN t = Fields /\ t.una \in Int /\ t.nxt \in Int /\ t.recover \in Int
      BY <1>8, <1>10 DEF Before, Typed
    <2> DEFINE Good(p) == Fit(p, z + Extra(p)) /\ Count(p, h + 1)
    <2>2. CASE ~RecoveryCovered(t) /\ t.congState = "RECOVERY"
      <3> DEFINE p == PartialAck(t, n, d, r)
                 u == y + Extra(t)
      <3>1. q = p
        BY <1>1, <1>10, <2>2
      <3>2. t.una < t.nxt
        BY <2>1, <2>2 DEF Before, RecoveryCovered
      <3>3. u \in Int /\ u + SegSize < Word /\ u + SegSize = z + Extra(t)
        BY <1>2, ExtraFacts
      <3>4. Fit(t, u)
        BY <1>8
      <3> HIDE DEF u
      <3>5. Fit(p, u + SegSize) /\ p.dupAckCount = t.dupAckCount /\ p.congState = t.congState
        BY <1>8, <3>2, <3>3, <3>4, PartialAckFit
      <3> HIDE DEF p
      <3>6. Extra(p) = Extra(t) /\ Count(p, h + 1)
        BY <1>8, <3>5 DEF Extra, Count
      <3>7. Good(p)
        BY <3>3, <3>5, <3>6
      <3> HIDE DEF q
      <3> QED  BY <3>1, <3>7 DEF q, z
    <2>3. CASE ~RecoveryCovered(t) /\ t.congState = "LOSS"
      <3> DEFINE u == IncreaseWindow(t, n)
                 p == NewAck(u, TRUE)
      <3>1. q = p
        BY <1>1, <1>10, <2>3
      <3>2. Fit(t, x)
        <4>1. x + Extra(t) = x
          BY <1>2, <2>3, ExtraFacts
        <4> QED  BY <1>8, <2>3, <4>1
      <3>3. z < Word /\ z = x + 2 * SegSize
        BY <1>2 DEF z
      <3>4. DOMAIN u = Fields /\ FrameKept(u, t) /\ Win(u, z) /\ Same(u, t)
        BY <1>2, <2>1, <3>2, <3>3, IncreaseWin, IncreaseSame DEF Fit
      <3> HIDE DEF u
      <3>5. Fit(u, z)
        BY <3>2, <3>4, KeptFrame DEF Fit
      <3>6. Fit(p, z)
        BY <3>4, <3>5, NewAckFit
      <3>7. p.dupAckCount = u.dupAckCount
        BY <3>4 DEF NewAck, Fields
      <3> HIDE DEF p
      <3>8. Good(p)
        <4>1. Fit(p, z + Extra(p))
          BY <1>2, <1>4, <3>6
        <4> QED  BY <1>8, <3>4, <3>7, <4>1 DEF Same, Count
      <3> HIDE DEF q
      <3> QED  BY <3>1, <3>8 DEF q, z
    <2>4. CASE t.congState = "CWR"
      <3> DEFINE u == DoRecovery(t, d, r)
                 p == NewAck(u, TRUE)
                 v == x + Extra(t)
      <3>1. q = p
        BY <1>1, <1>10, <2>4
      <3>2. Frame(t) /\ Win(t, v)
        BY <1>8, <2>4 DEF Fit
      <3>3. v \in Int /\ v + SegSize < Word /\ v + SegSize = y + Extra(t)
        BY <1>2, ExtraFacts
      <3> HIDE DEF v
      <3>4. FrameKept(u, t) /\ Win(u, v + SegSize) /\ Same(u, t)
        BY <2>1, <3>2, <3>3, DoRecoveryWin, RecoverySame
      <3> HIDE DEF u
      <3>5. Fit(u, v + SegSize) /\ DOMAIN u = Fields
        BY <2>1, <3>2, <3>4, KeptFrame DEF Fit, Same
      <3>6. Fit(p, v + SegSize)
        BY <3>5, NewAckFit
      <3>7. p.dupAckCount = u.dupAckCount /\ p.congState = u.congState
        BY <3>5 DEF NewAck, Fields
      <3> HIDE DEF p
      <3>8. Extra(p) = Extra(t) /\ Count(p, h + 1)
        BY <1>8, <3>4, <3>7 DEF Same, Count, Extra
      <3>9. Fit(p, y + Extra(p))
        BY <3>3, <3>6, <3>8
      <3>10. Good(p)
        BY <1>2, <1>3, <3>8, <3>9
      <3> HIDE DEF q
      <3> QED  BY <3>1, <3>10 DEF q, z
    <2>5. CASE t.congState # "CWR" /\ (t.congState \in {"RECOVERY", "LOSS"} => RecoveryCovered(t))
      <3> DEFINE p == FullAck(t, n, b)
      <3>1. q = p
        BY <1>1, <1>10, <2>5
      <3>2. Frame(t)
        BY <1>8 DEF Fit
      <3>3. t.congState # "RECOVERY" => Fit(t, x)
        <4> SUFFICES ASSUME t.congState # "RECOVERY" PROVE Fit(t, x)
          OBVIOUS
        <4>1. x + Extra(t) = x
          BY <1>2, <2>5, ExtraFacts
        <4> QED  BY <1>8, <4>1
      <3>4. Fit(p, z) /\ p.dupAckCount \in {0, t.dupAckCount}
        BY <1>8, <3>2, <3>3, FullAckFit DEF z
      <3> HIDE DEF p
      <3>5. Good(p)
        <4>1. Fit(p, z + Extra(p))
          BY <1>2, <1>4, <3>4
        <4>2. 0 <= t.dupAckCount /\ t.dupAckCount <= h + 1 /\ t.dupAckCount \in Int
          BY <1>8 DEF Count, Typed
        <4>3. Count(p, h + 1)
          BY <3>4, <4>2 DEF Count
        <4> QED  BY <4>1, <4>3
      <3> HIDE DEF q
      <3> QED  BY <3>1, <3>5 DEF q, z
    <2> QED  BY <2>2, <2>3, <2>4, <2>5
  <1> QED  BY <1>9, <1>10

----------------------------------------------------------------------------
(* ReceivedAck.                                                            *)

\* An ACK that moves SND.UNA or reports a segment has the peer heard of more:
\* the head was not reported before.
LEMMA HeardGrows ==
    ASSUME NEW s, Typed(s), Board(s), NEW ack \in Int, s.una <= ack, ack <= s.nxt, NEW list,
           s.una \notin list, NEW q, q.una = ack,
           q.sacked = (s.sacked \cup NewlySacked(s, list)) \cap ack..(s.nxt - 1)
    PROVE  /\ Heard(s) <= Heard(q)
           /\ ack > s.una \/ NewlySacked(s, list) # {} => Heard(s) + 1 <= Heard(q)
  <1> DEFINE new == NewlySacked(s, list)
             X == s.sacked \cup new
             low == X \cap s.una..(ack - 1)
             high == X \cap ack..(s.nxt - 1)
             k == Cardinality(s.sacked)
             m == Cardinality(new)
             l == Cardinality(low)
             g == Cardinality(high)
  <1>1. /\ s.una \in Int /\ s.nxt \in Int /\ s.sacked \subseteq Sent(s) /\ s.una \notin s.sacked
    BY DEF Typed, Board
  <1>2. new \subseteq Sent(s) /\ new \subseteq list /\ s.sacked \cap new = {}
    BY DEF NewlySacked
  <1> HIDE DEF new
  <1>3. X \subseteq Sent(s) /\ s.una \notin X
    BY <1>1, <1>2
  <1>4. low \subseteq Sent(s) /\ high \subseteq Sent(s) /\ low \cup high = X /\ low \cap high = {}
    BY <1>1, <1>3 DEF Sent
  <1>5. /\ IsFiniteSet(s.sacked) /\ IsFiniteSet(new) /\ IsFiniteSet(low) /\ IsFiniteSet(high)
        /\ k \in Nat /\ m \in Nat /\ l \in Nat /\ g \in Nat
    BY <1>1, <1>2, <1>4, SentFinite
  <1>6. Cardinality(X) = k + m
    <2>1. Cardinality(X) = k + m - Cardinality(s.sacked \cap new)
      BY <1>5, FS_Union
    <2>2. Cardinality(s.sacked \cap new) = 0
      BY <1>2, FS_EmptySet
    <2> HIDE DEF k, m, X
    <2> QED  BY <1>5, <2>1, <2>2
  <1>7. Cardinality(X) = l + g
    <2>1. Cardinality(low \cup high) = l + g - Cardinality(low \cap high)
      BY <1>5, FS_Union
    <2>2. Cardinality(low \cap high) = 0
      BY <1>4, FS_EmptySet
    <2>3. Cardinality(X) = l + g - 0
      BY <1>4, <2>1, <2>2, Zenon
    <2> HIDE DEF l, g, X
    <2> QED  BY <1>5, <2>3
  <1>8. IF ack > s.una THEN l <= ack - s.una - 1 ELSE l = 0
    <2> DEFINE c == s.una + 1
               I == c..(ack - 1)
    <2>1. low \subseteq I
      BY <1>1, <1>3
    <2>2. c \in Int
      BY <1>1
    <2>3. Cardinality(I) = IF c >= ack THEN 0 ELSE ack - c
      BY <2>2, IntervalCount
    <2>4. IsFiniteSet(I)
      <3>1. ack - 1 \in Int
        OBVIOUS
      <3> QED  BY <2>2, <3>1, FS_Interval
    <2>5. l <= Cardinality(I)
      BY <2>1, <2>4, FS_Subset
    <2> HIDE DEF l, I
    <2> QED  BY <1>1, <1>5, <2>3, <2>5
  <1>9. new # {} => m >= 1
    <2>1. m = 0 => new = {}
      BY <1>5, FS_EmptySet
    <2> HIDE DEF m
    <2> QED  BY <1>5, <2>1
  <1>10. Heard(s) = s.una + k /\ Heard(q) = ack + g
    BY DEF Heard, new
  <1> HIDE DEF k, m, l, g, X
  <1>11. k + m = l + g
    BY <1>6, <1>7
  <1>12. /\ Heard(s) <= Heard(q)
         /\ ack > s.una \/ new # {} => Heard(s) + 1 <= Heard(q)
    BY <1>1, <1>5, <1>8, <1>9, <1>10, <1>11
  <1> QED  BY <1>12 DEF new

\* The stages of ReceivedAck before ProcessAck.
LEMMA StagesFit ==
    ASSUME Classic, Ample, NEW s, Socket(s), Bounded(s),
           NEW ack \in Int, s.una <= ack, ack <= s.nxt, NEW list,
           s.una \notin list, ack \notin s.sacked, ack \notin list,
           NEW ece \in BOOLEAN, NEW d, NEW r
    PROVE  LET kept == DiscardUpTo(Update(s, list), ack)
               leftCwr == IF kept.congState = "CWR" /\ ack > kept.recover
                          THEN RecoveryOpsExit([kept EXCEPT !.congState = "OPEN",
                                                            !.cwnd = kept.ssThresh])
                          ELSE kept
               echoed == IF s.una..(ack - 1) # {} /\ ece /\ leftCwr.congState # "CWR"
                         THEN EnterCwr(leftCwr, d, r)
                         ELSE leftCwr
               q == [echoed EXCEPT !.bytesInFlight = BytesInFlight(echoed)]
           IN  Fit(q, Base + 2 * Span(Heard(s)) + Extra(q)) /\ Count(q, Heard(s))
  <1> DEFINE kept == DiscardUpTo(Update(s, list), ack)
             open == [kept EXCEPT !.congState = "OPEN", !.cwnd = kept.ssThresh]
             exit == RecoveryOpsExit(open)
             leftCwr == IF kept.congState = "CWR" /\ ack > kept.recover THEN exit ELSE kept
             cwr == EnterCwr(leftCwr, d, r)
             echoed == IF s.una..(ack - 1) # {} /\ ece /\ leftCwr.congState # "CWR" THEN cwr
                       ELSE leftCwr
             f == BytesInFlight(echoed)
             q == [echoed EXCEPT !.bytesInFlight = f]
             h == Heard(s)
             x == Base + 2 * Span(h)
             Good(p) == Typed(p) /\ Board(p) /\ Fit(p, x + Extra(p)) /\ p.dupAckCount = s.dupAckCount
  <1>1. /\ h \in Int /\ 0 <= h /\ h <= NumSegs /\ x \in Int /\ Base <= x /\ Base \in Int
        /\ NumSegs \in Int
    <2>1. h \in Nat /\ h <= NumSegs
      BY HeardBound DEF Socket
    <2> HIDE DEF h
    <2>2. Span(0) <= Span(h) /\ Span(h) \in Int
      BY <2>1, SpanOrder, SpanSum
    <2> QED  BY <2>1, <2>2, SpanFacts, BaseFacts
  <1>2. Fit(s, x + Extra(s)) /\ Count(s, h) /\ DOMAIN s = Fields
    BY DEF Bounded, Socket, Typed
  <1> HIDE DEF x, h
  <1>3. Quiet(kept, s)
    BY <1>2, BoardQuiet
  <1>4. Typed(kept) /\ Board(kept)
    BY KeptFacts DEF Entered
  <1> HIDE DEF kept
  <1>5. Good(kept) /\ DOMAIN kept = Fields
    <2>1. Extra(kept) = Extra(s)
      BY <1>3 DEF Quiet, Extra
    <2> QED  BY <1>2, <1>3, <1>4, <2>1, AsideFit DEF Quiet, Typed
  <1>6. Good(leftCwr)
    <2>1. CASE leftCwr = kept
      BY <1>5, <2>1
    <2>2. CASE leftCwr = exit
      <3>1. /\ DOMAIN open = Fields /\ SameMarks(open, kept) /\ FrameKept(open, kept)
            /\ open.congState = "OPEN" /\ open.recoverActive = kept.recoverActive
            /\ open.dupAckCount = kept.dupAckCount /\ open.retxEvent = kept.retxEvent
            /\ open.alive = kept.alive /\ open.isFirstPartialAck = kept.isFirstPartialAck
        BY <1>5 DEF SameMarks, FrameKept, Fields
      <3> HIDE DEF open
      <3>2. Typed(open) /\ Board(open)
        <4>1. Typed(open)
          BY <1>5, <3>1 DEF Typed, SameMarks, FrameKept, CongStates
        <4> QED  BY <1>5, <3>1, <4>1, MarksBoard
      <3>3. Frame(open)
        BY <1>5, <3>1, KeptFrame DEF Fit
      <3>4. Same(exit, open) /\ FrameKept(exit, open) /\ Win(exit, Base)
        BY <3>1, <3>3, RecoverySame, ExitWin
      <3> HIDE DEF exit
      <3>5. Typed(exit) /\ Board(exit)
        BY <3>2, <3>4, SameGives
      <3>6. exit.congState = "OPEN" /\ exit.dupAckCount = s.dupAckCount
        BY <1>5, <3>1, <3>4 DEF Same
      <3>7. x + Extra(exit) = x
        BY <1>1, <3>6, ExtraFacts
      <3>8. Fit(exit, x)
        BY <1>1, <3>3, <3>4, KeptFrame, WinWider DEF Fit
      <3> QED  BY <2>2, <3>5, <3>6, <3>7, <3>8
    <2> QED  BY <2>1, <2>2
  <1> HIDE DEF leftCwr
  <1>7. Good(echoed)
    <2>1. CASE echoed = leftCwr
      BY <1>6, <2>1
    <2>2. CASE echoed = cwr
      <3>1. Count(leftCwr, NumSegs)
        <4>1. leftCwr.dupAckCount \in Int
          BY <1>6 DEF Typed
        <4> QED  BY <1>1, <1>2, <1>6, <4>1 DEF Count
      <3>2. Fit(cwr, Base + Span(NumSegs)) /\ cwr.dupAckCount = leftCwr.dupAckCount
        BY <1>6, <3>1, EnterCwrFit
      <3>3. Gives(cwr, leftCwr) /\ cwr.congState = "CWR"
        BY <1>6, EnterCwrFacts
      <3> HIDE DEF cwr
      <3>4. Extra(cwr) = Span(NumSegs)
        BY <3>3, ExtraFacts
      <3> DEFINE i == Base + Span(NumSegs)
                 j == x + Extra(cwr)
      <3>5. i \in Int /\ j \in Int /\ i <= j
        BY <1>1, <3>4, BaseFacts
      <3>6. Fit(cwr, i)
        BY <3>2
      <3> HIDE DEF i, j
      <3>7. Fit(cwr, j)
        BY <3>5, <3>6, WinWider DEF Fit
      <3> QED  BY <1>6, <2>2, <3>2, <3>3, <3>7 DEF Gives, j
    <2> QED  BY <2>1, <2>2
  <1> HIDE DEF echoed
  <1>8. f \in Bytes
    BY <1>7, FlightBytes
  <1> HIDE DEF f
  <1>9. q.congState = echoed.congState /\ q.dupAckCount = echoed.dupAckCount
    BY <1>7 DEF Typed, Fields
  <1>10. Fit(q, x + Extra(echoed))
    BY <1>7, <1>8, FlownFit DEF Typed
  <1> HIDE DEF q
  <1>11. Extra(q) = Extra(echoed) /\ Count(q, h)
    BY <1>2, <1>7, <1>9 DEF Extra, Count
  <1>12. Fit(q, x + Extra(q)) /\ Count(q, h)
    BY <1>10, <1>11
  <1> QED  BY <1>12 DEF q, f, echoed, cwr, leftCwr, exit, open, kept, x, h

\* The whole of ReceivedAck up to SendPendingData.
LEMMA AckFit ==
    ASSUME Classic, Ample, NEW s, Socket(s), s.alive, Bounded(s),
           NEW ack \in Int, s.una <= ack, ack <= s.nxt, NEW list,
           s.una \notin list, ack \notin s.sacked, \A i \in list : i > ack,
           NEW ece \in BOOLEAN, NEW d, NEW r, NEW c
    PROVE  LET kept == DiscardUpTo(Update(s, list), ack)
               leftCwr == IF kept.congState = "CWR" /\ ack > kept.recover
                          THEN RecoveryOpsExit([kept EXCEPT !.congState = "OPEN",
                                                            !.cwnd = kept.ssThresh])
                          ELSE kept
               echoed == IF s.una..(ack - 1) # {} /\ ece /\ leftCwr.congState # "CWR"
                         THEN EnterCwr(leftCwr, d, r)
                         ELSE leftCwr
               flown == [echoed EXCEPT !.bytesInFlight = BytesInFlight(echoed)]
           IN  Bounded(ProcessAck(flown, Cardinality(s.una..(ack - 1)),
                                  NewlySacked(s, list) # {}, d, r, c))
  <1> DEFINE kept == DiscardUpTo(Update(s, list), ack)
             leftCwr == IF kept.congState = "CWR" /\ ack > kept.recover
                        THEN RecoveryOpsExit([kept EXCEPT !.congState = "OPEN",
                                                          !.cwnd = kept.ssThresh])
                        ELSE kept
             echoed == IF s.una..(ack - 1) # {} /\ ece /\ leftCwr.congState # "CWR"
                       THEN EnterCwr(leftCwr, d, r)
                       ELSE leftCwr
             flown == [echoed EXCEPT !.bytesInFlight = BytesInFlight(echoed)]
             n == Cardinality(s.una..(ack - 1))
             b == NewlySacked(s, list) # {}
             q == ProcessAck(flown, n, b, d, r, c)
             h == Heard(s)
             x == Base + 2 * Span(h)
  <1>1. Typed(s) /\ Board(s) /\ s.una \in Int /\ s.nxt \in Int /\ ack \notin list
    <2>1. Typed(s) /\ Board(s) /\ s.una \in Int /\ s.nxt \in Int
      BY DEF Socket, Typed
    <2>2. ~(ack > ack)
      OBVIOUS
    <2>3. ack \notin list
      BY <2>2, Zenon
    <2> QED  BY <2>1, <2>3, Zenon
  <1>2. Entered(flown, s, ack, list) /\ Before(flown, ack > s.una)
    BY <1>1, FlownFacts, ZenonT(40)
  <1>3. Fit(flown, x + Extra(flown)) /\ Count(flown, h)
    BY <1>1, StagesFit, ZenonT(40)
  <1> HIDE DEF flown
  <1>4. n \in Nat /\ (n # 0) = (ack > s.una)
    <2>1. n = IF s.una >= ack THEN 0 ELSE ack - s.una
      BY <1>1, IntervalCount
    <2> HIDE DEF n
    <2> QED  BY <1>1, <2>1
  <1>5. Before(flown, n # 0)
    BY <1>2, <1>4
  <1>6. b => ack < s.nxt
    <2>1. NewlySacked(s, list) \subseteq list \cap Sent(s)
      BY DEF NewlySacked
    <2> QED  BY <1>1, <2>1 DEF Sent
  <1>7. /\ Typed(flown) /\ Board(flown) /\ CountOK(flown) /\ flown.alive
        /\ flown.una = ack /\ flown.nxt = s.nxt
        /\ flown.sacked = (s.sacked \cup NewlySacked(s, list)) \cap ack..(s.nxt - 1)
    BY <1>2 DEF Entered
  <1>8. b \in BOOLEAN
    OBVIOUS
  <1>9. h <= Heard(flown) /\ (n # 0 \/ b => h + 1 <= Heard(flown))
    BY <1>1, <1>4, <1>7, HeardGrows
  <1> HIDE DEF n, b
  <1>10. After(q, flown)
    BY <1>4, <1>5, <1>6, <1>7, <1>8, ProcessAckFacts
  <1>11. /\ Heard(q) = Heard(flown) /\ Heard(q) \in Int /\ Heard(q) <= NumSegs /\ Typed(q)
    <2>1. q.una = flown.una /\ q.sacked = flown.sacked /\ Typed(q) /\ Board(q)
      BY <1>10 DEF After, Gives
    <2> HIDE DEF q
    <2>2. Heard(q) = Heard(flown)
      BY <2>1 DEF Heard
    <2> QED  BY <2>1, <2>2, HeardBound
  <1> DEFINE g == Heard(q)
             y == Base + 2 * Span(g)
  <1>12. h \in Int /\ 0 <= h
    BY <1>1, HeardBound
  <1> HIDE DEF h
  <1>13. CASE n # 0 \/ b
    <2>1. h + 1 <= g /\ g \in Int /\ g <= NumSegs /\ h + 1 \in Int /\ h + 1 <= NumSegs
          /\ NumSegs \in Int
      BY <1>9, <1>11, <1>12, <1>13, SpanFacts
    <2>2. Span(h + 1) = Span(h) + SegSize /\ Span(h) \in Int
      <3>1. 1 \in Int
        OBVIOUS
      <3>2. Span(h + 1) = Span(h) + Span(1) /\ Span(h) \in Int
        BY <1>12, <3>1, SpanSum
      <3> QED  BY <3>2, SpanFacts
    <2>3. Span(h + 1) <= Span(g) /\ Span(g) <= Span(NumSegs) /\ Span(g) \in Int /\ Span(0) <= Span(h)
      <3> HIDE DEF g
      <3>1. Span(h + 1) <= Span(g)
        BY <2>1, SpanOrder
      <3>2. Span(g) <= Span(NumSegs)
        BY <2>1, SpanOrder
      <3>3. Span(0) <= Span(h)
        BY <1>12, SpanOrder
      <3>4. Span(g) \in Int
        BY <2>1, SpanSum
      <3> QED  BY <3>1, <3>2, <3>3, <3>4
    <2>4. x + 2 * SegSize <= y /\ x \in Int /\ y \in Int /\ Base <= x /\ SegSize \in Int
          /\ x + 2 * SegSize \in Int
      <3> HIDE DEF g
      <3> QED  BY <2>2, <2>3, SpanFacts, BaseFacts
    <2>5. Room(x)
      <3> HIDE DEF g
      <3>1. x + 2 * SegSize + Span(NumSegs) < Word
        BY <2>2, <2>3, SpanFacts, BaseFacts
      <3> QED  BY <2>4, <3>1 DEF Room
    <2> HIDE DEF x
    <2>6. Fit(q, x + 2 * SegSize + Extra(q)) /\ Count(q, h + 1)
      BY <1>3, <1>4, <1>5, <1>6, <1>7, <1>8, <1>12, <2>1, <2>5, ProcessAckFit
    <2> HIDE DEF q, g, y
    <2> DEFINE i == x + 2 * SegSize + Extra(q)
               j == y + Extra(q)
    <2>7. i \in Int /\ j \in Int /\ i <= j
      BY <2>4, ExtraFacts
    <2>8. Fit(q, i)
      BY <2>6
    <2> HIDE DEF i, j
    <2>9. Fit(q, j)
      BY <2>7, <2>8, WinWider DEF Fit
    <2>10. Count(q, g)
      <3>1. q.dupAckCount \in Int
        BY <1>11 DEF Typed
      <3> QED  BY <2>1, <2>6, <3>1 DEF Count
    <2> QED  BY <2>9, <2>10 DEF j, y, g, Bounded, q, n, b, flown
  <1>14. CASE n = 0 /\ ~b
    <2>1. q = [flown EXCEPT !.ackSeen = TRUE]
      BY <1>14 DEF ProcessAck
    <2>2. /\ Same(q, flown) /\ q.ackSeen = TRUE /\ q.ssThresh = flown.ssThresh
          /\ q.recovery = flown.recovery /\ q.bytesInFlight = flown.bytesInFlight
          /\ q.recoveryFlight = flown.recoveryFlight /\ q.retries = flown.retries
          /\ q.oldCwnd = flown.oldCwnd /\ q.maxSentSeq = flown.maxSentSeq
          /\ q.prrDelivered = flown.prrDelivered /\ q.prrOut = flown.prrOut
          /\ q.cwnd = flown.cwnd /\ q.cwndInfl = flown.cwndInfl
      <3> HIDE DEF q
      <3>1. DOMAIN flown = Fields
        BY <1>7 DEF Typed
      <3> QED  BY <2>1, <3>1 DEF Same, Fields
    <2> HIDE DEF q
    <2>3. Span(h) <= Span(g) /\ Span(h) \in Int /\ Span(g) \in Int
      <3>1. h <= g /\ g \in Int
        BY <1>9, <1>11
      <3> HIDE DEF g
      <3>2. Span(h) <= Span(g)
        BY <1>12, <3>1, SpanOrder
      <3>3. Span(h) \in Int /\ Span(g) \in Int
        BY <1>12, <3>1, SpanSum
      <3> QED  BY <3>2, <3>3
    <2>4. x \in Int /\ y \in Int /\ x <= y
      <3> HIDE DEF g
      <3> QED  BY <2>3, BaseFacts
    <2> HIDE DEF x, y, g
    <2>5. Fit(q, x + Extra(flown))
      BY <1>3, <2>2 DEF Fit, Frame, Win, Cwnd, Same
    <2>6. Extra(q) = Extra(flown)
      BY <2>2 DEF Same, Extra
    <2> DEFINE i == x + Extra(q)
               j == y + Extra(q)
    <2>7. i \in Int /\ j \in Int /\ i <= j
      BY <2>4, ExtraFacts
    <2>8. Fit(q, i)
      BY <2>5, <2>6
    <2> HIDE DEF i, j
    <2>9. Fit(q, j)
      BY <2>7, <2>8, WinWider DEF Fit
    <2>10. Count(q, g)
      <3>1. q.dupAckCount = flown.dupAckCount /\ q.dupAckCount \in Int
        BY <1>11, <2>2 DEF Typed, Same
      <3>2. h <= g /\ g \in Int
        BY <1>9, <1>11 DEF g
      <3> QED  BY <1>3, <1>12, <3>1, <3>2 DEF Count
    <2> QED  BY <2>9, <2>10 DEF j, y, g, Bounded, q, n, b, flown
  <1> QED  BY <1>13, <1>14 DEF n, b

----------------------------------------------------------------------------
(* The steps.                                                              *)

\* What a handler leaves is the socket of the next state.
LEMMA HandledWin ==
    ASSUME NEW s, DOMAIN s = Fields, Bounded(s), NEW next, Handled(s, next)
    PROVE  Bounded(snd') /\ snd' = [x \in Fields |-> snd'[x]]
  <1>1. snd' = [s EXCEPT !.out = {}]
    BY DEF Handled
  <1> DEFINE q == [s EXCEPT !.out = {}]
  <1>2. /\ Aside(q, s) /\ q.dupAckCount = s.dupAckCount /\ q.congState = s.congState
        /\ q.una = s.una /\ q.sacked = s.sacked
    BY DEF Aside, FrameKept, Fields
  <1>3. q = [x \in Fields |-> q[x]]
    OBVIOUS
  <1> HIDE DEF q
  <1>4. Heard(q) = Heard(s) /\ Extra(q) = Extra(s)
    BY <1>2 DEF Heard, Extra
  <1>5. Bounded(q)
    <2> DEFINE y == Base + 2 * Span(Heard(s)) + Extra(s)
    <2>1. Fit(s, y)
      BY DEF Bounded
    <2> HIDE DEF y
    <2>2. Fit(q, y)
      BY <1>2, <2>1, AsideFit
    <2> QED  BY <1>2, <1>4, <2>2 DEF y, Bounded, Count
  <1>6. snd' = q
    BY <1>1 DEF q
  <1> QED  BY <1>3, <1>5, <1>6

\* The marks and the frame as they were.
LEMMA KeepsBounded ==
    ASSUME NEW q, NEW s, Bounded(s), q.una = s.una, q.sacked = s.sacked,
           q.congState = s.congState, q.dupAckCount = s.dupAckCount,
           \A b : Fit(s, b) => Fit(q, b)
    PROVE  Bounded(q)
  <1>1. Heard(q) = Heard(s) /\ Extra(q) = Extra(s)
    BY DEF Heard, Extra
  <1> QED  BY <1>1 DEF Bounded, Count

LEMMA SendWinStep ==
    ASSUME Inv, Windows, Send
    PROVE  Bounded(snd') /\ snd' = [x \in Fields |-> snd'[x]]
  <1> DEFINE s == [snd EXCEPT !.written = @ + 1]
  <1>1. Handled(s, "sending")
    BY DEF Send
  <1>2. DOMAIN snd = Fields
    BY DEF Inv, Socket, Typed
  <1>3. /\ DOMAIN s = Fields /\ s.una = snd.una /\ s.sacked = snd.sacked
        /\ s.congState = snd.congState /\ s.dupAckCount = snd.dupAckCount /\ Aside(s, snd)
    BY <1>2 DEF Aside, FrameKept, Fields
  <1> HIDE DEF s
  <1>4. Bounded(s)
    BY <1>3, AsideFit, KeepsBounded DEF Windows
  <1> QED  BY <1>1, <1>3, <1>4, HandledWin

LEMMA SendSegmentWinStep ==
    ASSUME Inv, Windows, SendSegment
    PROVE  Bounded(snd') /\ snd' = [x \in Fields |-> snd'[x]]
  <1> DEFINE i == NextSeg(snd, snd.congState = "RECOVERY")
             s == SendDataPacket(snd, i)
  <1>1. Handled(s, phase) /\ CanSend(snd)
    BY DEF SendSegment
  <1>2. Typed(snd) /\ Board(snd)
    BY DEF Inv, Socket
  <1>3. Sendable(snd, i)
    <2>1. i # None
      BY <1>1 DEF CanSend
    <2> QED  BY <1>2, <2>1, SendableFacts
  <1> HIDE DEF i
  <1>4. SendKeeps(s, snd) /\ Typed(s)
    BY <1>2, <1>3, SendFacts
  <1>5. \A b : Fit(snd, b) => Fit(s, b)
    BY <1>2, SendFit
  <1> HIDE DEF s
  <1>6. Bounded(s)
    BY <1>4, <1>5, KeepsBounded DEF Windows, SendKeeps
  <1> QED  BY <1>1, <1>4, <1>6, HandledWin DEF Typed

LEMMA StopSendingWinStep ==
    ASSUME Inv, Windows, StopSending
    PROVE  Bounded(snd') /\ snd' = [x \in Fields |-> snd'[x]]
  <1> DEFINE f == BytesInFlight(snd)
             s == [snd EXCEPT !.bytesInFlight = f]
             t == IF phase = "afterRto" THEN Assert(s, f <= SegSize, "RtoFlight") ELSE s
  <1>1. Handled(t, "idle")
    BY DEF StopSending
  <1>2. Typed(snd) /\ Board(snd) /\ DOMAIN snd = Fields
    BY DEF Inv, Socket, Typed
  <1>3. f \in Bytes
    BY <1>2, FlightBytes
  <1> HIDE DEF f
  <1>4. \A b : Fit(snd, b) => Fit(s, b)
    BY <1>2, <1>3, FlownFit
  <1>5. Same(s, snd) /\ DOMAIN s = Fields
    BY <1>2 DEF Same, Fields
  <1> HIDE DEF s
  <1>6. Typed(s)
    BY <1>2, <1>5, SameGives
  <1>7. /\ DOMAIN t = Fields /\ t.una = s.una /\ t.sacked = s.sacked
        /\ t.congState = s.congState /\ t.dupAckCount = s.dupAckCount
        /\ \A b : Fit(s, b) => Fit(t, b)
    <2>1. CASE phase = "afterRto"
      <3> DEFINE c == f <= SegSize
      <3>1. t = Assert(s, c, "RtoFlight")
        BY <2>1
      <3>2. "RtoFlight" \in Failures
        BY DEF Failures
      <3> HIDE DEF c, t
      <3>3. /\ Typed(t) /\ SameMarks(t, s) /\ t.congState = s.congState
            /\ t.dupAckCount = s.dupAckCount
        BY <1>6, <3>1, AssertFacts
      <3>4. \A b : Fit(s, b) => Fit(t, b)
        BY <1>5, <3>1, <3>2, AssertFit
      <3> QED  BY <3>3, <3>4 DEF SameMarks, Typed
    <2>2. CASE phase # "afterRto"
      BY <1>5, <2>2
    <2> QED  BY <2>1, <2>2
  <1> HIDE DEF t
  <1>8. Bounded(t)
    BY <1>4, <1>5, <1>7, KeepsBounded DEF Windows, Same
  <1> QED  BY <1>1, <1>7, <1>8, HandledWin

LEMMA ReceivedAckWinStep ==
    ASSUME Classic, Ample, Inv, Windows, NEW a \in acks, NEW ece \in Ece, NEW c \in BOOLEAN,
           ReceivedAck(a, ece, c)
    PROVE  Bounded(snd') /\ snd' = [x \in Fields |-> snd'[x]]
  <1>1. Running(snd)
    BY DEF ReceivedAck
  <1>2. /\ Socket(snd) /\ Truthful /\ snd.una \in Int /\ snd.nxt \in Int /\ 0 <= snd.una
        /\ Bounded(snd)
    BY DEF Inv, Socket, Typed, Board, Windows
  <1>3. CASE a.ack < snd.una
    <2>1. UNCHANGED snd
      BY <1>3 DEF ReceivedAck
    <2> QED  BY <2>1 DEF Windows, Bounded, Fit, Frame, Win, Cwnd, Count, Heard, Extra
  <1>4. CASE ~(a.ack < snd.una)
    <2>1. /\ a.ack \in 0..NumSegs /\ 0..(a.ack - 1) \subseteq rcvd /\ a.sack \subseteq rcvd
          /\ \A i \in a.sack : i > a.ack
          /\ a.ack \notin snd.sacked /\ snd.una \notin a.sack
          /\ rcvd \subseteq 0..(snd.nxt - 1)
      BY <1>2 DEF Truthful, AckOK
    <2>2. a.ack \in Int /\ snd.una <= a.ack /\ a.ack <= snd.nxt
      <3>1. a.ack \in Int /\ snd.una <= a.ack /\ 0 <= a.ack
        BY <1>2, <1>4, <2>1
      <3>2. snd.una <= snd.nxt
        BY <1>2 DEF Socket, Board
      <3>3. CASE a.ack = 0
        BY <1>2, <3>1, <3>2, <3>3
      <3>4. CASE a.ack > 0
        <4>1. a.ack - 1 \in 0..(a.ack - 1)
          BY <3>1, <3>4
        <4>2. a.ack - 1 \in 0..(snd.nxt - 1)
          BY <2>1, <4>1
        <4> QED  BY <1>2, <3>1, <4>2
      <3> QED  BY <3>1, <3>3, <3>4
    <2>3. ece \in BOOLEAN /\ snd.alive
      <3>1. ece \in BOOLEAN
        BY Zenon DEF Ece
      <3>2. snd.alive
        BY <1>1 DEF Running
      <3> QED  BY <3>1, <3>2
    <2>4. PICK q : Handled(q, "sending") /\ Answers(q, snd, a.ack, a.sack) /\ Bounded(q)
      <3> DEFINE updated == Update(snd, a.sack)
                 newly == NewlySacked(snd, a.sack)
                 acked == snd.una..(a.ack - 1)
                 delivered == SizeOf(newly \cup (acked \ snd.sacked))
                 retransAcked == /\ snd.congState = "RECOVERY" /\ a.ack < snd.recover
                                 /\ acked \cap (updated.retrans \ updated.sacked) # {}
                 kept == DiscardUpTo(updated, a.ack)
                 leftCwr == IF kept.congState = "CWR" /\ a.ack > kept.recover
                            THEN RecoveryOpsExit([kept EXCEPT !.congState = "OPEN",
                                                              !.cwnd = kept.ssThresh])
                            ELSE kept
                 echoed == IF acked # {} /\ ece /\ leftCwr.congState # "CWR"
                           THEN EnterCwr(leftCwr, delivered, retransAcked)
                           ELSE leftCwr
                 flown == [echoed EXCEPT !.bytesInFlight = BytesInFlight(echoed)]
                 q == ProcessAck(flown, Cardinality(acked), newly # {}, delivered,
                                 retransAcked, c)
      <3>1. Handled(q, "sending")
        BY <1>4, Zenon DEF ReceivedAck
      <3>2. Answers(q, snd, a.ack, a.sack)
        <4> HIDE DEF retransAcked, delivered
        <4> QED  BY <1>2, <2>1, <2>2, <2>3, AnswersFacts, ZenonT(40)
      <3>3. Bounded(q)
        <4> HIDE DEF retransAcked, delivered
        <4> QED  BY <1>2, <2>1, <2>2, <2>3, AckFit, ZenonT(40)
      <3> HIDE DEF q
      <3> QED  BY <3>1, <3>2, <3>3
    <2>5. DOMAIN q = Fields
      BY <2>4 DEF Answers, Typed
    <2> QED  BY <2>4, <2>5, HandledWin
  <1> QED  BY <1>3, <1>4

\* A timeout leaves one segment of window, and one retry less.
LEMMA TimeoutWin ==
    ASSUME Ample, NEW s, Socket(s), Bounded(s), s.retries # 0
    PROVE  LET lost == [SetSentListLost(s) EXCEPT !.dupAckCount = 0]
               asked == Assert(lost, lost.ackSeen, "CerlAckSeen")
               loss == [asked EXCEPT
                          !.retxEvent = FALSE, !.retries = @ - 1,
                          !.recover = s.nxt, !.recoverActive = TRUE,
                          !.ssThresh = IF s.congState # "LOSS" \/ lost.una \notin lost.retrans
                                       THEN HalfFlight(BytesInFlight(s)) ELSE @,
                          !.congState = "LOSS", !.cwnd = SegSize, !.cwndInfl = SegSize,
                          !.bytesInFlight = BytesInFlight(lost)]
               q == Assert(loss, BytesInFlight(lost) = 0, "RtoInFlight")
           IN  Fit(q, Base) /\ q.dupAckCount = 0
  <1> DEFINE m == SetSentListLost(s)
             lost == [m EXCEPT !.dupAckCount = 0]
             asked == Assert(lost, lost.ackSeen, "CerlAckSeen")
             left == asked.retries - 1
             half == HalfFlight(BytesInFlight(s))
             th == IF s.congState # "LOSS" \/ lost.una \notin lost.retrans
                   THEN half ELSE asked.ssThresh
             f == BytesInFlight(lost)
             loss == [asked EXCEPT
                        !.retxEvent = FALSE, !.retries = left,
                        !.recover = s.nxt, !.recoverActive = TRUE, !.ssThresh = th,
                        !.congState = "LOSS", !.cwnd = SegSize, !.cwndInfl = SegSize,
                        !.bytesInFlight = f]
             q == Assert(loss, f = 0, "RtoInFlight")
             z == Base + 2 * Span(Heard(s)) + Extra(s)
  <1>1. Typed(s) /\ Board(s) /\ DOMAIN s = Fields
    BY DEF Socket, Typed
  <1>2. Fit(s, z)
    BY DEF Bounded
  <1> HIDE DEF z
  <1>3. Typed(m) /\ Board(m)
    BY <1>1, AllLostFacts
  <1>4. Aside(m, s)
    BY <1>1 DEF SetSentListLost, Aside, FrameKept, Fields
  <1> HIDE DEF m
  <1>5. DOMAIN m = Fields
    BY <1>3 DEF Typed
  <1>6. DOMAIN lost = Fields /\ SameMarks(lost, m) /\ Aside(lost, m) /\ lost.dupAckCount = 0
        /\ lost.isFirstPartialAck = m.isFirstPartialAck /\ SamePoint(lost, m)
        /\ lost.retxEvent = m.retxEvent /\ lost.alive = m.alive
    BY <1>5 DEF SameMarks, SamePoint, Aside, FrameKept, Fields
  <1> HIDE DEF lost
  <1>7. Typed(lost) /\ Board(lost)
    <2>1. Typed(lost)
      BY <1>3, <1>6 DEF Typed, SameMarks, SamePoint
    <2> QED  BY <1>3, <1>6, <2>1, MarksBoard
  <1>8. Fit(lost, z)
    <2>1. Fit(m, z)
      BY <1>2, <1>4, AsideFit
    <2> QED  BY <1>6, <2>1, AsideFit
  <1>9. f \in Bytes
    BY <1>7, FlightBytes
  <1>10. Threshold(half)
    <2>1. BytesInFlight(s) \in Bytes
      BY <1>1, FlightBytes
    <2> QED  BY <2>1, HalfFacts
  <1>11. Fit(asked, z)
    <2>1. "CerlAckSeen" \in Failures
      BY DEF Failures
    <2> QED  BY <1>6, <1>8, <2>1, AssertFit
  <1>12. Typed(asked) /\ asked.dupAckCount = 0 /\ DOMAIN asked = Fields
    <2>1. Typed(asked) /\ asked.dupAckCount = lost.dupAckCount
      BY <1>7, AssertFacts
    <2> QED  BY <1>6, <2>1 DEF Typed
  <1>13. asked.retries = s.retries
    <2>1. asked.retries = lost.retries
      BY <1>6 DEF Assert, Fields
    <2> QED  BY <1>4, <1>6, <2>1 DEF Aside, FrameKept
  <1> HIDE DEF asked, half, f
  <1>14. left \in 0..DataRetries
    <2>1. s.retries \in 0..DataRetries /\ DataRetries \in Nat
      BY <1>2, SenderAssumption DEF Fit, Frame
    <2> QED  BY <1>13, <2>1
  <1>15. Threshold(th)
    <2>1. Threshold(asked.ssThresh)
      BY <1>11 DEF Fit, Frame
    <2>2. th = half \/ th = asked.ssThresh
      OBVIOUS
    <2> HIDE DEF th
    <2> QED  BY <1>10, <2>1, <2>2
  <1>16. s.nxt \in 0..NumSegs
    BY <1>1, SenderAssumption DEF Typed, Board
  <1> HIDE DEF left, th
  <1>17. /\ loss.ssThresh = th /\ loss.recover = s.nxt /\ loss.recovery = asked.recovery
         /\ loss.bytesInFlight = f /\ loss.recoveryFlight = asked.recoveryFlight
         /\ loss.retries = left /\ loss.ackSeen = asked.ackSeen /\ loss.oldCwnd = asked.oldCwnd
         /\ loss.maxSentSeq = asked.maxSentSeq /\ loss.prrDelivered = asked.prrDelivered
         /\ loss.prrOut = asked.prrOut /\ loss.build = asked.build /\ loss.failed = asked.failed
         /\ loss.cwnd = SegSize /\ loss.cwndInfl = SegSize /\ loss.dupAckCount = 0
         /\ DOMAIN loss = Fields
    BY <1>12 DEF Fields
  <1> HIDE DEF loss
  <1>18. Fit(loss, Base)
    <2>1. Frame(loss)
      BY <1>9, <1>11, <1>14, <1>15, <1>16, <1>17 DEF Fit, Frame
    <2>2. Win(loss, Base)
      <3>1. SegSize \in Int /\ 0 <= SegSize /\ SegSize <= SegSize /\ SegSize <= Base
            /\ SegSize < Word
        BY SpanFacts, BaseFacts
      <3> QED  BY <1>17, <3>1 DEF Win, Cwnd
    <2> QED  BY <2>1, <2>2 DEF Fit
  <1>19. Fit(q, Base)
    <2>1. "RtoInFlight" \in Failures
      BY DEF Failures
    <2> QED  BY <1>17, <1>18, <2>1, AssertFit
  <1>20. q.dupAckCount = 0
    BY <1>17 DEF Assert, Fields
  <1> QED  BY <1>19, <1>20 DEF q, loss, f, th, half, left, asked, lost, m

LEMMA ReTxTimeoutWinStep ==
    ASSUME Ample, Inv, Windows, ReTxTimeout
    PROVE  Bounded(snd') /\ snd' = [x \in Fields |-> snd'[x]]
  <1>1. Socket(snd) /\ DOMAIN snd = Fields /\ Bounded(snd)
    BY DEF Inv, Socket, Typed, Windows
  <1>2. CASE snd.una = snd.written \/ snd.retries = 0
    <2> DEFINE live == snd.una = snd.written
               s == IF live THEN [snd EXCEPT !.retxEvent = FALSE]
                    ELSE [snd EXCEPT !.retxEvent = FALSE, !.alive = FALSE]
    <2>1. Handled(s, "idle")
      BY <1>2, Zenon DEF ReTxTimeout
    <2>2. /\ DOMAIN s = Fields /\ s.una = snd.una /\ s.sacked = snd.sacked
          /\ s.congState = snd.congState /\ s.dupAckCount = snd.dupAckCount /\ Aside(s, snd)
      <3> HIDE DEF live
      <3>1. CASE live
        BY <1>1, <3>1 DEF Aside, FrameKept, Fields
      <3>2. CASE ~live
        BY <1>1, <3>2 DEF Aside, FrameKept, Fields
      <3> QED  BY <3>1, <3>2
    <2> HIDE DEF s
    <2>3. Bounded(s)
      BY <1>1, <2>2, AsideFit, KeepsBounded
    <2> QED  BY <2>1, <2>2, <2>3, HandledWin
  <1>3. CASE ~(snd.una = snd.written \/ snd.retries = 0)
    <2> DEFINE lost == [SetSentListLost(snd) EXCEPT !.dupAckCount = 0]
               asked == Assert(lost, lost.ackSeen, "CerlAckSeen")
               loss == [asked EXCEPT
                          !.retxEvent = FALSE, !.retries = @ - 1,
                          !.recover = snd.nxt, !.recoverActive = TRUE,
                          !.ssThresh = IF snd.congState # "LOSS" \/ lost.una \notin lost.retrans
                                       THEN HalfFlight(BytesInFlight(snd)) ELSE @,
                          !.congState = "LOSS", !.cwnd = SegSize, !.cwndInfl = SegSize,
                          !.bytesInFlight = BytesInFlight(lost)]
               s == Assert(loss, BytesInFlight(lost) = 0, "RtoInFlight")
    <2>1. Handled(s, "afterRto")
      BY <1>3, Zenon DEF ReTxTimeout
    <2>2. Socket(s) /\ s.congState = "LOSS"
      BY <1>1, TimeoutFacts
    <2>3. Fit(s, Base) /\ s.dupAckCount = 0
      BY <1>1, <1>3, TimeoutWin
    <2> HIDE DEF s
    <2>4. Typed(s) /\ Board(s) /\ DOMAIN s = Fields
      BY <2>2 DEF Socket, Typed
    <2>5. Heard(s) \in Int /\ 0 <= Heard(s)
      BY <2>4, HeardBound
    <2>6. Extra(s) = 0
      BY <2>2 DEF Extra
    <2>7. Bounded(s)
      <3> DEFINE h == Heard(s)
                 y == Base + 2 * Span(h) + Extra(s)
      <3>1. 0 \in Int /\ h \in Int /\ 0 <= h
        BY <2>5
      <3> HIDE DEF h
      <3>2. Span(0) <= Span(h)
        BY <3>1, SpanOrder
      <3>3. Span(h) \in Int
        BY <3>1, SpanSum
      <3>4. Base \in Int /\ y \in Int /\ Base <= y
        BY <2>6, <3>2, <3>3, SpanFacts, BaseFacts
      <3> HIDE DEF y
      <3>5. Fit(s, y)
        BY <2>3, <3>4, WinWider DEF Fit
      <3>6. Count(s, h)
        BY <2>3, <3>1 DEF Count
      <3> QED  BY <3>5, <3>6 DEF Bounded, y, h
    <2> QED  BY <2>1, <2>4, <2>7, HandledWin
  <1> QED  BY <1>2, <1>3

LEMMA UnchangedWindows ==
    ASSUME Windows, UNCHANGED snd
    PROVE  Bounded(snd') /\ snd' = [x \in Fields |-> snd'[x]]
  BY DEF Windows, Bounded, Fit, Frame, Win, Cwnd, Count, Heard, Extra

\* The ACK for a segment is one that ReceivedAck expects.
LEMMA DeliverAcks ==
    ASSUME Inv, Windows, NEW i \in Segs, Deliver(i)
    PROVE  acks' \subseteq [ack : 0..NumSegs, sack : SUBSET Segs]
  <1> DEFINE held == rcvd'
             m == Min({j \in 0..NumSegs : j \notin held})
             k == {j \in held : j > m}
             a == [ack |-> m, sack |-> k]
  <1>1. /\ i \in net /\ rcvd' = rcvd \cup {i} /\ (acks' = acks \/ acks' = acks \cup {a})
    BY DEF Deliver, AckFor
  <1>2. /\ Truthful /\ snd.nxt \in Int /\ snd.nxt <= NumSegs
    BY SenderAssumption DEF Inv, Socket, Typed, Board
  <1>3. held \subseteq 0..(snd.nxt - 1)
    BY <1>1, <1>2 DEF Truthful
  <1> HIDE DEF held
  <1>4. m \in 0..NumSegs
    <2>1. AckFor(held).ack \in 0..NumSegs
      BY <1>2, <1>3, AckForFacts
    <2>2. AckFor(held).ack = m
      BY DEF AckFor
    <2> QED  BY <2>1, <2>2
  <1>5. held \subseteq Segs
    BY <1>2, <1>3, SpanFacts DEF Segs
  <1> HIDE DEF m
  <1>6. k \subseteq Segs
    BY <1>5
  <1> HIDE DEF k
  <1>7. a \in [ack : 0..NumSegs, sack : SUBSET Segs]
    BY <1>4, <1>6
  <1> HIDE DEF a
  <1> QED  BY <1>1, <1>7 DEF Windows

LEMMA InitWindows ==
    ASSUME Ample, Init
    PROVE  Windows
  <1> DEFINE w == InitialCwnd * SegSize
  <1>1. PICK r \in Recoveries, b \in Builds :
             snd = [una |-> 0, nxt |-> 0, written |-> FirstWrite,
                sacked |-> {}, lost |-> {}, retrans |-> {}, highSack |-> None,
                cwnd |-> w, cwndInfl |-> w,
                ssThresh |-> InitialSsThresh, congState |-> "OPEN",
                recover |-> 0, recoverActive |-> FALSE, dupAckCount |-> 0,
                isFirstPartialAck |-> TRUE, bytesInFlight |-> 0,
                retxEvent |-> FALSE, retries |-> DataRetries, ackSeen |-> FALSE,
                oldCwnd |-> None, maxSentSeq |-> 0,
                recovery |-> r, prrDelivered |-> 0, prrOut |-> 0, recoveryFlight |-> 0,
                out |-> {}, alive |-> TRUE, build |-> b, failed |-> "none"]
    BY DEF Init
  <1>2. w = Span(InitialCwnd)
    BY SenderAssumption DEF Span
  <1> HIDE DEF w
  <1>3. /\ snd.cwnd = w /\ snd.cwndInfl = w /\ snd.ssThresh = InitialSsThresh
        /\ snd.recover = 0 /\ snd.recovery \in Recoveries /\ snd.bytesInFlight = 0
        /\ snd.recoveryFlight = 0 /\ snd.retries = DataRetries /\ snd.ackSeen = FALSE
        /\ snd.oldCwnd = None /\ snd.maxSentSeq = 0 /\ snd.prrDelivered = 0 /\ snd.prrOut = 0
        /\ snd.build \in Builds /\ snd.failed = "none" /\ snd.una = 0 /\ snd.sacked = {}
        /\ snd.congState = "OPEN" /\ snd.dupAckCount = 0
    BY <1>1
  <1>4. snd = [x \in Fields |-> snd[x]]
    BY <1>1 DEF Fields
  <1>5. acks \subseteq [ack : 0..NumSegs, sack : SUBSET Segs]
    BY DEF Init
  <1>6. Frame(snd)
    <2>1. Threshold(InitialSsThresh)
      BY BaseFacts
    <2>2. 0 \in Bytes
      <3> DEFINE v == 2 * SegSize * NumSegs
      <3>1. v = 2 * Span(NumSegs)
        BY SenderAssumption DEF Span
      <3> HIDE DEF v
      <3>2. v \in Int /\ 0 <= v
        BY <3>1, BaseFacts
      <3> QED  BY <3>2 DEF Bytes, v
    <2>3. 0 \in 0..NumSegs /\ DataRetries \in 0..DataRetries
      BY SenderAssumption
    <2>4. Word \in Int /\ 1 < Word
      BY BaseFacts, SpanFacts
    <2>5. None \in (-Word)..(Word - 1) /\ 0 \in 0..(Word - 1)
      BY <2>4 DEF None
    <2>6. "none" \in Failures /\ FALSE \in BOOLEAN
      BY Zenon DEF Failures
    <2> QED  BY <1>3, <2>1, <2>2, <2>3, <2>5, <2>6 DEF Frame
  <1>7. Heard(snd) = 0 /\ Extra(snd) = 0
    BY <1>3, FS_EmptySet DEF Heard, Extra
  <1>8. Win(snd, Base)
    BY <1>2, <1>3, SpanFacts, BaseFacts DEF Win, Cwnd
  <1>9. Base + 2 * Span(Heard(snd)) + Extra(snd) = Base
    BY <1>7, SpanFacts, BaseFacts
  <1>10. Bounded(snd)
    BY <1>3, <1>6, <1>7, <1>8, <1>9 DEF Bounded, Fit, Count
  <1> QED  BY <1>4, <1>5, <1>10 DEF Windows

LEMMA NextWindows ==
    ASSUME Classic, Ample, Inv, Windows, [Next]_vars
    PROVE  Windows'
  <1> DEFINE Kept == Bounded(snd') /\ snd' = [x \in Fields |-> snd'[x]]
             Known == acks' \subseteq [ack : 0..NumSegs, sack : SUBSET Segs]
  <1> SUFFICES Kept /\ Known
    BY DEF Windows, Bounded, Fit, Frame, Win, Cwnd, Count, Heard, Extra
  <1> HIDE DEF Kept, Known
  <1>1. ASSUME acks' \subseteq acks PROVE Known
    BY <1>1 DEF Windows, Known
  <1>2. CASE Send
    BY <1>1, <1>2, SendWinStep DEF Send, Kept
  <1>3. CASE SendSegment
    BY <1>1, <1>3, SendSegmentWinStep DEF SendSegment, Kept
  <1>4. CASE StopSending
    BY <1>1, <1>4, StopSendingWinStep DEF StopSending, Kept
  <1>5. CASE ReTxTimeout
    BY <1>1, <1>5, ReTxTimeoutWinStep DEF ReTxTimeout, Kept
  <1>6. CASE Lose
    <2>1. UNCHANGED snd /\ acks' \subseteq acks
      BY <1>6 DEF Lose
    <2> QED  BY <1>1, <2>1, UnchangedWindows DEF Kept
  <1>7. ASSUME NEW i \in Segs, Deliver(i) PROVE Kept /\ Known
    <2>1. UNCHANGED snd
      BY <1>7 DEF Deliver
    <2> QED  BY <1>7, <2>1, UnchangedWindows, DeliverAcks DEF Kept, Known
  <1>8. ASSUME NEW a \in acks, NEW ece \in Ece, NEW c \in BOOLEAN, ReceivedAck(a, ece, c)
        PROVE  Kept /\ Known
    <2>1. acks' \subseteq acks
      BY <1>8 DEF ReceivedAck
    <2> QED  BY <1>1, <1>8, <2>1, ReceivedAckWinStep DEF Kept
  <1>9. CASE UNCHANGED vars
    <2>1. UNCHANGED snd /\ acks' \subseteq acks
      BY <1>9 DEF vars
    <2> QED  BY <1>1, <2>1, UnchangedWindows DEF Kept
  <1> QED  BY <1>2, <1>3, <1>4, <1>5, <1>6, <1>7, <1>8, <1>9 DEF Next

----------------------------------------------------------------------------
(* What the windows mean.                                                  *)

LEMMA WindowsTyped ==
    ASSUME Ample, Inv, Windows
    PROVE  TypeOK
  <1>1. Typed(snd) /\ Board(snd) /\ snd.out = {} /\ Truthful
    BY DEF Inv, Socket
  <1>2. Frame(snd) /\ 0 <= snd.dupAckCount
    BY DEF Windows, Bounded, Fit, Count
  <1>3. snd.cwnd \in 0..(Word - 1) /\ snd.cwndInfl \in 0..(Word - 1)
        /\ snd.ssThresh \in 0..(Word - 1)
    <2>1. Word \in Int /\ 0 <= SegSize /\ SegSize \in Int
      BY BaseFacts, SpanFacts
    <2>2. /\ snd.cwnd \in Int /\ 0 <= snd.cwnd /\ snd.cwnd < Word
          /\ snd.cwndInfl \in Int /\ 0 <= snd.cwndInfl /\ snd.cwndInfl < Word
          /\ snd.ssThresh \in Int /\ SegSize <= snd.ssThresh /\ snd.ssThresh < Word
      BY <1>2 DEF Windows, Bounded, Fit, Win, Cwnd, Frame, Threshold
    <2> QED  BY <2>1, <2>2
  <1>6. /\ snd.una \in 0..NumSegs /\ snd.nxt \in 0..NumSegs /\ snd.written \in 0..NumSegs
        /\ snd.dupAckCount \in Nat
    BY <1>1, <1>2, SenderAssumption DEF Typed, Board
  <1>7. /\ Sent(snd) \subseteq Segs /\ net \subseteq Segs /\ rcvd \subseteq Segs
    BY <1>1, <1>6, SenderAssumption DEF Sent, Segs, Truthful
  <1>8. /\ snd.sacked \in SUBSET Segs /\ snd.lost \in SUBSET Segs /\ snd.retrans \in SUBSET Segs
    BY <1>1, <1>7 DEF Board
  <1>9. snd.highSack \in Segs \cup {None}
    BY <1>1, <1>8 DEF Board, HighOK
  <1>10. snd = [x \in Fields |-> snd[x]]
    BY DEF Windows
  <1>11. /\ snd.congState \in CongStates /\ snd.recoverActive \in BOOLEAN
         /\ snd.isFirstPartialAck \in BOOLEAN /\ snd.retxEvent \in BOOLEAN
         /\ snd.alive \in BOOLEAN /\ snd.out \in {{}}
    BY <1>1, Zenon DEF Typed
  <1>12. snd \in [una : 0..NumSegs, nxt : 0..NumSegs, written : 0..NumSegs,
                  sacked : SUBSET Segs, lost : SUBSET Segs, retrans : SUBSET Segs,
                  highSack : Segs \cup {None},
                  cwnd : 0..(Word - 1), cwndInfl : 0..(Word - 1), ssThresh : 0..(Word - 1),
                  congState : CongStates, recover : 0..NumSegs, recoverActive : BOOLEAN,
                  dupAckCount : Nat, isFirstPartialAck : BOOLEAN, bytesInFlight : Bytes,
                  retxEvent : BOOLEAN, retries : 0..DataRetries, ackSeen : BOOLEAN,
                  oldCwnd : (-Word)..(Word - 1), maxSentSeq : 0..NumSegs,
                  recovery : Recoveries, prrDelivered : 0..(Word - 1), prrOut : 0..(Word - 1),
                  recoveryFlight : Bytes, out : {{}}, alive : BOOLEAN, build : Builds,
                  failed : Failures]
    BY <1>2, <1>3, <1>6, <1>8, <1>9, <1>10, <1>11 DEF Frame, Fields
  <1>13. acks \subseteq [ack : 0..NumSegs, sack : SUBSET Segs]
    BY DEF Windows
  <1>14. phase \in {"idle", "sending", "afterRto"}
    BY DEF Inv
  <1> QED  BY <1>7, <1>12, <1>13, <1>14, Zenon DEF TypeOK, Failures

\* The threshold of an empty window is the initial one, and above Base.
LEMMA EmptyWindow ==
    ASSUME Ample, Windows, snd.cwnd < SegSize
    PROVE  snd.ssThresh = InitialSsThresh /\ ~(snd.ssThresh <= Base)
  <1>1. /\ snd.cwnd \in Int /\ (snd.ssThresh <= Base => SegSize <= snd.cwnd)
        /\ snd.ssThresh <= Base \/ snd.ssThresh = InitialSsThresh
    BY DEF Windows, Bounded, Fit, Win, Cwnd, Frame, Threshold
  <1> QED  BY <1>1, SpanFacts

\* While the threshold has not been reduced from a larger one, the window
\* holds a segment between events.
UsableAtFirst == Idle /\ ~(snd.ssThresh <= Base) => snd.cwnd >= SegSize

LEMMA WindowsHold ==
    ASSUME Ample, Windows, UsableAtFirst
    PROVE  WindowHolds
  <1>1. snd.cwnd \in Int
    BY DEF Windows, Bounded, Fit, Win, Cwnd
  <1> QED  BY <1>1, EmptyWindow, SpanFacts DEF UsableAtFirst, WindowHolds

----------------------------------------------------------------------------
(* The theorems.                                                           *)

\* With TcpClassicRecovery and any initial threshold of at least a segment, the
\* default included, every m_ssThresh that TcpCerl, EnterCwr and ReTxTimeout
\* set is small, and once one is set the windows stay within what the peer has
\* reported: above the initial window, two segments for each segment
\* acknowledged or SACKed, and the duplicate ACKs of a recovery.
THEOREM WindowsBounded ==
    ASSUME Classic, Ample PROVE Spec => []Windows
  <1>1. Init => Windows
    BY InitWindows
  <1>2. Inv /\ Windows /\ [Next]_vars => Windows'
    BY NextWindows
  <1> QED  BY <1>1, <1>2, Invariance, PTL DEF Spec

\* Every field of the socket and every message keeps its type, whatever wraps:
\* CongestionAvoidance never divides by an empty window, and no count of
\* retries or duplicate ACKs leaves the range of its C++ type.
THEOREM SenderTyped ==
    ASSUME Classic, Ample PROVE Spec => []TypeOK
  <1>1. Inv /\ Windows => TypeOK
    BY WindowsTyped
  <1> QED  BY <1>1, Invariance, WindowsBounded, PTL

\* m_cWnd holds a segment after every event from the first reduction of
\* m_ssThresh on: neither the unsigned arithmetic of the windows nor any order
\* of recoveries, CWR and timeouts stops the sender.
THEOREM WindowsUsable ==
    ASSUME Classic, Ample PROVE Spec => []WindowUsable
  <1>1. Windows => WindowUsable
    <2> SUFFICES ASSUME Windows, Idle, snd.cwnd < SegSize
                 PROVE  snd.ssThresh = InitialSsThresh /\ snd.recovery # "PRR"
      BY DEF WindowUsable
    <2>1. snd.recovery # "PRR"
      BY DEF Windows, Bounded, Fit, Frame, Classic
    <2> QED  BY <2>1, EmptyWindow
  <1> QED  BY <1>1, WindowsBounded, PTL

\* While data is not acknowledged m_retxEvent runs between events, or nothing
\* is in flight and the window was lost before the first reduction.
THEOREM TimerAlways ==
    ASSUME Classic, Ample PROVE Spec => []TimerRuns
  BY TimerKept, SenderTyped, PTL

\* m_recover is active exactly in fast recovery, after a timeout and in the CWR
\* that can interrupt them, and not yet acknowledged in the first two, as long
\* as the window is not lost before the first reduction.
THEOREM PointAlways ==
    ASSUME Classic, Ample PROVE Spec /\ []UsableAtFirst => []RecoveryPoint
  <1>1. Windows /\ UsableAtFirst => WindowHolds
    BY WindowsHold
  <1> QED  BY <1>1, PointKept, SenderTyped, WindowsBounded, PTL

\* EnterRecovery and ReTxTimeout send the head of the sent list again, as long
\* as the window is not lost before the first reduction.
THEOREM HeadAlways ==
    ASSUME Classic, Ample PROVE Spec /\ []UsableAtFirst => HeadResent
  <1>1. Windows /\ UsableAtFirst => WindowHolds
    BY WindowsHold
  <1> QED  BY <1>1, HeadFirst, SenderTyped, WindowsBounded, PTL
=============================================================================
