------------------------ MODULE TcpConnection_proofs ------------------------
(***************************************************************************)
(* Proofs about TcpConnection, for every value of its constants: sequence  *)
(* numbers never leave the room of the SYN and the FIN, a socket that      *)
(* waits has a timer, a socket without an endpoint is silent, and every    *)
(* step is one of ConnectionLifecycle.                                     *)
(***************************************************************************)
EXTENDS TcpConnection, TLAPS

Flags == {"SYN", "SYNACK", "ACK", "FINACK", "RST", "RSTACK"}
Resets == {"RST", "RSTACK"}

SegmentType == [f : Flags, ack : Int, seq : Int]

\* SocketType without the bounds on the sequence numbers.
SockType ==
    [st : States, ep : BOOLEAN, nextTx : Int, highTx : Int, head : Int, rcvNxt : Int,
     fin : Int, retx : {"none", "SYN", "SYNACK", "FINACK", "RTO"},
     synCount : 0..SynRetries, retries : 0..DataRetries, lastAck : BOOLEAN,
     timewait : BOOLEAN, shutdown : BOOLEAN, notified : BOOLEAN, made : 0..(MaxForks + 1)]

ResultType == [k : SockType, out : SUBSET SegmentType]

----------------------------------------------------------------------------
(* What the shared helpers do, field by field.                             *)

KeepsNumbers(q, k) ==
    /\ q.nextTx = k.nextTx /\ q.highTx = k.highTx /\ q.head = k.head
    /\ q.rcvNxt = k.rcvNxt /\ q.fin = k.fin /\ q.made = k.made

Silent(k) == k.retx = "none" /\ ~k.lastAck /\ ~k.timewait

\* A result is a record of its two parts.
LEMMA ResultParts ==
    /\ \A r \in ResultType : r.k \in SockType /\ r.out \in SUBSET SegmentType
    /\ \A k \in SockType : Handling(k) \in ResultType /\ Handling(k).k = k /\ Handling(k).out = {}
  BY DEF ResultType, Handling

LEMMA WithSocket ==
    ASSUME NEW r \in ResultType, NEW k \in SockType
    PROVE  LET q == [r EXCEPT !.k = k] IN q \in ResultType /\ q.k = k /\ q.out = r.out
  BY DEF ResultType

LEMMA EnterFacts ==
    ASSUME NEW r \in ResultType, NEW st \in States
    PROVE  LET q == Enter(r, st) IN
           /\ q \in ResultType /\ q.k.st = st /\ q.out = r.out
           /\ KeepsNumbers(q.k, r.k) /\ q.k.ep = r.k.ep /\ q.k.retx = r.k.retx
           /\ q.k.lastAck = r.k.lastAck /\ q.k.timewait = r.k.timewait
           /\ q.k.notified = r.k.notified /\ q.k.shutdown = r.k.shutdown
           /\ q.k.synCount = r.k.synCount
  BY DEF Enter, ResultType, SockType, KeepsNumbers

\* What deallocates the endpoint silences the socket.
LEMMA DeallocateFacts ==
    ASSUME NEW r \in ResultType, r.k.ep
    PROVE  LET q == DeallocateEndPoint(r) IN
           /\ q \in ResultType /\ q.k.st = r.k.st /\ q.out = r.out
           /\ KeepsNumbers(q.k, r.k) /\ ~q.k.ep /\ Silent(q.k)
  BY DEF DeallocateEndPoint, CancelAllTimers, ResultType, SockType, KeepsNumbers, Silent

LEMMA CloseFacts ==
    ASSUME NEW r \in ResultType, r.k.ep
    PROVE  LET q == CloseAndNotify(r) IN
           /\ q \in ResultType /\ q.k.st = "CLOSED" /\ q.out = r.out
           /\ KeepsNumbers(q.k, r.k) /\ ~q.k.ep /\ Silent(q.k)
  <1> DEFINE c == [r EXCEPT !.k = [@ EXCEPT !.notified = TRUE, !.lastAck = FALSE,
                                            !.st = "CLOSED"]]
  <1>1. /\ c \in ResultType /\ c.k.ep /\ c.k.st = "CLOSED" /\ c.out = r.out
        /\ KeepsNumbers(c.k, r.k)
    BY DEF ResultType, SockType, KeepsNumbers, States
  <1>2. CloseAndNotify(r) = DeallocateEndPoint(c)
    BY DEF CloseAndNotify
  <1> HIDE DEF c
  <1> QED  BY <1>1, <1>2, DeallocateFacts DEF KeepsNumbers

\* Closing a dead socket again leaves it dead.
LEMMA CloseDeadFacts ==
    ASSUME NEW r \in ResultType, ~r.k.ep, Silent(r.k)
    PROVE  LET q == CloseAndNotify(r) IN
           /\ q \in ResultType /\ q.k.st = "CLOSED" /\ q.out = r.out
           /\ KeepsNumbers(q.k, r.k) /\ ~q.k.ep /\ Silent(q.k)
  <1> DEFINE c == [r EXCEPT !.k = [@ EXCEPT !.notified = TRUE, !.lastAck = FALSE,
                                            !.st = "CLOSED"]]
  <1>1. /\ c \in ResultType /\ ~c.k.ep /\ c.k.st = "CLOSED" /\ c.out = r.out
        /\ KeepsNumbers(c.k, r.k) /\ Silent(c.k)
    BY DEF ResultType, SockType, KeepsNumbers, States, Silent
  <1>2. CloseAndNotify(r) = c
    BY <1>1 DEF CloseAndNotify, DeallocateEndPoint
  <1> HIDE DEF c
  <1> QED  BY <1>1, <1>2

LEMMA SegmentFacts ==
    ASSUME NEW k \in SockType, NEW f \in Flags
    PROVE  LET s == Segment(k, f) IN
           /\ s \in SegmentType /\ s.f = f /\ s.ack = k.rcvNxt
           /\ s.seq = k.nextTx + (IF f # "FINACK" /\ k.st \in {"FIN_WAIT_1", "LAST_ACK", "CLOSING"}
                                  THEN 1 ELSE 0)
  BY DEF Segment, SegmentType, SockType

\* A segment that is no SYN is sent whenever there is an endpoint.
LEMMA SendFacts ==
    ASSUME NEW r \in ResultType, r.k.ep, NEW f \in Flags \ {"SYN", "SYNACK"}
    PROVE  LET q == SendEmptyPacket(r, f) IN
           /\ q \in ResultType /\ q.k.st = r.k.st /\ q.out = r.out \cup {Segment(r.k, f)}
           /\ KeepsNumbers(q.k, r.k) /\ q.k.ep
           /\ q.k.retx = (IF r.k.retx = "none" /\ f = "FINACK" THEN "FINACK" ELSE r.k.retx)
           /\ q.k.lastAck = r.k.lastAck /\ q.k.timewait = r.k.timewait
           /\ q.k.notified = r.k.notified /\ q.k.shutdown = r.k.shutdown
  <1> DEFINE q == SendEmptyPacket(r, f)
  <1>1. /\ q.k.st = r.k.st /\ q.out = r.out \cup {Segment(r.k, f)}
        /\ KeepsNumbers(q.k, r.k) /\ q.k.ep
        /\ q.k.retx = (IF r.k.retx = "none" /\ f = "FINACK" THEN "FINACK" ELSE r.k.retx)
        /\ q.k.lastAck = r.k.lastAck /\ q.k.timewait = r.k.timewait
        /\ q.k.notified = r.k.notified /\ q.k.shutdown = r.k.shutdown
    BY DEF SendEmptyPacket, ResultType, SockType, KeepsNumbers, Flags
  <1>2. q.k \in SockType
    BY DEF SendEmptyPacket, ResultType, SockType, Flags
  <1>3. Segment(r.k, f) \in SegmentType
    BY SegmentFacts, ResultParts
  <1>4. q.out \in SUBSET SegmentType
    BY <1>1, <1>3, ResultParts
  <1>5. q = [k |-> q.k, out |-> q.out]
    BY DEF SendEmptyPacket, ResultType
  <1>6. q \in ResultType
    BY <1>2, <1>4, <1>5 DEF ResultType
  <1> QED  BY <1>1, <1>6

\* A SYN uses up one retry, and closes the socket when there is none left.
LEMMA SendSynFacts ==
    ASSUME NEW r \in ResultType, r.k.ep, NEW f \in {"SYN", "SYNACK"}
    PROVE  LET q == SendEmptyPacket(r, f) IN
           /\ q \in ResultType /\ KeepsNumbers(q.k, r.k)
           /\ r.k.synCount = 0 => q.k.st = "CLOSED" /\ ~q.k.ep /\ Silent(q.k) /\ q.out = r.out
           /\ r.k.synCount # 0 =>
                /\ q.k.st = r.k.st /\ q.out = r.out \cup {Segment(r.k, f)} /\ q.k.ep
                /\ q.k.retx = (IF r.k.retx = "none" THEN f ELSE r.k.retx)
                /\ q.k.lastAck = r.k.lastAck /\ q.k.timewait = r.k.timewait
  <1> DEFINE q == SendEmptyPacket(r, f)
  <1>1. CASE r.k.synCount = 0
    <2> DEFINE c == [r EXCEPT !.k.st = "CLOSED"]
    <2>1. /\ c \in ResultType /\ c.k.ep /\ c.k.st = "CLOSED" /\ c.out = r.out
          /\ KeepsNumbers(c.k, r.k)
      BY DEF ResultType, SockType, KeepsNumbers, States
    <2>2. q = DeallocateEndPoint(c)
      BY <1>1 DEF SendEmptyPacket
    <2> HIDE DEF c
    <2> QED  BY <2>1, <2>2, <1>1, DeallocateFacts DEF KeepsNumbers
  <1>2. CASE r.k.synCount # 0
    <2>1. /\ q.k.st = r.k.st /\ q.out = r.out \cup {Segment(r.k, f)}
          /\ KeepsNumbers(q.k, r.k) /\ q.k.ep
          /\ q.k.retx = (IF r.k.retx = "none" THEN f ELSE r.k.retx)
          /\ q.k.lastAck = r.k.lastAck /\ q.k.timewait = r.k.timewait
      BY <1>2 DEF SendEmptyPacket, ResultType, SockType, KeepsNumbers
    <2>2. q.k \in SockType
      <3>1. r.k \in SockType /\ r.k.synCount - 1 \in 0..SynRetries
        BY <1>2, ConnectionAssumption DEF ResultType, SockType
      <3> QED  BY <1>2, <3>1 DEF SendEmptyPacket, ResultType, SockType
    <2>3. Segment(r.k, f) \in SegmentType
      BY SegmentFacts, ResultParts DEF Flags
    <2>4. q.out \in SUBSET SegmentType
      BY <2>1, <2>3, ResultParts
    <2>5. q = [k |-> q.k, out |-> q.out]
      BY <1>2 DEF SendEmptyPacket, ResultType
    <2>6. q \in ResultType
      BY <2>2, <2>4, <2>5 DEF ResultType
    <2> QED  BY <1>2, <2>1, <2>6
  <1> QED  BY <1>1, <1>2

\* A reset leaves a dead socket, and the RST.
LEMMA ResetFacts ==
    ASSUME NEW r \in ResultType, r.k.ep
    PROVE  LET q == Reset(r) IN
           /\ q \in ResultType /\ q.k.st = "CLOSED"
           /\ q.out = r.out \cup {Segment(r.k, "RST")} /\ Segment(r.k, "RST").f = "RST"
           /\ KeepsNumbers(q.k, r.k) /\ ~q.k.ep /\ Silent(q.k)
  <1> DEFINE s == SendEmptyPacket(r, "RST")
             d == DeallocateEndPoint(s)
  <1>1. /\ s \in ResultType /\ s.k.ep /\ s.out = r.out \cup {Segment(r.k, "RST")}
        /\ KeepsNumbers(s.k, r.k)
    BY SendFacts DEF Flags
  <1>2. d \in ResultType /\ d.out = s.out /\ KeepsNumbers(d.k, s.k) /\ ~d.k.ep /\ Silent(d.k)
    BY <1>1, DeallocateFacts
  <1>3. Reset(r) = CloseAndNotify(d)
    BY DEF Reset, SendRST
  <1>4. Segment(r.k, "RST").f = "RST"
    BY DEF Segment
  <1> HIDE DEF s, d
  <1> QED  BY <1>1, <1>2, <1>3, <1>4, CloseDeadFacts DEF KeepsNumbers

LEMMA TimeWaitFacts ==
    ASSUME NEW r \in ResultType
    PROVE  LET q == TimeWait(r) IN
           /\ q \in ResultType /\ q.k.st = "TIME_WAIT" /\ q.out = r.out
           /\ KeepsNumbers(q.k, r.k) /\ q.k.ep = r.k.ep /\ q.k.retx = "none"
           /\ ~q.k.lastAck /\ q.k.timewait
  BY DEF TimeWait, CancelAllTimers, ResultType, SockType, KeepsNumbers, States

\* What the FIN's number does to RCV.NXT.
WithFin(r, s) == [r EXCEPT !.k = SetFinSequence(@, s)]

LEMMA SetFinFacts ==
    ASSUME NEW r \in ResultType, NEW s \in Int
    PROVE  LET q == WithFin(r, s) IN
           /\ q \in ResultType /\ q.k.st = r.k.st /\ q.out = r.out
           /\ q.k.fin = s /\ q.k.rcvNxt = (IF r.k.rcvNxt = s THEN r.k.rcvNxt + 1 ELSE r.k.rcvNxt)
           /\ q.k.nextTx = r.k.nextTx /\ q.k.highTx = r.k.highTx /\ q.k.head = r.k.head
           /\ q.k.made = r.k.made /\ q.k.ep = r.k.ep /\ q.k.retx = r.k.retx
           /\ q.k.lastAck = r.k.lastAck /\ q.k.timewait = r.k.timewait
           /\ q.k.notified = r.k.notified /\ q.k.shutdown = r.k.shutdown
  <1> DEFINE n == IF r.k.rcvNxt = s THEN r.k.rcvNxt + 1 ELSE r.k.rcvNxt
             k == [r.k EXCEPT !.fin = s, !.rcvNxt = n]
  <1>1. r.k \in SockType /\ n \in Int
    BY DEF ResultType, SockType
  <1>3. SetFinSequence(r.k, s) = k
    BY DEF SetFinSequence
  <1>4. n = IF r.k.rcvNxt = s THEN r.k.rcvNxt + 1 ELSE r.k.rcvNxt
    OBVIOUS
  <1> HIDE DEF n
  <1>2. /\ k \in SockType /\ k.st = r.k.st
        /\ k.fin = s /\ k.rcvNxt = n
        /\ k.nextTx = r.k.nextTx /\ k.highTx = r.k.highTx /\ k.head = r.k.head
        /\ k.made = r.k.made /\ k.ep = r.k.ep /\ k.retx = r.k.retx
        /\ k.lastAck = r.k.lastAck /\ k.timewait = r.k.timewait
        /\ k.notified = r.k.notified /\ k.shutdown = r.k.shutdown
    BY <1>1 DEF SockType
  <1> HIDE DEF k
  <1> DEFINE q == WithFin(r, s)
  <1>5. q = [r EXCEPT !.k = k]
    BY <1>3 DEF WithFin
  <1>6. q \in ResultType /\ q.k = k /\ q.out = r.out
    BY <1>2, <1>5, WithSocket
  <1> HIDE DEF q
  <1> QED  BY <1>2, <1>4, <1>6 DEF q

\* The peer's FIN follows its SYN: its number is 1.
LEMMA FinFacts ==
    ASSUME NEW r \in ResultType
    PROVE  LET q == WithFin(r, 1) IN
           /\ q \in ResultType /\ q.k.st = r.k.st /\ q.out = r.out
           /\ q.k.fin = 1 /\ q.k.rcvNxt = (IF r.k.rcvNxt = 1 THEN 2 ELSE r.k.rcvNxt)
           /\ q.k.nextTx = r.k.nextTx /\ q.k.highTx = r.k.highTx /\ q.k.head = r.k.head
           /\ q.k.made = r.k.made /\ q.k.ep = r.k.ep /\ q.k.retx = r.k.retx
           /\ q.k.lastAck = r.k.lastAck /\ q.k.timewait = r.k.timewait
           /\ q.k.notified = r.k.notified /\ q.k.shutdown = r.k.shutdown
  <1> DEFINE one == 1
  <1>1. one \in Int /\ one = 1
    OBVIOUS
  <1> HIDE DEF one
  <1>2. WithFin(r, 1) = WithFin(r, one)
    BY <1>1
  <1> QED  BY <1>1, <1>2, SetFinFacts

\* A SYN in SYN_SENT: a simultaneous open.
LEMMA SynSeenFacts ==
    ASSUME NEW r \in ResultType, NEW n \in Int
    PROVE  LET q == [r EXCEPT !.k = [@ EXCEPT !.st = "SYN_RCVD", !.synCount = SynRetries,
                                              !.rcvNxt = n]] IN
           /\ q \in ResultType /\ q.out = r.out /\ q.k.st = "SYN_RCVD"
           /\ q.k.synCount = SynRetries /\ q.k.rcvNxt = n /\ q.k.nextTx = r.k.nextTx
           /\ q.k.head = r.k.head /\ q.k.highTx = r.k.highTx /\ q.k.fin = r.k.fin
           /\ q.k.ep = r.k.ep /\ q.k.retx = r.k.retx /\ q.k.made = r.k.made
  <1> DEFINE k == [r.k EXCEPT !.st = "SYN_RCVD", !.synCount = SynRetries, !.rcvNxt = n]
  <1>1. r.k \in SockType /\ SynRetries \in 0..SynRetries /\ "SYN_RCVD" \in States
    BY ResultParts, ConnectionAssumption DEF States
  <1>2. k \in SockType
    BY <1>1 DEF SockType
  <1>3. /\ k.st = "SYN_RCVD" /\ k.synCount = SynRetries /\ k.rcvNxt = n
        /\ k.nextTx = r.k.nextTx /\ k.head = r.k.head /\ k.highTx = r.k.highTx
        /\ k.fin = r.k.fin /\ k.ep = r.k.ep /\ k.retx = r.k.retx /\ k.made = r.k.made
    BY <1>1 DEF SockType
  <1> HIDE DEF k
  <1> QED  BY <1>2, <1>3, WithSocket DEF k

LEMMA ConnectedFacts ==
    ASSUME NEW r \in ResultType
    PROVE  LET q == Connected(r) IN
           /\ q \in ResultType /\ q.k.st = r.k.st /\ q.out = r.out
           /\ q.k.nextTx = r.k.nextTx + 1 /\ q.k.highTx = r.k.nextTx + 1
           /\ q.k.head = r.k.nextTx + 1 /\ q.k.rcvNxt = r.k.rcvNxt /\ q.k.fin = r.k.fin
           /\ q.k.made = r.k.made /\ q.k.ep = r.k.ep /\ q.k.retx = "none"
           /\ q.k.lastAck = r.k.lastAck /\ q.k.timewait = r.k.timewait
           /\ q.k.notified = r.k.notified /\ q.k.shutdown = r.k.shutdown
  <1> DEFINE n == r.k.nextTx + 1
             k == [r.k EXCEPT !.retx = "none", !.nextTx = n, !.highTx = n, !.head = n]
  <1>1. r.k \in SockType /\ n \in Int /\ n = r.k.nextTx + 1
    BY DEF ResultType, SockType
  <1>3. Connected(r) = [r EXCEPT !.k = k]
    BY DEF Connected
  <1> HIDE DEF n
  <1>2. /\ k \in SockType /\ k.st = r.k.st
        /\ k.nextTx = n /\ k.highTx = n
        /\ k.head = n /\ k.rcvNxt = r.k.rcvNxt /\ k.fin = r.k.fin
        /\ k.made = r.k.made /\ k.ep = r.k.ep /\ k.retx = "none"
        /\ k.lastAck = r.k.lastAck /\ k.timewait = r.k.timewait
        /\ k.notified = r.k.notified /\ k.shutdown = r.k.shutdown
    BY <1>1 DEF SockType
  <1> HIDE DEF k
  <1> QED  BY <1>1, <1>2, <1>3, WithSocket

\* An ACK that acknowledges nothing new and nothing beyond what was sent is ignored.
LEMMA OldAckFacts ==
    ASSUME NEW r \in ResultType, NEW ack \in Int, ack <= r.k.head, ack < r.k.head \/ ack <= r.k.highTx
    PROVE  ReceivedAck(r, ack) = r
  BY DEF ReceivedAck, ResultType, SockType

\* An ACK repeated after the FIN was acknowledged changes no number.
LEMMA SameAckFacts ==
    ASSUME NEW r \in ResultType, NEW ack \in Int, ack = r.k.head, ack = r.k.nextTx
    PROVE  LET q == ReceivedAck(r, ack) IN
           /\ q \in ResultType /\ q.k.st = r.k.st /\ q.out = r.out
           /\ KeepsNumbers(q.k, r.k) /\ q.k.ep = r.k.ep /\ q.k.retx = r.k.retx
           /\ q.k.lastAck = r.k.lastAck /\ q.k.timewait = r.k.timewait
  <1> DEFINE k == [r.k EXCEPT !.nextTx = ack]
  <1>1. r.k \in SockType /\ r.k.head \in Int
    BY DEF ResultType, SockType
  <1>2. /\ k \in SockType /\ k.st = r.k.st /\ KeepsNumbers(k, r.k) /\ k.ep = r.k.ep
        /\ k.retx = r.k.retx /\ k.lastAck = r.k.lastAck /\ k.timewait = r.k.timewait
    BY <1>1 DEF SockType, KeepsNumbers
  <1>3. ReceivedAck(r, ack) = r \/ ReceivedAck(r, ack) = [r EXCEPT !.k = k]
    BY <1>1 DEF ReceivedAck
  <1> HIDE DEF k
  <1> QED  BY <1>2, <1>3, WithSocket DEF KeepsNumbers

LEMMA NewAckFacts ==
    ASSUME NEW r \in ResultType, NEW ack \in Int, ack > r.k.head, ack > r.k.nextTx
    PROVE  LET q == ReceivedAck(r, ack) IN
           /\ q \in ResultType /\ q.k.st = r.k.st /\ q.out = r.out
           /\ q.k.nextTx = ack /\ q.k.head = ack /\ q.k.highTx = r.k.highTx
           /\ q.k.rcvNxt = r.k.rcvNxt /\ q.k.fin = r.k.fin /\ q.k.made = r.k.made
           /\ q.k.retx = (IF r.k.st \in {"FIN_WAIT_1", "CLOSING"} THEN "RTO" ELSE "none")
           /\ q.k.ep = r.k.ep /\ q.k.lastAck = r.k.lastAck /\ q.k.timewait = r.k.timewait
  <1> DEFINE timer == IF r.k.st \in {"FIN_WAIT_1", "CLOSING"} THEN "RTO" ELSE "none"
             k == [r.k EXCEPT !.head = ack, !.retries = DataRetries, !.retx = timer,
                              !.nextTx = IF ack > @ THEN ack ELSE @]
  <1>1. r.k \in SockType /\ DataRetries \in 0..DataRetries
    BY ConnectionAssumption, ResultParts
  <1>2. /\ k \in SockType /\ k.st = r.k.st
        /\ k.nextTx = ack /\ k.head = ack /\ k.highTx = r.k.highTx
        /\ k.rcvNxt = r.k.rcvNxt /\ k.fin = r.k.fin /\ k.made = r.k.made /\ k.retx = timer
        /\ k.ep = r.k.ep /\ k.lastAck = r.k.lastAck /\ k.timewait = r.k.timewait
    BY <1>1 DEF SockType
  <1>3. ReceivedAck(r, ack) = [r EXCEPT !.k = k]
    BY DEF ReceivedAck
  <1> HIDE DEF k
  <1> QED  BY <1>2, <1>3, WithSocket

\* Close in the states that send a FIN.
LEMMA DoCloseFacts ==
    ASSUME NEW r \in ResultType, r.k.ep, r.k.st \in {"SYN_RCVD", "ESTABLISHED", "CLOSE_WAIT"}
    PROVE  LET q == DoClose(r) IN
           /\ q \in ResultType /\ q.k.ep /\ KeepsNumbers(q.k, r.k)
           /\ q.k.st = (IF r.k.st = "CLOSE_WAIT" THEN "LAST_ACK" ELSE "FIN_WAIT_1")
           /\ q.out = r.out \cup {Segment(r.k, "FINACK")}
           /\ q.k.retx = (IF r.k.retx = "none" THEN "FINACK" ELSE r.k.retx)
           /\ q.k.lastAck = r.k.lastAck /\ q.k.timewait = r.k.timewait
           /\ q.k.notified = r.k.notified /\ q.k.shutdown = r.k.shutdown
  <1> DEFINE s == SendEmptyPacket(r, "FINACK")
  <1>1. /\ s \in ResultType /\ s.k.ep /\ s.out = r.out \cup {Segment(r.k, "FINACK")}
        /\ KeepsNumbers(s.k, r.k)
        /\ s.k.retx = (IF r.k.retx = "none" THEN "FINACK" ELSE r.k.retx)
        /\ s.k.lastAck = r.k.lastAck /\ s.k.timewait = r.k.timewait
        /\ s.k.notified = r.k.notified /\ s.k.shutdown = r.k.shutdown
    BY SendFacts DEF Flags
  <1>2. DoClose(r) = Enter(s, IF r.k.st = "CLOSE_WAIT" THEN "LAST_ACK" ELSE "FIN_WAIT_1")
    BY DEF DoClose
  <1> HIDE DEF s
  <1>3. CASE r.k.st = "CLOSE_WAIT"
    <2>1. DoClose(r) = Enter(s, "LAST_ACK") /\ "LAST_ACK" \in States
      BY <1>2, <1>3 DEF States
    <2> QED  BY <1>1, <1>3, <2>1, EnterFacts DEF KeepsNumbers
  <1>4. CASE r.k.st # "CLOSE_WAIT"
    <2>1. DoClose(r) = Enter(s, "FIN_WAIT_1") /\ "FIN_WAIT_1" \in States
      BY <1>2, <1>4 DEF States
    <2> QED  BY <1>1, <1>4, <2>1, EnterFacts DEF KeepsNumbers
  <1> QED  BY <1>3, <1>4

LEMMA ShutFlagFacts ==
    ASSUME NEW r \in ResultType
    PROVE  LET q == [r EXCEPT !.k.shutdown = TRUE] IN
           /\ q \in ResultType /\ q.k.st = r.k.st /\ q.out = r.out /\ q.k.shutdown
           /\ KeepsNumbers(q.k, r.k) /\ q.k.ep = r.k.ep /\ q.k.retx = r.k.retx
           /\ q.k.lastAck = r.k.lastAck /\ q.k.timewait = r.k.timewait
           /\ q.k.notified = r.k.notified
  BY DEF ResultType, SockType, KeepsNumbers

----------------------------------------------------------------------------
(***************************************************************************)
(* The inductive invariant.                                                *)
(***************************************************************************)

FinSaid == Lifecycle!FinSaid

\* What a socket's numbers count: the SYN, then the FIN.
Numbers(k) ==
    /\ k.nextTx \in 0..2 /\ k.head = k.nextTx /\ k.highTx = (IF k.nextTx = 0 THEN 0 ELSE 1)
    /\ k.rcvNxt \in 0..2 /\ k.fin = (IF k.rcvNxt = 2 THEN 1 ELSE NoFin)

\* What each state says of the numbers and of the retransmission timer.
Shape(k) ==
    /\ ~k.ep => Silent(k)
    /\ k.ep =>
         /\ k.st # "CLOSED"
         /\ k.st = "SYN_SENT"    => k.nextTx = 0 /\ k.rcvNxt = 0 /\ k.retx = "SYN"
         /\ k.st = "SYN_RCVD"    => k.nextTx = 0 /\ k.rcvNxt = 1 /\ k.retx \in {"SYN", "SYNACK"}
         /\ k.st = "ESTABLISHED" => k.nextTx = 1 /\ k.rcvNxt = 1 /\ k.retx = "none"
         /\ k.st = "FIN_WAIT_1"  => k.nextTx = 1 /\ k.rcvNxt = 1 /\ k.retx = "FINACK"
         /\ k.st = "FIN_WAIT_2"  => k.nextTx = 2 /\ k.rcvNxt = 1 /\ k.retx \in {"RTO", "none"}
         /\ k.st = "CLOSE_WAIT"  => k.nextTx # 0 /\ k.rcvNxt = 2 /\ k.retx = "none"
         /\ k.st = "CLOSING"     => k.nextTx = 1 /\ k.rcvNxt = 2 /\ k.retx = "FINACK"
         /\ k.st = "LAST_ACK"    => k.nextTx # 0 /\ k.rcvNxt = 2 /\ k.retx = "FINACK"
         /\ k.st = "TIME_WAIT"   => k.nextTx # 0 /\ k.rcvNxt = 2 /\ k.retx = "none" /\ k.timewait

SockOK(k) == k \in SockType /\ Numbers(k) /\ Shape(k)

\* The numbers a segment may carry.
SegOK(s) ==
    /\ s.f \in Flags
    /\ s.f = "SYN" => s.seq = 0 /\ s.ack \in {0, 1}
    /\ s.f = "SYNACK" => s.seq = 0 /\ s.ack = 1
    /\ s.f \in {"ACK", "FINACK"} => s.seq \in {1, 2} /\ s.ack \in {1, 2} /\ (s.seq = 2 => s.ack = 2)

Life(k) == IF k.ep THEN k.st ELSE "CLOSED"

\* How far the peer has got when it sent a segment with the flag f.
SaidBy(f) == IF f = "FINACK" THEN 2 ELSE IF f \in {"SYN", "SYNACK"} THEN 1 ELSE 0

\* The socket k may become that of the result r when the segment handled
\* acknowledges ack and shows that the peer has said said.
Moves(k, r, ack, said) ==
    /\ Life(r.k) \in {Life(k), "CLOSED"} \/ <<Life(k), Life(r.k)>> \in Lifecycle!Arrows
    /\ r.k.rcvNxt >= k.rcvNxt /\ (r.k.rcvNxt = k.rcvNxt \/ r.k.rcvNxt <= said)
    /\ r.k.ep => /\ r.k.nextTx = 2 => (k.nextTx = 2 /\ k.ep) \/ ack = 2
                 /\ r.k.st \in Lifecycle!FinKnown => Life(k) \in Lifecycle!FinKnown \/ ack = 2
                 /\ r.k.st \in Lifecycle!Synchronised => Life(k) \in Lifecycle!Synchronised \/ ack >= 1
                 /\ r.k.st \in FinSaid => Life(k) \in FinSaid \/ \E s \in r.out : s.f = "FINACK"
                 /\ r.k.nextTx = 2 /\ r.k.st \in {"CLOSE_WAIT", "LAST_ACK"} =>
                      k.ep /\ (k.st = "CLOSE_WAIT" \/ (k.st = "LAST_ACK" /\ k.nextTx = 2))

\* A segment that the socket k may send on the way to r.
Sends(k, r, s) ==
    \/ s.f \in Resets
    \/ /\ SegOK(s) /\ s.ack <= r.k.rcvNxt
       /\ s.f = "FINACK" => /\ Life(r.k) \in FinSaid \cup {"CLOSED"}
                            /\ s.seq = 2 => k.ep /\ k.nextTx = 2 /\ k.st \in {"CLOSE_WAIT", "LAST_ACK"}

Legal(k, r, ack, said) ==
    /\ r \in ResultType /\ SockOK(r.k) /\ r.k.made = k.made
    /\ Moves(k, r, ack, said) /\ \A s \in r.out : Sends(k, r, s)

----------------------------------------------------------------------------
(* Every handler is legal.                                                 *)

LEMMA NothingLegal ==
    ASSUME NEW k, SockOK(k), NEW ack \in Int, NEW said \in Int
    PROVE  Legal(k, Handling(k), ack, said)
  <1>1. Handling(k) \in ResultType /\ Handling(k).k = k /\ Handling(k).out = {}
    BY ResultParts DEF SockOK
  <1> QED  BY <1>1 DEF Legal, Moves, SockOK, Numbers, Life

\* A socket that dies is legal, whatever killed it.
LEMMA DeadLegal ==
    ASSUME NEW k, SockOK(k), NEW ack \in Int, NEW said \in Int,
           NEW r \in ResultType, ~r.k.ep, Silent(r.k), KeepsNumbers(r.k, k),
           \A s \in r.out : s.f \in Resets \/ (s.f = "ACK" /\ SegOK(s) /\ s.ack <= k.rcvNxt)
    PROVE  Legal(k, r, ack, said)
  <1>1. SockOK(r.k)
    BY ResultParts DEF SockOK, Numbers, Shape, KeepsNumbers
  <1>2. Life(r.k) = "CLOSED"
    BY DEF Life
  <1>3. Moves(k, r, ack, said)
    BY <1>2 DEF Moves, SockOK, Numbers, KeepsNumbers
  <1>4. \A s \in r.out : Sends(k, r, s)
    BY DEF Sends, KeepsNumbers
  <1> QED  BY <1>1, <1>3, <1>4 DEF Legal, KeepsNumbers

LEMMA KilledLegal ==
    ASSUME NEW k, SockOK(k), k.ep, NEW ack \in Int, NEW said \in Int
    PROVE  /\ Legal(k, Reset(Handling(k)), ack, said)
           /\ Legal(k, CloseAndNotify(Handling(k)), ack, said)
           /\ Legal(k, DeallocateEndPoint(Handling(k)), ack, said)
  <1>1. Handling(k) \in ResultType /\ Handling(k).k = k /\ Handling(k).out = {}
    BY ResultParts DEF SockOK
  <1>2. Legal(k, Reset(Handling(k)), ack, said)
    <2> DEFINE q == Reset(Handling(k))
    <2>1. /\ q \in ResultType /\ ~q.k.ep /\ Silent(q.k) /\ KeepsNumbers(q.k, k)
          /\ \A s \in q.out : s.f \in Resets
      BY <1>1, ResetFacts DEF Resets
    <2> HIDE DEF q
    <2> QED  BY <2>1, DeadLegal DEF q
  <1>3. Legal(k, CloseAndNotify(Handling(k)), ack, said)
    BY <1>1, CloseFacts, DeadLegal
  <1>4. Legal(k, DeallocateEndPoint(Handling(k)), ack, said)
    BY <1>1, DeallocateFacts, DeadLegal
  <1> QED  BY <1>2, <1>3, <1>4

\* A received segment, with the numbers its flags allow.
MessageOK(m) == SegOK(m) /\ m.seq \in Int /\ m.ack \in Int

LEMMA SaidByInt == \A f : SaidBy(f) \in Int
  BY DEF SaidBy

LEMMA SynSentLegal ==
    ASSUME NEW k, SockOK(k), k.ep, k.st = "SYN_SENT", NEW m, MessageOK(m)
    PROVE  Legal(k, ProcessSynSent(Handling(k), m), m.ack, SaidBy(m.f))
  <1> DEFINE r == Handling(k)
  <1>0. /\ r \in ResultType /\ r.k = k /\ r.out = {} /\ m.ack \in Int /\ SaidBy(m.f) \in Int
        /\ k \in SockType /\ k.nextTx = 0 /\ k.rcvNxt = 0 /\ k.retx = "SYN" /\ k.head = 0
        /\ k.highTx = 0 /\ k.fin = NoFin /\ m.f \in Flags
    BY ResultParts, SaidByInt DEF SockOK, Shape, Numbers, MessageOK, SegOK
  <1> HIDE DEF r
  <1>1. CASE m.f \in {"ACK", "FINACK", "RSTACK"}
    <2>1. ProcessSynSent(r, m) = r
      BY <1>1 DEF ProcessSynSent
    <2> QED  BY <2>1, <1>0, NothingLegal DEF r
  <1>2. CASE m.f = "SYN"
    <2> DEFINE e == [r EXCEPT !.k = [@ EXCEPT !.st = "SYN_RCVD", !.synCount = SynRetries,
                                              !.rcvNxt = m.seq + 1]]
               q == SendEmptyPacket(e, "SYNACK")
    <2>1. ProcessSynSent(r, m) = q
      BY <1>2 DEF ProcessSynSent
    <2>2. /\ e \in ResultType /\ e.out = {} /\ e.k.st = "SYN_RCVD" /\ e.k.synCount = SynRetries
          /\ e.k.rcvNxt = 1 /\ e.k.nextTx = 0 /\ e.k.head = 0 /\ e.k.highTx = 0 /\ e.k.fin = NoFin
          /\ e.k.ep /\ e.k.retx = "SYN" /\ e.k.made = k.made
      <3> DEFINE n == m.seq + 1
      <3>1. n = 1 /\ n \in Int
        BY <1>2 DEF MessageOK, SegOK
      <3> HIDE DEF n
      <3>2. /\ e \in ResultType /\ e.out = r.out /\ e.k.st = "SYN_RCVD"
            /\ e.k.synCount = SynRetries /\ e.k.rcvNxt = n /\ e.k.nextTx = r.k.nextTx
            /\ e.k.head = r.k.head /\ e.k.highTx = r.k.highTx /\ e.k.fin = r.k.fin
            /\ e.k.ep = r.k.ep /\ e.k.retx = r.k.retx /\ e.k.made = r.k.made
        BY <1>0, <3>1, SynSeenFacts, Zenon DEF n
      <3> HIDE DEF e
      <3> QED  BY <1>0, <3>1, <3>2
    <2> HIDE DEF e
    <2>3. /\ q \in ResultType /\ KeepsNumbers(q.k, e.k) /\ q.k.st = "SYN_RCVD"
          /\ q.out = {Segment(e.k, "SYNACK")} /\ q.k.ep /\ q.k.retx = "SYN"
      BY <2>2, SendSynFacts, ConnectionAssumption
    <2>4. /\ Segment(e.k, "SYNACK").f = "SYNACK" /\ Segment(e.k, "SYNACK").ack = 1
          /\ Segment(e.k, "SYNACK").seq = 0
      BY <2>2, SegmentFacts, ResultParts DEF Flags
    <2> HIDE DEF q
    <2>5. SockOK(q.k) /\ q.k.rcvNxt = 1 /\ q.k.nextTx = 0 /\ q.k.made = k.made
      BY <2>2, <2>3, ResultParts DEF SockOK, Numbers, Shape, KeepsNumbers
    <2>6. Moves(k, q, m.ack, SaidBy(m.f))
      BY <1>0, <1>2, <2>3, <2>4, <2>5
         DEF Moves, Life, SaidBy, Lifecycle!Arrows, FinSaid,
             Lifecycle!FinSaid, Lifecycle!FinKnown, Lifecycle!Synchronised
    <2>7. \A s \in q.out : Sends(k, q, s)
      BY <2>3, <2>4, <2>5 DEF Sends, SegOK, Flags
    <2> QED  BY <2>1, <2>3, <2>5, <2>6, <2>7 DEF Legal, r
  <1>3. CASE m.f = "SYNACK"
    <2> DEFINE e == [r EXCEPT !.k.rcvNxt = m.seq + 1]
               c == Connected(e)
               n == Enter(c, "ESTABLISHED")
               q == SendEmptyPacket(n, "ACK")
    <2>1. m.seq + 1 = 1 /\ m.ack = r.k.nextTx + 1
      BY <1>0, <1>3 DEF MessageOK, SegOK
    <2>2. ProcessSynSent(r, m) = q
      BY <1>3, <2>1 DEF ProcessSynSent
    <2>3. /\ e \in ResultType /\ e.out = {} /\ e.k.rcvNxt = 1 /\ e.k.nextTx = 0
          /\ e.k.fin = NoFin /\ e.k.ep /\ e.k.made = k.made
      BY <1>0, <2>1 DEF ResultType, SockType
    <2> HIDE DEF e
    <2>4. /\ c \in ResultType /\ c.out = {} /\ c.k.rcvNxt = 1 /\ c.k.nextTx = 1 /\ c.k.head = 1
          /\ c.k.highTx = 1 /\ c.k.fin = NoFin /\ c.k.ep /\ c.k.made = k.made /\ c.k.retx = "none"
      BY <2>3, ConnectedFacts
    <2> HIDE DEF c
    <2>5. /\ n \in ResultType /\ n.out = {} /\ KeepsNumbers(n.k, c.k) /\ n.k.ep
          /\ n.k.retx = "none" /\ n.k.st = "ESTABLISHED"
      BY <2>4, EnterFacts DEF States
    <2> HIDE DEF n
    <2>6. /\ q \in ResultType /\ KeepsNumbers(q.k, n.k) /\ q.k.st = "ESTABLISHED"
          /\ q.out = {Segment(n.k, "ACK")} /\ q.k.ep /\ q.k.retx = "none"
      BY <2>5, SendFacts DEF Flags
    <2>7. /\ Segment(n.k, "ACK").f = "ACK" /\ Segment(n.k, "ACK").ack = 1
          /\ Segment(n.k, "ACK").seq = 1
      BY <2>4, <2>5, SegmentFacts, ResultParts DEF Flags, KeepsNumbers
    <2> HIDE DEF q
    <2>8. SockOK(q.k) /\ q.k.rcvNxt = 1 /\ q.k.nextTx = 1 /\ q.k.made = k.made
      BY <2>4, <2>5, <2>6, ResultParts DEF SockOK, Numbers, Shape, KeepsNumbers
    <2>9. Moves(k, q, m.ack, SaidBy(m.f))
      BY <1>0, <1>3, <2>1, <2>6, <2>7, <2>8
         DEF Moves, Life, SaidBy, Lifecycle!Arrows, FinSaid,
             Lifecycle!FinSaid, Lifecycle!FinKnown, Lifecycle!Synchronised
    <2>10. \A s \in q.out : Sends(k, q, s)
      BY <2>6, <2>7, <2>8 DEF Sends, SegOK, Flags
    <2> QED  BY <2>2, <2>6, <2>8, <2>9, <2>10 DEF Legal, r
  <1>4. CASE m.f = "RST"
    <2>1. ProcessSynSent(r, m) = CloseAndNotify(r)
      BY <1>4 DEF ProcessSynSent
    <2> QED  BY <2>1, <1>0, KilledLegal DEF r
  <1> QED  BY <1>0, <1>1, <1>2, <1>3, <1>4 DEF r, Flags

\* What the notification of the peer's FIN may leave: CLOSE_WAIT, or LAST_ACK with
\* a FIN of this side.
Answers(q, r) ==
    /\ q \in ResultType /\ q.k.ep /\ KeepsNumbers(q.k, r.k)
    /\ \/ q.k.st = "CLOSE_WAIT" /\ q.k.retx = "none"
       \/ q.k.st = "LAST_ACK" /\ q.k.retx = "FINACK" /\ \E s \in q.out : s.f = "FINACK"
    /\ \A s \in q.out :
         \/ s \in r.out
         \/ s.f = "ACK" /\ s.ack = r.k.rcvNxt /\ s.seq \in {r.k.nextTx, r.k.nextTx + 1}
         \/ s.f = "FINACK" /\ s.ack = r.k.rcvNxt /\ s.seq = r.k.nextTx /\ q.k.st = "LAST_ACK"

\* Close in CLOSE_WAIT.
LEMMA CloseAnswers ==
    ASSUME NEW r, NEW w, Answers(w, r), w.k.st = "CLOSE_WAIT"
    PROVE  Answers(DoClose(w), r)
  <1> DEFINE q == DoClose(w)
  <1>1. w \in ResultType /\ w.k.ep /\ KeepsNumbers(w.k, r.k) /\ w.k.retx = "none" /\ w.k \in SockType
    BY ResultParts DEF Answers
  <1>2. /\ q \in ResultType /\ q.k.ep /\ KeepsNumbers(q.k, w.k) /\ q.k.st = "LAST_ACK"
        /\ q.out = w.out \cup {Segment(w.k, "FINACK")} /\ q.k.retx = "FINACK"
    BY <1>1, DoCloseFacts
  <1>3. /\ Segment(w.k, "FINACK").f = "FINACK" /\ Segment(w.k, "FINACK").ack = w.k.rcvNxt
        /\ Segment(w.k, "FINACK").seq = w.k.nextTx
    BY <1>1, SegmentFacts DEF Flags, SockType
  <1> HIDE DEF q
  <1>4. \A s \in q.out :
         \/ s \in r.out
         \/ s.f = "ACK" /\ s.ack = r.k.rcvNxt /\ s.seq \in {r.k.nextTx, r.k.nextTx + 1}
         \/ s.f = "FINACK" /\ s.ack = r.k.rcvNxt /\ s.seq = r.k.nextTx /\ q.k.st = "LAST_ACK"
    BY <1>1, <1>2, <1>3 DEF Answers, KeepsNumbers
  <1>5. \E s \in q.out : s.f = "FINACK"
    BY <1>2, <1>3
  <1>6. KeepsNumbers(q.k, r.k)
    BY <1>1, <1>2 DEF KeepsNumbers
  <1> QED  BY <1>2, <1>4, <1>5, <1>6 DEF Answers, q

\* The application's reaction to the peer's FIN.
LEMMA ReactAnswers ==
    ASSUME NEW r, NEW w, Answers(w, r), w.k.st = "CLOSE_WAIT", NEW reaction
    PROVE  Answers(React(w, reaction), r)
  <1>1. CASE reaction = "close"
    <2>1. React(w, reaction) = DoClose(w)
      BY <1>1 DEF React
    <2> QED  BY <2>1, CloseAnswers
  <1>2. CASE reaction = "shutdown"
    <2> DEFINE s == [w EXCEPT !.k.shutdown = TRUE]
    <2>1. w \in ResultType
      BY DEF Answers
    <2>2. /\ s \in ResultType /\ s.k.st = w.k.st /\ s.out = w.out /\ KeepsNumbers(s.k, w.k)
          /\ s.k.ep = w.k.ep /\ s.k.retx = w.k.retx
      BY <2>1, ShutFlagFacts
    <2>3. React(w, reaction) = DoClose(s)
      BY <1>2 DEF React, ShutdownSend
    <2> HIDE DEF s
    <2>4. Answers(s, r)
      BY <2>2 DEF Answers, KeepsNumbers
    <2> QED  BY <2>2, <2>3, <2>4, CloseAnswers
  <1>3. CASE reaction \notin {"close", "shutdown"}
    <2>1. React(w, reaction) = w
      BY <1>3 DEF React
    <2> QED  BY <2>1
  <1> QED  BY <1>1, <1>2, <1>3

\* Flags that no property reads.
LEMMA FlagFacts ==
    ASSUME NEW w \in ResultType
    PROVE  LET q == [w EXCEPT !.k.notified = TRUE]
               d == [w EXCEPT !.k = [@ EXCEPT !.retries = DataRetries, !.lastAck = TRUE]] IN
           /\ q \in ResultType /\ q.k.st = w.k.st /\ q.out = w.out /\ KeepsNumbers(q.k, w.k)
           /\ q.k.ep = w.k.ep /\ q.k.retx = w.k.retx /\ q.k.shutdown = w.k.shutdown
           /\ d \in ResultType /\ d.k.st = w.k.st /\ d.out = w.out /\ KeepsNumbers(d.k, w.k)
           /\ d.k.ep = w.k.ep /\ d.k.retx = w.k.retx
  <1> DEFINE q == [w EXCEPT !.k.notified = TRUE]
             d == [w EXCEPT !.k = [@ EXCEPT !.retries = DataRetries, !.lastAck = TRUE]]
             k == [w.k EXCEPT !.retries = DataRetries, !.lastAck = TRUE]
  <1>1. /\ q \in ResultType /\ q.k.st = w.k.st /\ q.out = w.out /\ KeepsNumbers(q.k, w.k)
        /\ q.k.ep = w.k.ep /\ q.k.retx = w.k.retx /\ q.k.shutdown = w.k.shutdown
    BY DEF ResultType, SockType, KeepsNumbers
  <1>2. w.k \in SockType /\ DataRetries \in 0..DataRetries
    BY ResultParts, ConnectionAssumption
  <1>3. /\ k \in SockType /\ k.st = w.k.st /\ KeepsNumbers(k, w.k)
        /\ k.ep = w.k.ep /\ k.retx = w.k.retx
    BY <1>2 DEF SockType, KeepsNumbers
  <1> HIDE DEF k
  <1>4. /\ d \in ResultType /\ d.k.st = w.k.st /\ d.out = w.out /\ KeepsNumbers(d.k, w.k)
        /\ d.k.ep = w.k.ep /\ d.k.retx = w.k.retx
    BY <1>3, WithSocket DEF k
  <1> QED  BY <1>1, <1>4

LEMMA DoPeerCloseAnswers ==
    ASSUME NEW r \in ResultType, r.k.ep, r.k.retx = "none", NEW reaction
    PROVE  Answers(DoPeerClose(r, reaction), r)
  <1> DEFINE waits == Enter(r, "CLOSE_WAIT")
             react == React(waits, reaction)
             told == IF r.k.notified THEN waits ELSE [react EXCEPT !.k.notified = TRUE]
             done == IF told.k.shutdown THEN DoClose(told) ELSE SendEmptyPacket(told, "ACK")
             last == [done EXCEPT !.k = [@ EXCEPT !.retries = DataRetries, !.lastAck = TRUE]]
  <1>1. Answers(waits, r) /\ waits.k.st = "CLOSE_WAIT"
    BY EnterFacts DEF Answers, States
  <1>2. Answers(react, r)
    BY <1>1, ReactAnswers
  <1> HIDE DEF waits, react
  <1>3. Answers(told, r)
    <2>1. CASE r.k.notified
      BY <2>1, <1>1
    <2>2. CASE ~r.k.notified
      <3> DEFINE q == [react EXCEPT !.k.notified = TRUE]
      <3>1. react \in ResultType
        BY <1>2 DEF Answers
      <3>2. /\ q \in ResultType /\ q.k.st = react.k.st /\ q.out = react.out
            /\ KeepsNumbers(q.k, react.k) /\ q.k.ep = react.k.ep /\ q.k.retx = react.k.retx
        BY <3>1, FlagFacts
      <3>3. told = q
        BY <2>2
      <3> HIDE DEF q
      <3>4. Answers(q, r)
        BY <1>2, <3>2 DEF Answers, KeepsNumbers
      <3> QED  BY <3>3, <3>4
    <2> QED  BY <2>1, <2>2
  <1> HIDE DEF told
  <1>4. Answers(done, r)
    <2>1. CASE told.k.shutdown /\ told.k.st = "CLOSE_WAIT"
      BY <1>3, <2>1, CloseAnswers
    <2>2. CASE told.k.shutdown /\ told.k.st # "CLOSE_WAIT"
      <3>1. told.k.st = "LAST_ACK"
        BY <1>3, <2>2 DEF Answers
      <3>2. done = told
        BY <2>2, <3>1 DEF DoClose
      <3> QED  BY <1>3, <3>2
    <2>3. CASE ~told.k.shutdown
      <3> DEFINE q == SendEmptyPacket(told, "ACK")
      <3>1. /\ told \in ResultType /\ told.k.ep /\ KeepsNumbers(told.k, r.k)
            /\ told.k \in SockType /\ told.k.nextTx \in Int
        <4>1. told \in ResultType /\ told.k.ep /\ KeepsNumbers(told.k, r.k)
          BY <1>3 DEF Answers
        <4>2. told.k \in SockType
          BY <4>1, ResultParts
        <4> QED  BY <4>1, <4>2 DEF SockType
      <3>2. /\ q \in ResultType /\ q.k.st = told.k.st /\ q.k.ep /\ KeepsNumbers(q.k, told.k)
            /\ q.out = told.out \cup {Segment(told.k, "ACK")} /\ q.k.retx = told.k.retx
        BY <3>1, SendFacts DEF Flags
      <3>3. /\ Segment(told.k, "ACK").f = "ACK" /\ Segment(told.k, "ACK").ack = r.k.rcvNxt
            /\ Segment(told.k, "ACK").seq \in {r.k.nextTx, r.k.nextTx + 1}
        BY <3>1, SegmentFacts DEF Flags, KeepsNumbers
      <3>4. done = q
        BY <2>3
      <3> HIDE DEF q
      <3>5. \A s \in q.out :
              \/ s \in r.out
              \/ s.f = "ACK" /\ s.ack = r.k.rcvNxt /\ s.seq \in {r.k.nextTx, r.k.nextTx + 1}
              \/ s.f = "FINACK" /\ s.ack = r.k.rcvNxt /\ s.seq = r.k.nextTx /\ q.k.st = "LAST_ACK"
        <4> TAKE s \in q.out
        <4>1. CASE s \in told.out
          BY <1>3, <3>2, <4>1 DEF Answers
        <4>2. CASE s = Segment(told.k, "ACK")
          BY <3>3, <4>2
        <4> QED  BY <3>2, <4>1, <4>2
      <3>6. KeepsNumbers(q.k, r.k)
        BY <3>1, <3>2 DEF KeepsNumbers
      <3> QED  BY <1>3, <3>2, <3>4, <3>5, <3>6 DEF Answers
    <2> QED  BY <2>1, <2>2, <2>3
  <1>5. DoPeerClose(r, reaction) = IF done.k.st = "LAST_ACK" THEN last ELSE done
    BY DEF DoPeerClose, told, react, waits
  <1> HIDE DEF done
  <1>6. CASE done.k.st = "LAST_ACK"
    <2>1. done \in ResultType
      BY <1>4 DEF Answers
    <2>2. /\ last \in ResultType /\ last.k.st = done.k.st /\ last.out = done.out
          /\ KeepsNumbers(last.k, done.k) /\ last.k.ep = done.k.ep /\ last.k.retx = done.k.retx
      BY <2>1, FlagFacts
    <2> HIDE DEF last
    <2>3. Answers(last, r)
      BY <1>4, <2>2 DEF Answers, KeepsNumbers
    <2> QED  BY <1>5, <1>6, <2>3
  <1>7. CASE done.k.st # "LAST_ACK"
    BY <1>4, <1>5, <1>7
  <1> QED  BY <1>6, <1>7

\* A FIN recorded in sequence, with the SYN acknowledged, and then notified.
LEMMA AnswersLegal ==
    ASSUME NEW k, SockOK(k), k.ep, k.st \in {"SYN_RCVD", "ESTABLISHED"},
           NEW r \in ResultType, r.out = {}, r.k.made = k.made,
           r.k.nextTx = 1, r.k.head = 1, r.k.highTx = 1, r.k.rcvNxt = 2, r.k.fin = 1,
           NEW q, Answers(q, r), NEW ack \in Int, ack >= 1
    PROVE  Legal(k, q, ack, 2)
  <1>1. /\ q \in ResultType /\ q.k.ep /\ q.k.nextTx = 1 /\ q.k.head = 1 /\ q.k.highTx = 1
        /\ q.k.rcvNxt = 2 /\ q.k.fin = 1 /\ q.k.made = k.made
    BY DEF Answers, KeepsNumbers
  <1>2. \/ q.k.st = "CLOSE_WAIT" /\ q.k.retx = "none"
        \/ q.k.st = "LAST_ACK" /\ q.k.retx = "FINACK" /\ \E s \in q.out : s.f = "FINACK"
    BY DEF Answers
  <1>3. SockOK(q.k)
    BY <1>1, <1>2, ResultParts DEF SockOK, Numbers, Shape
  <1>4. Moves(k, q, ack, 2)
    BY <1>1, <1>2 DEF Moves, Life, SockOK, Numbers, Lifecycle!Arrows, FinSaid,
           Lifecycle!FinSaid, Lifecycle!FinKnown, Lifecycle!Synchronised
  <1>5. ASSUME NEW s \in q.out
        PROVE  Sends(k, q, s)
    <2>1. \/ s.f = "ACK" /\ s.ack = 2 /\ s.seq \in {1, 2}
          \/ s.f = "FINACK" /\ s.ack = 2 /\ s.seq = 1 /\ q.k.st = "LAST_ACK"
      BY DEF Answers
    <2> QED  BY <1>1, <2>1 DEF Sends, SegOK, Flags, Life, FinSaid, Lifecycle!FinSaid
  <1> QED  BY <1>1, <1>3, <1>4, <1>5 DEF Legal

\* The FIN in sequence, and the FIN out of sequence, once the SYN is acknowledged.
LEMMA PeerCloseFacts ==
    ASSUME NEW r \in ResultType, r.k.ep, r.k.rcvNxt = 1, r.k.fin = NoFin, r.k.st # "FIN_WAIT_1",
           NEW m, m.seq = 1, NEW reaction
    PROVE  PeerClose(r, m, reaction) = DoPeerClose(WithFin(r, 1), reaction)
  <1> DEFINE fin == WithFin(r, 1)
  <1>2. fin.k.st = r.k.st /\ fin.k.fin = 1 /\ fin.k.rcvNxt = 2
    BY FinFacts
  <1>3. PeerClose(r, m, reaction) =
          IF m.seq < r.k.rcvNxt \/ ~Finished(fin.k) THEN r
          ELSE IF fin.k.st = "FIN_WAIT_1" THEN Enter(fin, "CLOSING")
          ELSE DoPeerClose(fin, reaction)
    BY DEF PeerClose, WithFin
  <1> HIDE DEF fin
  <1>4. Finished(fin.k)
    BY <1>2 DEF Finished, NoFin
  <1> QED  BY <1>2, <1>3, <1>4 DEF fin

LEMMA LateFinFacts ==
    ASSUME NEW r \in ResultType, r.k.ep, r.k.rcvNxt = 1, NEW m, m.seq = 2, NEW reaction
    PROVE  PeerClose(r, m, reaction) = r
  <1> DEFINE fin == WithFin(r, 2)
  <1>1. 2 \in Int
    OBVIOUS
  <1>2. fin.k.fin = 2 /\ fin.k.rcvNxt = 1
    BY <1>1, SetFinFacts
  <1>3. ~Finished(fin.k) => PeerClose(r, m, reaction) = r
    BY DEF PeerClose, WithFin
  <1> HIDE DEF fin
  <1>4. ~Finished(fin.k)
    BY <1>2 DEF Finished, NoFin
  <1> QED  BY <1>3, <1>4

LEMMA EstablishedLegal ==
    ASSUME NEW k, SockOK(k), k.ep, k.st = "ESTABLISHED", NEW m, MessageOK(m), NEW reaction
    PROVE  Legal(k, ProcessEstablished(Handling(k), m, reaction), m.ack, SaidBy(m.f))
  <1> DEFINE r == Handling(k)
             q == ProcessEstablished(r, m, reaction)
  <1>0. /\ r \in ResultType /\ r.k = k /\ r.out = {} /\ m.ack \in Int /\ SaidBy(m.f) \in Int
        /\ k \in SockType /\ k.nextTx = 1 /\ k.rcvNxt = 1 /\ k.retx = "none" /\ k.head = 1
        /\ k.highTx = 1 /\ k.fin = NoFin /\ m.f \in Flags
    BY ResultParts, SaidByInt DEF SockOK, Shape, Numbers, MessageOK, SegOK
  <1> HIDE DEF r
  <1>1. CASE m.f = "ACK" /\ m.ack = 1
    <2>1. q = ReceivedAck(r, 1)
      BY <1>0, <1>1 DEF ProcessEstablished
    <2>2. q = r
      BY <1>0, <2>1, OldAckFacts
    <2> QED  BY <2>2, <1>0, NothingLegal DEF r
  <1>2. CASE m.f = "ACK" /\ m.ack # 1
    <2> DEFINE a == SendEmptyPacket(r, "ACK")
    <2>1. m.ack = 2
      BY <1>2 DEF MessageOK, SegOK
    <2>2. q = a
      BY <1>0, <1>2, <2>1 DEF ProcessEstablished
    <2>3. /\ a \in ResultType /\ KeepsNumbers(a.k, k) /\ a.k.st = "ESTABLISHED"
          /\ a.out = {Segment(k, "ACK")} /\ a.k.ep /\ a.k.retx = "none"
      BY <1>0, SendFacts DEF Flags
    <2>4. Segment(k, "ACK").f = "ACK" /\ Segment(k, "ACK").ack = 1 /\ Segment(k, "ACK").seq = 1
      BY <1>0, SegmentFacts DEF Flags
    <2> HIDE DEF a
    <2>5. SockOK(a.k) /\ a.k.rcvNxt = 1 /\ a.k.nextTx = 1 /\ a.k.made = k.made
      BY <1>0, <2>3, ResultParts DEF SockOK, Numbers, Shape, KeepsNumbers
    <2>6. Moves(k, a, m.ack, SaidBy(m.f))
      BY <1>0, <2>3, <2>5 DEF Moves, Life, FinSaid, Lifecycle!FinSaid
    <2>7. \A s \in a.out : Sends(k, a, s)
      BY <2>3, <2>4, <2>5 DEF Sends, SegOK, Flags
    <2> QED  BY <2>2, <2>3, <2>5, <2>6, <2>7 DEF Legal, r
  <1>3. CASE m.f \in {"SYN", "SYNACK"}
    <2>1. q = r
      BY <1>3 DEF ProcessEstablished
    <2> QED  BY <2>1, <1>0, NothingLegal DEF r
  <1>4. CASE m.f = "FINACK"
    <2> DEFINE fin == WithFin(r, 1)
    <2>1. m.seq \in {1, 2} /\ m.ack >= 1
      BY <1>4 DEF MessageOK, SegOK
    <2>2. q = PeerClose(r, m, reaction)
      BY <1>4 DEF ProcessEstablished
    <2>3. r.k.ep /\ r.k.rcvNxt = 1 /\ r.k.fin = NoFin /\ r.k.st # "FIN_WAIT_1"
      BY <1>0
    <2>4. CASE m.seq = 2
      <3>1. q = r
        BY <1>0, <2>2, <2>3, <2>4, LateFinFacts
      <3> QED  BY <3>1, <1>0, NothingLegal DEF r
    <2>5. CASE m.seq = 1
      <3>1. q = DoPeerClose(fin, reaction)
        BY <1>0, <2>2, <2>3, <2>5, PeerCloseFacts
      <3>2. /\ fin \in ResultType /\ fin.out = {} /\ fin.k.made = k.made
            /\ fin.k.nextTx = 1 /\ fin.k.head = 1 /\ fin.k.highTx = 1 /\ fin.k.rcvNxt = 2
            /\ fin.k.fin = 1 /\ fin.k.ep /\ fin.k.retx = "none"
        BY <1>0, FinFacts
      <3> HIDE DEF fin
      <3>3. Answers(q, fin)
        BY <3>1, <3>2, DoPeerCloseAnswers
      <3>4. Legal(k, q, m.ack, 2)
        BY <1>0, <2>1, <3>2, <3>3, AnswersLegal
      <3> QED  BY <1>4, <3>4 DEF SaidBy, r
    <2> QED  BY <2>1, <2>4, <2>5
  <1>5. CASE m.f = "RST"
    <2>1. q = CloseAndNotify(r)
      BY <1>5 DEF ProcessEstablished
    <2> QED  BY <2>1, <1>0, KilledLegal DEF r
  <1>6. CASE m.f = "RSTACK"
    <2>1. q = Reset(r)
      BY <1>6 DEF ProcessEstablished
    <2> QED  BY <2>1, <1>0, KilledLegal DEF r
  <1> QED  BY <1>0, <1>1, <1>2, <1>3, <1>4, <1>5, <1>6 DEF r, Flags

\* The same FIN, when this side has sent one too.
LEMMA BothFinFacts ==
    ASSUME NEW r \in ResultType, r.k.ep, r.k.rcvNxt = 1, r.k.st = "FIN_WAIT_1",
           NEW m, m.seq = 1, NEW reaction
    PROVE  PeerClose(r, m, reaction) = Enter(WithFin(r, 1), "CLOSING")
  <1> DEFINE fin == WithFin(r, 1)
  <1>2. fin.k.st = r.k.st /\ fin.k.fin = 1 /\ fin.k.rcvNxt = 2
    BY FinFacts
  <1>3. PeerClose(r, m, reaction) =
          IF m.seq < r.k.rcvNxt \/ ~Finished(fin.k) THEN r
          ELSE IF fin.k.st = "FIN_WAIT_1" THEN Enter(fin, "CLOSING")
          ELSE DoPeerClose(fin, reaction)
    BY DEF PeerClose, WithFin
  <1> HIDE DEF fin
  <1>4. Finished(fin.k)
    BY <1>2 DEF Finished, NoFin
  <1> QED  BY <1>2, <1>3, <1>4 DEF fin

\* What Moves asks of the states, in one place.
LEMMA Diagram ==
    /\ FinSaid = {"FIN_WAIT_1", "FIN_WAIT_2", "CLOSING", "LAST_ACK", "TIME_WAIT"}
    /\ Lifecycle!FinKnown = {"FIN_WAIT_2", "TIME_WAIT"}
    /\ Lifecycle!Synchronised = {"ESTABLISHED", "FIN_WAIT_1", "FIN_WAIT_2", "CLOSE_WAIT",
                                 "CLOSING", "LAST_ACK", "TIME_WAIT"}
  BY DEF FinSaid, Lifecycle!FinSaid, Lifecycle!FinKnown, Lifecycle!Synchronised

LEMMA SynRcvdLegal ==
    ASSUME NEW k, SockOK(k), k.ep, k.st = "SYN_RCVD", NEW m, MessageOK(m), NEW reaction
    PROVE  Legal(k, ProcessSynRcvd(Handling(k), m, reaction), m.ack, SaidBy(m.f))
  <1> DEFINE r == Handling(k)
             q == ProcessSynRcvd(r, m, reaction)
             c == Connected(r)
  <1>0. /\ r \in ResultType /\ r.k = k /\ r.out = {} /\ m.ack \in Int /\ SaidBy(m.f) \in Int
        /\ k \in SockType /\ k.nextTx = 0 /\ k.rcvNxt = 1 /\ k.retx \in {"SYN", "SYNACK"}
        /\ k.head = 0 /\ k.highTx = 0 /\ k.fin = NoFin /\ m.f \in Flags
    BY ResultParts, SaidByInt DEF SockOK, Shape, Numbers, MessageOK, SegOK
  <1> HIDE DEF r
  <1>c. /\ c \in ResultType /\ c.out = {} /\ c.k.rcvNxt = 1 /\ c.k.nextTx = 1 /\ c.k.head = 1
        /\ c.k.highTx = 1 /\ c.k.fin = NoFin /\ c.k.ep /\ c.k.made = k.made /\ c.k.retx = "none"
        /\ c.k.st = "SYN_RCVD"
    BY <1>0, ConnectedFacts
  <1>1. CASE m.f = "ACK" /\ m.ack = 1
    <2> DEFINE e == Enter(c, "ESTABLISHED")
    <2>1. q = ReceivedAck(e, 1)
      BY <1>0, <1>1 DEF ProcessSynRcvd
    <2> HIDE DEF c
    <2>2. /\ e \in ResultType /\ e.out = {} /\ KeepsNumbers(e.k, c.k) /\ e.k.ep
          /\ e.k.retx = "none" /\ e.k.st = "ESTABLISHED"
      BY <1>c, EnterFacts DEF States
    <2> HIDE DEF e
    <2>3. e.k.head = 1 /\ e.k.highTx = 1
      BY <1>c, <2>2 DEF KeepsNumbers
    <2>4. q = e
      BY <2>1, <2>2, <2>3, OldAckFacts
    <2>5. SockOK(e.k) /\ e.k.rcvNxt = 1 /\ e.k.nextTx = 1 /\ e.k.made = k.made
      BY <1>c, <2>2, ResultParts DEF SockOK, Numbers, Shape, KeepsNumbers
    <2>6. Moves(k, e, m.ack, SaidBy(m.f))
      BY <1>0, <1>1, <2>2, <2>5, Diagram DEF Moves, Life, Lifecycle!Arrows
    <2> QED  BY <2>2, <2>4, <2>5, <2>6 DEF Legal, r
  <1>2. CASE m.f = "SYN"
    <2> DEFINE n == m.seq + 1
               e == [r EXCEPT !.k.rcvNxt = n]
               a == SendEmptyPacket(e, "SYNACK")
    <2>1. q = a
      BY <1>2 DEF ProcessSynRcvd
    <2>2. n = 1 /\ n \in Int
      BY <1>2 DEF MessageOK, SegOK
    <2> HIDE DEF n
    <2>3. /\ e \in ResultType /\ e.out = {} /\ KeepsNumbers(e.k, k) /\ e.k.st = "SYN_RCVD"
          /\ e.k.ep /\ e.k.retx = k.retx
      BY <1>0, <2>2 DEF ResultType, SockType, KeepsNumbers
    <2> HIDE DEF e
    <2>4. CASE e.k.synCount = 0
      <3>1. a \in ResultType /\ ~a.k.ep /\ Silent(a.k) /\ a.out = {} /\ KeepsNumbers(a.k, e.k)
        BY <2>3, <2>4, SendSynFacts
      <3> HIDE DEF a
      <3>2. KeepsNumbers(a.k, k)
        BY <2>3, <3>1 DEF KeepsNumbers
      <3> QED  BY <1>0, <2>1, <3>1, <3>2, DeadLegal DEF r
    <2>5. CASE e.k.synCount # 0
      <3>1. /\ a \in ResultType /\ KeepsNumbers(a.k, e.k) /\ a.k.st = "SYN_RCVD"
            /\ a.out = {Segment(e.k, "SYNACK")} /\ a.k.ep /\ a.k.retx \in {"SYN", "SYNACK"}
        BY <1>0, <2>3, <2>5, SendSynFacts
      <3>2. /\ Segment(e.k, "SYNACK").f = "SYNACK" /\ Segment(e.k, "SYNACK").ack = 1
            /\ Segment(e.k, "SYNACK").seq = 0
        BY <1>0, <2>3, SegmentFacts, ResultParts DEF Flags, KeepsNumbers
      <3> HIDE DEF a
      <3>3. SockOK(a.k) /\ a.k.rcvNxt = 1 /\ a.k.nextTx = 0 /\ a.k.made = k.made
        BY <1>0, <2>3, <3>1, ResultParts DEF SockOK, Numbers, Shape, KeepsNumbers
      <3>4. Moves(k, a, m.ack, SaidBy(m.f))
        BY <1>0, <3>1, <3>3, Diagram DEF Moves, Life
      <3>5. \A s \in a.out : Sends(k, a, s)
        BY <3>1, <3>2, <3>3 DEF Sends, SegOK, Flags
      <3> QED  BY <2>1, <3>1, <3>3, <3>4, <3>5 DEF Legal, r
    <2> QED  BY <2>4, <2>5
  <1>3. CASE m.f = "FINACK" /\ m.seq = 2
    <2>1. q = r
      BY <1>0, <1>3 DEF ProcessSynRcvd
    <2> QED  BY <2>1, <1>0, NothingLegal DEF r
  <1>4. CASE m.f = "FINACK" /\ m.seq = 1
    <2>1. m.ack >= 1 /\ SaidBy(m.f) = 2
      BY <1>4 DEF MessageOK, SegOK, SaidBy
    <2>2. q = PeerClose(React(c, IF reaction = "closeAccepted" THEN "close" ELSE "none"), m, reaction)
      BY <1>0, <1>4 DEF ProcessSynRcvd
    <2> HIDE DEF c
    <2>3. CASE reaction = "closeAccepted"
      <3> DEFINE d == DoClose(c)
                 fin == WithFin(d, 1)
                 e == Enter(fin, "CLOSING")
      <3>1. q = PeerClose(d, m, reaction)
        BY <2>2, <2>3 DEF React
      <3>2. /\ d \in ResultType /\ d.k.ep /\ KeepsNumbers(d.k, c.k) /\ d.k.st = "FIN_WAIT_1"
            /\ d.out = {Segment(c.k, "FINACK")} /\ d.k.retx = "FINACK"
        BY <1>c, DoCloseFacts
      <3>3. /\ Segment(c.k, "FINACK").f = "FINACK" /\ Segment(c.k, "FINACK").ack = 1
            /\ Segment(c.k, "FINACK").seq = 1
        BY <1>c, SegmentFacts, ResultParts DEF Flags
      <3> HIDE DEF d
      <3>4. /\ d.k.rcvNxt = 1 /\ d.k.nextTx = 1 /\ d.k.head = 1 /\ d.k.highTx = 1
            /\ d.k.made = k.made
        BY <1>c, <3>2 DEF KeepsNumbers
      <3>5. q = e
        BY <1>4, <3>1, <3>2, <3>4, BothFinFacts
      <3>6. /\ fin \in ResultType /\ fin.out = d.out /\ fin.k.rcvNxt = 2 /\ fin.k.fin = 1
            /\ fin.k.nextTx = 1 /\ fin.k.head = 1 /\ fin.k.highTx = 1 /\ fin.k.made = k.made
            /\ fin.k.ep /\ fin.k.retx = "FINACK"
        BY <3>2, <3>4, FinFacts
      <3> HIDE DEF fin
      <3>7. /\ e \in ResultType /\ e.out = d.out /\ KeepsNumbers(e.k, fin.k) /\ e.k.ep
            /\ e.k.retx = "FINACK" /\ e.k.st = "CLOSING"
        BY <3>6, EnterFacts DEF States
      <3> HIDE DEF e
      <3>8. SockOK(e.k) /\ e.k.rcvNxt = 2 /\ e.k.nextTx = 1 /\ e.k.made = k.made
        BY <3>6, <3>7, ResultParts DEF SockOK, Numbers, Shape, KeepsNumbers
      <3>9. \E s \in e.out : s.f = "FINACK"
        BY <3>2, <3>3, <3>7
      <3>10. Moves(k, e, m.ack, SaidBy(m.f))
        BY <1>0, <2>1, <3>7, <3>8, <3>9, Diagram DEF Moves, Life, Lifecycle!Arrows
      <3>11. \A s \in e.out : Sends(k, e, s)
        BY <3>2, <3>3, <3>7, <3>8, Diagram DEF Sends, SegOK, Flags, Life
      <3> QED  BY <3>5, <3>7, <3>8, <3>10, <3>11 DEF Legal, r
    <2>4. CASE reaction # "closeAccepted"
      <3> DEFINE fin == WithFin(c, 1)
      <3>1. q = PeerClose(c, m, reaction)
        BY <2>2, <2>4 DEF React
      <3>2. q = DoPeerClose(fin, reaction)
        BY <1>4, <1>c, <3>1, PeerCloseFacts
      <3>3. /\ fin \in ResultType /\ fin.out = {} /\ fin.k.made = k.made
            /\ fin.k.nextTx = 1 /\ fin.k.head = 1 /\ fin.k.highTx = 1 /\ fin.k.rcvNxt = 2
            /\ fin.k.fin = 1 /\ fin.k.ep /\ fin.k.retx = "none"
        BY <1>c, FinFacts
      <3> HIDE DEF fin
      <3>4. Answers(q, fin)
        BY <3>2, <3>3, DoPeerCloseAnswers
      <3>5. Legal(k, q, m.ack, 2)
        BY <1>0, <2>1, <3>3, <3>4, AnswersLegal
      <3> QED  BY <2>1, <3>5 DEF r
    <2> QED  BY <2>3, <2>4
  <1>5. CASE m.f = "RST"
    <2>1. q = CloseAndNotify(r)
      BY <1>5 DEF ProcessSynRcvd
    <2> QED  BY <2>1, <1>0, KilledLegal DEF r
  <1>6. CASE m.f \in {"SYNACK", "RSTACK"} \/ (m.f = "ACK" /\ m.ack = 2)
    <2>1. q = Reset(r)
      BY <1>0, <1>6 DEF ProcessSynRcvd
    <2> QED  BY <2>1, <1>0, KilledLegal DEF r
  <1>7. m.f \in {"ACK", "FINACK"} => m.seq \in {1, 2} /\ m.ack \in {1, 2}
    BY DEF MessageOK, SegOK
  <1> QED  BY <1>0, <1>1, <1>2, <1>3, <1>4, <1>5, <1>6, <1>7 DEF r, Flags

\* An ACK in a state with the SYN acknowledged: it can only be for the FIN.
LEMMA AckFacts ==
    ASSUME NEW r \in ResultType, Numbers(r.k), r.k.nextTx # 0, NEW ack, ack \in {1, 2}
    PROVE  LET q == ReceivedAck(r, ack) IN
           /\ q \in ResultType /\ q.k.st = r.k.st /\ q.out = r.out /\ q.k.ep = r.k.ep
           /\ q.k.nextTx = (IF ack = 2 THEN 2 ELSE r.k.nextTx) /\ q.k.head = q.k.nextTx
           /\ q.k.highTx = 1 /\ q.k.rcvNxt = r.k.rcvNxt /\ q.k.fin = r.k.fin
           /\ q.k.made = r.k.made /\ q.k.timewait = r.k.timewait
           /\ q.k.retx = (IF ack = 2 /\ r.k.nextTx = 1
                          THEN IF r.k.st \in {"FIN_WAIT_1", "CLOSING"} THEN "RTO" ELSE "none"
                          ELSE r.k.retx)
  <1>0. /\ r.k.nextTx \in {1, 2} /\ r.k.head = r.k.nextTx /\ r.k.highTx = 1
        /\ 1 \in Int /\ 2 \in Int
    BY DEF Numbers
  <1>1. CASE ack = 1
    <2>1. ReceivedAck(r, ack) = r
      BY <1>0, <1>1, OldAckFacts
    <2> QED  BY <1>0, <1>1, <2>1
  <1>2. CASE ack = 2 /\ r.k.nextTx = 2
    <2> DEFINE q == ReceivedAck(r, 2)
    <2>1. /\ q \in ResultType /\ q.k.st = r.k.st /\ q.out = r.out
          /\ KeepsNumbers(q.k, r.k) /\ q.k.ep = r.k.ep /\ q.k.retx = r.k.retx
          /\ q.k.timewait = r.k.timewait
      BY <1>0, <1>2, SameAckFacts
    <2> HIDE DEF q
    <2> QED  BY <1>0, <1>2, <2>1 DEF q, KeepsNumbers
  <1>3. CASE ack = 2 /\ r.k.nextTx = 1
    <2> DEFINE q == ReceivedAck(r, 2)
    <2>1. /\ q \in ResultType /\ q.k.st = r.k.st /\ q.out = r.out
          /\ q.k.nextTx = 2 /\ q.k.head = 2 /\ q.k.highTx = r.k.highTx
          /\ q.k.rcvNxt = r.k.rcvNxt /\ q.k.fin = r.k.fin /\ q.k.made = r.k.made
          /\ q.k.retx = (IF r.k.st \in {"FIN_WAIT_1", "CLOSING"} THEN "RTO" ELSE "none")
          /\ q.k.ep = r.k.ep /\ q.k.timewait = r.k.timewait
      BY <1>0, <1>3, NewAckFacts
    <2> HIDE DEF q
    <2> QED  BY <1>0, <1>3, <2>1 DEF q
  <1> QED  BY <1>0, <1>1, <1>2, <1>3

\* An ACK in FIN_WAIT_1, FIN_WAIT_2 and CLOSE_WAIT.
LEMMA WaitAckLegal ==
    ASSUME NEW k, SockOK(k), k.ep, k.st \in {"FIN_WAIT_1", "FIN_WAIT_2", "CLOSE_WAIT"},
           NEW m, MessageOK(m), m.f = "ACK"
    PROVE  Legal(k, ProcessWait(Handling(k), m), m.ack, SaidBy(m.f))
  <1> DEFINE r == Handling(k)
             a == ReceivedAck(r, m.ack)
             e == Enter(a, "FIN_WAIT_2")
             b == IF a.k.st = "FIN_WAIT_1" /\ FinAcked(a.k, m) THEN e ELSE a
  <1>0. /\ r \in ResultType /\ r.k = k /\ r.out = {} /\ m.ack \in {1, 2} /\ SaidBy(m.f) \in Int
        /\ k \in SockType /\ k.nextTx # 0 /\ Numbers(k)
    BY ResultParts, SaidByInt DEF SockOK, Shape, MessageOK, SegOK
  <1>1. ProcessWait(r, m) = AnswerFin(b, m)
    BY DEF ProcessWait
  <1> HIDE DEF r
  <1>2. /\ a \in ResultType /\ a.k.st = k.st /\ a.out = {} /\ a.k.ep
        /\ a.k.nextTx = (IF m.ack = 2 THEN 2 ELSE k.nextTx) /\ a.k.head = a.k.nextTx
        /\ a.k.highTx = 1 /\ a.k.rcvNxt = k.rcvNxt /\ a.k.fin = k.fin
        /\ a.k.made = k.made
        /\ a.k.retx = (IF m.ack = 2 /\ k.nextTx = 1
                       THEN IF k.st \in {"FIN_WAIT_1", "CLOSING"} THEN "RTO" ELSE "none"
                       ELSE k.retx)
    BY <1>0, AckFacts
  <1> HIDE DEF a
  <1>3. /\ e \in ResultType /\ e.k.st = "FIN_WAIT_2" /\ e.out = {} /\ e.k.ep
        /\ KeepsNumbers(e.k, a.k) /\ e.k.retx = a.k.retx
    BY <1>2, EnterFacts DEF States
  <1> HIDE DEF e
  <1>4. FinAcked(a.k, m) <=> m.ack = 2
    BY <1>0, <1>2 DEF FinAcked
  <1>5. /\ b \in ResultType /\ b.out = {} /\ b.k.ep
        /\ b.k.st = (IF k.st = "FIN_WAIT_1" /\ m.ack = 2 THEN "FIN_WAIT_2" ELSE k.st)
        /\ b.k.nextTx = (IF m.ack = 2 THEN 2 ELSE k.nextTx) /\ b.k.head = b.k.nextTx
        /\ b.k.highTx = 1 /\ b.k.rcvNxt = k.rcvNxt /\ b.k.fin = k.fin
        /\ b.k.made = k.made
        /\ b.k.retx = (IF m.ack = 2 /\ k.nextTx = 1
                       THEN IF k.st \in {"FIN_WAIT_1", "CLOSING"} THEN "RTO" ELSE "none"
                       ELSE k.retx)
    BY <1>2, <1>3, <1>4 DEF KeepsNumbers
  <1> HIDE DEF b
  <1>6. AnswerFin(b, m) = b
    BY <1>5 DEF AnswerFin, Finished, SockOK, Shape, Numbers
  <1>7. SockOK(b.k)
    BY <1>0, <1>5, ResultParts DEF SockOK, Numbers, Shape
  <1>8. Moves(k, b, m.ack, SaidBy(m.f))
    BY <1>0, <1>5, Diagram DEF Moves, Life, Lifecycle!Arrows, Numbers
  <1> QED  BY <1>1, <1>5, <1>6, <1>7, <1>8 DEF Legal, r

\* A FIN in the same states.
LEMMA WaitFinLegal ==
    ASSUME NEW k, SockOK(k), k.ep, k.st \in {"FIN_WAIT_1", "FIN_WAIT_2", "CLOSE_WAIT"},
           NEW m, MessageOK(m), m.f = "FINACK", m.seq = 1
    PROVE  Legal(k, ProcessWait(Handling(k), m), m.ack, SaidBy(m.f))
  <1> DEFINE r == Handling(k)
             a == ReceivedAck(r, m.ack)
             f == WithFin(a, 1)
             e == IF f.k.st = "FIN_WAIT_2" \/ FinAcked(f.k, m) THEN TimeWait(f)
                  ELSE Enter(f, "CLOSING")
             q == SendEmptyPacket(e, "ACK")
  <1>0. /\ r \in ResultType /\ r.k = k /\ r.out = {} /\ m.ack \in {1, 2} /\ SaidBy(m.f) = 2
        /\ k \in SockType /\ k.nextTx # 0 /\ Numbers(k)
    BY ResultParts DEF SockOK, Shape, MessageOK, SegOK, SaidBy
  <1>1. ProcessWait(r, m) = AnswerFin(f, m)
    BY DEF ProcessWait, WithFin
  <1> HIDE DEF r
  <1>2. /\ a \in ResultType /\ a.k.st = k.st /\ a.out = {} /\ a.k.ep
        /\ a.k.nextTx = (IF m.ack = 2 THEN 2 ELSE k.nextTx) /\ a.k.head = a.k.nextTx
        /\ a.k.highTx = 1 /\ a.k.rcvNxt = k.rcvNxt /\ a.k.fin = k.fin
        /\ a.k.made = k.made
        /\ a.k.retx = (IF m.ack = 2 /\ k.nextTx = 1
                       THEN IF k.st \in {"FIN_WAIT_1", "CLOSING"} THEN "RTO" ELSE "none"
                       ELSE k.retx)
    BY <1>0, AckFacts
  <1> HIDE DEF a
  <1>3. /\ f \in ResultType /\ f.k.st = k.st /\ f.out = {} /\ f.k.ep /\ f.k.retx = a.k.retx
        /\ f.k.nextTx = a.k.nextTx /\ f.k.head = a.k.nextTx /\ f.k.highTx = 1
        /\ f.k.rcvNxt = 2 /\ f.k.fin = 1 /\ f.k.made = k.made
    <2>1. k.rcvNxt \in {1, 2}
      BY DEF SockOK, Shape
    <2> QED  BY <1>2, <2>1, FinFacts
  <1> HIDE DEF f
  <1>4. Finished(f.k)
    BY <1>3 DEF Finished, NoFin
  <1>5. CASE k.st = "CLOSE_WAIT"
    <2>1. AnswerFin(f, m) = f
      BY <1>3, <1>5 DEF AnswerFin
    <2>2. SockOK(f.k)
      BY <1>0, <1>2, <1>3, <1>5, ResultParts DEF SockOK, Numbers, Shape
    <2>3. k.rcvNxt = 2
      BY <1>5 DEF SockOK, Shape
    <2>4. Moves(k, f, m.ack, SaidBy(m.f))
      BY <1>0, <1>2, <1>3, <1>5, <2>3, Diagram DEF Moves, Life, Numbers
    <2> QED  BY <1>1, <1>3, <2>1, <2>2, <2>4 DEF Legal, r
  <1>6. CASE k.st # "CLOSE_WAIT"
    <2>1. AnswerFin(f, m) = q
      BY <1>3, <1>4, <1>6 DEF AnswerFin
    <2>2. k.rcvNxt = 1 /\ (k.st = "FIN_WAIT_1" => k.nextTx = 1 /\ k.retx = "FINACK")
          /\ (k.st = "FIN_WAIT_2" => k.nextTx = 2)
      BY <1>6 DEF SockOK, Shape
    <2>3. FinAcked(f.k, m) <=> m.ack = 2
      BY <1>0, <1>3 DEF FinAcked
    <2>4. /\ e \in ResultType /\ e.out = {} /\ e.k.ep /\ KeepsNumbers(e.k, f.k)
          /\ \/ /\ e.k.st = "TIME_WAIT" /\ e.k.retx = "none" /\ e.k.timewait /\ e.k.nextTx = 2
                /\ k.st = "FIN_WAIT_2" \/ m.ack = 2
             \/ /\ e.k.st = "CLOSING" /\ e.k.retx = "FINACK" /\ e.k.nextTx = 1
                /\ k.st = "FIN_WAIT_1" /\ m.ack = 1
      <3>1. CASE k.st = "FIN_WAIT_2" \/ m.ack = 2
        <4>1. e = TimeWait(f)
          BY <1>3, <2>3, <3>1
        <4> HIDE DEF e
        <4>2. /\ e \in ResultType /\ e.out = {} /\ e.k.ep /\ KeepsNumbers(e.k, f.k)
              /\ e.k.st = "TIME_WAIT" /\ e.k.retx = "none" /\ e.k.timewait
          BY <1>3, <4>1, TimeWaitFacts
        <4> QED  BY <1>2, <1>3, <2>2, <3>1, <4>2 DEF KeepsNumbers
      <3>2. CASE k.st = "FIN_WAIT_1" /\ m.ack = 1
        <4>1. e = Enter(f, "CLOSING")
          BY <1>3, <2>3, <3>2
        <4> HIDE DEF e
        <4>2. /\ e \in ResultType /\ e.out = {} /\ e.k.ep /\ KeepsNumbers(e.k, f.k)
              /\ e.k.st = "CLOSING" /\ e.k.retx = f.k.retx
          BY <1>3, <4>1, EnterFacts DEF States
        <4> QED  BY <1>2, <1>3, <2>2, <3>2, <4>2 DEF KeepsNumbers
      <3> QED  BY <1>0, <1>6, <3>1, <3>2
    <2> HIDE DEF e
    <2>5. /\ q \in ResultType /\ q.k.st = e.k.st /\ q.out = {Segment(e.k, "ACK")}
          /\ KeepsNumbers(q.k, e.k) /\ q.k.ep /\ q.k.retx = e.k.retx /\ q.k.timewait = e.k.timewait
      BY <2>4, SendFacts DEF Flags
    <2>6. Segment(e.k, "ACK").f = "ACK" /\ Segment(e.k, "ACK").ack = 2 /\ Segment(e.k, "ACK").seq = 2
      BY <1>3, <2>4, SegmentFacts, ResultParts DEF Flags, KeepsNumbers
    <2> HIDE DEF q
    <2>7. SockOK(q.k) /\ q.k.rcvNxt = 2 /\ q.k.made = k.made /\ q.k.nextTx = e.k.nextTx
      BY <1>3, <2>4, <2>5, ResultParts DEF SockOK, Numbers, Shape, KeepsNumbers
    <2>8. Moves(k, q, m.ack, SaidBy(m.f))
      BY <1>0, <1>6, <2>2, <2>4, <2>5, <2>7, Diagram DEF Moves, Life, Lifecycle!Arrows
    <2>9. \A s \in q.out : Sends(k, q, s)
      BY <2>5, <2>6, <2>7 DEF Sends, SegOK, Flags
    <2> QED  BY <1>1, <2>1, <2>5, <2>7, <2>8, <2>9 DEF Legal, r
  <1> QED  BY <1>5, <1>6

LEMMA WaitLegal ==
    ASSUME NEW k, SockOK(k), k.ep, k.st \in {"FIN_WAIT_1", "FIN_WAIT_2", "CLOSE_WAIT"},
           NEW m, MessageOK(m), m.f = "FINACK" => m.seq = 1
    PROVE  Legal(k, ProcessWait(Handling(k), m), m.ack, SaidBy(m.f))
  <1> DEFINE r == Handling(k)
             q == ProcessWait(r, m)
  <1>0. m.ack \in Int /\ SaidBy(m.f) \in Int /\ m.f \in Flags
    BY SaidByInt DEF MessageOK, SegOK
  <1>1. CASE m.f = "ACK"
    BY <1>1, WaitAckLegal
  <1>2. CASE m.f = "FINACK"
    BY <1>2, WaitFinLegal
  <1> HIDE DEF r
  <1>3. CASE m.f \in {"SYN", "SYNACK"}
    <2>1. q = r
      BY <1>3 DEF ProcessWait
    <2> QED  BY <1>0, <2>1, NothingLegal DEF r
  <1>4. CASE m.f = "RST"
    <2>1. q = CloseAndNotify(r)
      BY <1>4 DEF ProcessWait
    <2> QED  BY <1>0, <2>1, KilledLegal DEF r
  <1>5. CASE m.f = "RSTACK"
    <2>1. q = Reset(r)
      BY <1>5 DEF ProcessWait
    <2> QED  BY <1>0, <2>1, KilledLegal DEF r
  <1> QED  BY <1>0, <1>1, <1>2, <1>3, <1>4, <1>5 DEF r, Flags

LEMMA ClosingLegal ==
    ASSUME NEW k, SockOK(k), k.ep, k.st = "CLOSING", NEW m, MessageOK(m)
    PROVE  Legal(k, ProcessClosing(Handling(k), m), m.ack, SaidBy(m.f))
  <1> DEFINE r == Handling(k)
             q == ProcessClosing(r, m)
  <1>0. /\ r \in ResultType /\ r.k = k /\ r.out = {} /\ m.ack \in Int /\ SaidBy(m.f) \in Int
        /\ k \in SockType /\ k.nextTx = 1 /\ k.rcvNxt = 2 /\ k.retx = "FINACK" /\ k.head = 1
        /\ k.highTx = 1 /\ k.fin = 1 /\ m.f \in Flags
    BY ResultParts, SaidByInt DEF SockOK, Shape, Numbers, MessageOK, SegOK
  <1> HIDE DEF r
  <1>1. CASE m.f = "ACK" /\ m.seq = 2
    <2> DEFINE e == TimeWait(r)
    <2>1. q = e
      BY <1>0, <1>1 DEF ProcessClosing
    <2>2. /\ e \in ResultType /\ e.k.st = "TIME_WAIT" /\ e.out = {} /\ KeepsNumbers(e.k, k)
          /\ e.k.ep /\ e.k.retx = "none" /\ e.k.timewait
      BY <1>0, TimeWaitFacts
    <2> HIDE DEF e
    <2>3. m.ack = 2
      BY <1>1 DEF MessageOK, SegOK
    <2>4. SockOK(e.k) /\ e.k.made = k.made
      BY <1>0, <2>2, ResultParts DEF SockOK, Numbers, Shape, KeepsNumbers
    <2>5. Moves(k, e, m.ack, SaidBy(m.f))
      BY <1>0, <2>2, <2>3, Diagram DEF Moves, Life, Lifecycle!Arrows, KeepsNumbers
    <2> QED  BY <2>1, <2>2, <2>4, <2>5 DEF Legal, r
  <1>2. CASE m.f = "ACK" /\ m.seq # 2
    <2>1. q = r
      BY <1>0, <1>2 DEF ProcessClosing
    <2> QED  BY <1>0, <2>1, NothingLegal DEF r
  <1>3. CASE m.f = "FINACK"
    <2> DEFINE s == SendEmptyPacket(r, "ACK")
               c == CloseAndNotify(s)
    <2>1. q = c
      BY <1>3 DEF ProcessClosing
    <2>2. /\ s \in ResultType /\ s.k.ep /\ s.out = {Segment(k, "ACK")} /\ KeepsNumbers(s.k, k)
      BY <1>0, SendFacts DEF Flags
    <2>3. Segment(k, "ACK").f = "ACK" /\ Segment(k, "ACK").ack = 2 /\ Segment(k, "ACK").seq = 2
      BY <1>0, SegmentFacts DEF Flags
    <2> HIDE DEF s
    <2>4. /\ c \in ResultType /\ ~c.k.ep /\ Silent(c.k) /\ KeepsNumbers(c.k, s.k) /\ c.out = s.out
      BY <2>2, CloseFacts
    <2> HIDE DEF c
    <2>5. KeepsNumbers(c.k, k)
      BY <2>2, <2>4 DEF KeepsNumbers
    <2>6. \A x \in c.out : x.f \in Resets \/ (x.f = "ACK" /\ SegOK(x) /\ x.ack <= k.rcvNxt)
      BY <1>0, <2>2, <2>3, <2>4 DEF SegOK, Flags
    <2> QED  BY <1>0, <2>1, <2>4, <2>5, <2>6, DeadLegal DEF r
  <1>4. CASE m.f = "RST"
    <2>1. q = CloseAndNotify(r)
      BY <1>4 DEF ProcessClosing
    <2> QED  BY <1>0, <2>1, KilledLegal DEF r
  <1>5. CASE m.f \in {"SYN", "SYNACK", "RSTACK"}
    <2>1. q = Reset(r)
      BY <1>5 DEF ProcessClosing
    <2> QED  BY <1>0, <2>1, KilledLegal DEF r
  <1> QED  BY <1>0, <1>1, <1>2, <1>3, <1>4, <1>5 DEF r, Flags

LEMMA LastAckLegal ==
    ASSUME NEW k, SockOK(k), k.ep, k.st = "LAST_ACK", NEW m, MessageOK(m)
    PROVE  Legal(k, ProcessLastAck(Handling(k), m), m.ack, SaidBy(m.f))
  <1> DEFINE r == Handling(k)
             q == ProcessLastAck(r, m)
  <1>0. m.ack \in Int /\ SaidBy(m.f) \in Int
    BY SaidByInt DEF MessageOK
  <1> HIDE DEF r
  <1>1. q = r \/ q = CloseAndNotify(r) \/ q = Reset(r)
    BY DEF ProcessLastAck
  <1> QED  BY <1>0, <1>1, NothingLegal, KilledLegal DEF r

\* A FIN never carries the number 2 into a state that would count it again.
FinExpected(k, m) ==
    k.st \in {"FIN_WAIT_1", "FIN_WAIT_2", "CLOSE_WAIT"} /\ m.f = "FINACK" => m.seq = 1

LEMMA ForwardUpLegal ==
    ASSUME NEW k, SockOK(k), k.ep, NEW m, MessageOK(m), FinExpected(k, m), NEW reaction
    PROVE  Legal(k, DoForwardUp(Handling(k), m, reaction), m.ack, SaidBy(m.f))
  <1> DEFINE r == Handling(k)
             q == DoForwardUp(r, m, reaction)
  <1>0. r.k = k /\ k.st \in States /\ k.st # "CLOSED" /\ m.ack \in Int /\ SaidBy(m.f) \in Int
    BY ResultParts, SaidByInt DEF SockOK, SockType, Shape, MessageOK
  <1> HIDE DEF r
  <1>1. CASE k.st = "SYN_SENT"
    <2>1. q = ProcessSynSent(r, m)
      BY <1>0, <1>1 DEF DoForwardUp
    <2> QED  BY <1>1, <2>1, SynSentLegal DEF r
  <1>2. CASE k.st = "SYN_RCVD"
    <2>1. q = ProcessSynRcvd(r, m, reaction)
      BY <1>0, <1>2 DEF DoForwardUp
    <2> QED  BY <1>2, <2>1, SynRcvdLegal DEF r
  <1>3. CASE k.st = "ESTABLISHED"
    <2>1. q = ProcessEstablished(r, m, reaction)
      BY <1>0, <1>3 DEF DoForwardUp
    <2> QED  BY <1>3, <2>1, EstablishedLegal DEF r
  <1>4. CASE k.st \in {"FIN_WAIT_1", "FIN_WAIT_2", "CLOSE_WAIT"}
    <2>1. q = ProcessWait(r, m)
      BY <1>0, <1>4 DEF DoForwardUp
    <2>2. m.f = "FINACK" => m.seq = 1
      BY <1>4 DEF FinExpected
    <2> QED  BY <1>4, <2>1, <2>2, WaitLegal DEF r
  <1>5. CASE k.st = "CLOSING"
    <2>1. q = ProcessClosing(r, m)
      BY <1>0, <1>5 DEF DoForwardUp
    <2> QED  BY <1>5, <2>1, ClosingLegal DEF r
  <1>6. CASE k.st = "LAST_ACK"
    <2>1. q = ProcessLastAck(r, m)
      BY <1>0, <1>6 DEF DoForwardUp
    <2> QED  BY <1>6, <2>1, LastAckLegal DEF r
  <1>7. CASE k.st = "TIME_WAIT"
    <2>1. q = r
      BY <1>0, <1>7 DEF DoForwardUp
    <2> QED  BY <1>0, <2>1, NothingLegal DEF r
  <1> QED  BY <1>0, <1>1, <1>2, <1>3, <1>4, <1>5, <1>6, <1>7 DEF r, States

----------------------------------------------------------------------------
(***************************************************************************)
(* The invariant: the sockets, the segments, and what ties them together.  *)
(***************************************************************************)

\* Every segment carries numbers its flags allow.
SegmentsOK ==
    \A m \in net : /\ m.to \in Sides /\ MessageOK(m)
                   /\ m.f \in Resets => m.seq = 0 /\ m.ack = 0

\* Nobody has received more than its peer has sent.
Truthful ==
    /\ \A m \in net : m.ack <= Said(m.to)
    /\ \A i \in Sides : socks[i].rcvNxt <= Said(Peer(i))

\* There is a segment to i that acknowledges at least n.
Acked(i, n) == \E m \in net : m.to = i /\ m.f \notin Resets /\ m.ack >= n

\* What a state claims of the peer, the peer has acknowledged.
Claims ==
    \A i \in Sides : socks[i].ep =>
        /\ socks[i].nextTx = 2 \/ socks[i].st \in Lifecycle!FinKnown => Acked(i, 2)
        /\ socks[i].st \in Lifecycle!Synchronised => Acked(i, 1)
        /\ socks[i].st \in FinSaid => Said(i) = 2

\* The client is made once.  What it has sent binds it for good: its FIN, and
\* the acknowledgment of the server's.  A server in CLOSE_WAIT or LAST_ACK whose
\* FIN was acknowledged repeats it with the number 2; the client has it already.
ClientOnce ==
    /\ socks["client"].made = 0 => \A m \in net : m.to = "server" => m.f \in Resets
    /\ \A m \in net : m.to = "server" /\ m.ack = 2 => socks["client"].rcvNxt = 2
    /\ Said("client") = 2 => Life(socks["client"]) \in FinSaid \cup {"CLOSED"}
    /\ \A m \in net : m.f = "FINACK" /\ m.seq = 2 =>
            m.to = "client" /\ Said("client") = 2 /\ socks["client"].rcvNxt = 2
    /\ socks["client"].ep /\ socks["client"].nextTx = 2 =>
            socks["client"].st \notin {"CLOSE_WAIT", "LAST_ACK"}

Inv ==
    /\ \A i \in Sides : SockOK(socks[i]) /\ (socks[i].made = 0 => socks[i] = NewSocket)
    /\ DOMAIN socks = Sides /\ listening \in BOOLEAN
    /\ SegmentsOK /\ Truthful /\ Claims /\ ClientOnce

----------------------------------------------------------------------------
(* The application's calls and the timers are legal too.                   *)

\* A result that differs from the socket only in flags.
Same(r, k) ==
    /\ r \in ResultType /\ r.out = {} /\ KeepsNumbers(r.k, k) /\ r.k.st = k.st
    /\ r.k.ep = k.ep /\ r.k.retx = k.retx /\ r.k.timewait = k.timewait

LEMMA SameLegal ==
    ASSUME NEW k, SockOK(k), k.ep, NEW r, Same(r, k)
    PROVE  Legal(k, r, 0, 0)
  <1>1. SockOK(r.k)
    BY ResultParts DEF Same, SockOK, Numbers, Shape, KeepsNumbers
  <1>2. Moves(k, r, 0, 0)
    BY DEF Moves, Same, Life, SockOK, Numbers, KeepsNumbers
  <1> QED  BY <1>1, <1>2 DEF Legal, Same, KeepsNumbers

LEMMA DoCloseLegal ==
    ASSUME NEW k, SockOK(k), k.ep, k.st # "SYN_RCVD", NEW r, Same(r, k)
    PROVE  Legal(k, DoClose(r), 0, 0)
  <1> DEFINE q == DoClose(r)
  <1>0. /\ r \in ResultType /\ r.out = {} /\ KeepsNumbers(r.k, k) /\ r.k.st = k.st
        /\ r.k.ep /\ r.k.retx = k.retx /\ k.st \in States
    BY DEF Same, SockOK, SockType
  <1>1. CASE k.st \in {"ESTABLISHED", "CLOSE_WAIT"}
    <2>1. /\ q \in ResultType /\ q.k.ep /\ KeepsNumbers(q.k, r.k)
          /\ q.k.st = (IF k.st = "CLOSE_WAIT" THEN "LAST_ACK" ELSE "FIN_WAIT_1")
          /\ q.out = {Segment(r.k, "FINACK")}
          /\ q.k.retx = (IF r.k.retx = "none" THEN "FINACK" ELSE r.k.retx)
      BY <1>0, <1>1, DoCloseFacts
    <2>2. /\ Segment(r.k, "FINACK").f = "FINACK" /\ Segment(r.k, "FINACK").ack = k.rcvNxt
          /\ Segment(r.k, "FINACK").seq = k.nextTx
      BY <1>0, <1>1, SegmentFacts, ResultParts DEF Flags, KeepsNumbers, SockOK, SockType
    <2>3. /\ k.retx = "none" /\ k.nextTx \in {1, 2} /\ (k.nextTx = 2 => k.st = "CLOSE_WAIT")
          /\ k.rcvNxt = (IF k.st = "CLOSE_WAIT" THEN 2 ELSE 1)
      BY <1>1 DEF SockOK, Shape, Numbers
    <2> HIDE DEF q
    <2>4. SockOK(q.k) /\ q.k.rcvNxt = k.rcvNxt /\ q.k.nextTx = k.nextTx /\ q.k.made = k.made
      BY <1>0, <1>1, <2>1, <2>3, ResultParts DEF SockOK, Numbers, Shape, KeepsNumbers
    <2>5. \E s \in q.out : s.f = "FINACK"
      BY <2>1, <2>2
    <2>6. Moves(k, q, 0, 0)
      BY <1>1, <2>1, <2>3, <2>4, <2>5, Diagram DEF Moves, Life, Lifecycle!Arrows
    <2>7. \A s \in q.out : Sends(k, q, s)
      BY <1>1, <2>1, <2>2, <2>3, <2>4, Diagram DEF Sends, SegOK, Flags, Life
    <2> QED  BY <2>1, <2>4, <2>6, <2>7 DEF Legal, q
  <1>2. CASE k.st \in {"SYN_SENT", "CLOSING"}
    <2> DEFINE d == Reset(r)
    <2>1. q = d
      BY <1>0, <1>2 DEF DoClose
    <2>2. /\ d \in ResultType /\ ~d.k.ep /\ Silent(d.k) /\ KeepsNumbers(d.k, r.k)
          /\ \A s \in d.out : s.f \in Resets
      BY <1>0, ResetFacts DEF Resets
    <2> HIDE DEF d
    <2>3. KeepsNumbers(d.k, k)
      BY <1>0, <2>2 DEF KeepsNumbers
    <2> QED  BY <2>1, <2>2, <2>3, DeadLegal
  <1>3. CASE k.st \notin {"ESTABLISHED", "CLOSE_WAIT", "SYN_SENT", "CLOSING"}
    <2>1. q = r
      BY <1>0, <1>3 DEF DoClose
    <2> QED  BY <2>1, SameLegal
  <1> QED  BY <1>1, <1>2, <1>3

LEMMA CloseLegal ==
    ASSUME NEW k, SockOK(k), k.ep, k.st # "SYN_RCVD"
    PROVE  Legal(k, DoClose(Handling(k)), 0, 0)
  <1>1. Same(Handling(k), k)
    BY ResultParts DEF Same, SockOK, KeepsNumbers
  <1> QED  BY <1>1, DoCloseLegal

LEMMA ShutdownLegal ==
    ASSUME NEW k, SockOK(k), k.ep, k.st # "SYN_RCVD"
    PROVE  Legal(k, ShutdownSend(Handling(k)), 0, 0)
  <1> DEFINE r == Handling(k)
             s == [r EXCEPT !.k.shutdown = TRUE]
  <1>1. r \in ResultType /\ r.k = k /\ r.out = {}
    BY ResultParts DEF SockOK
  <1>2. ShutdownSend(r) = DoClose(s) \/ ShutdownSend(r) = s
    BY DEF ShutdownSend
  <1> HIDE DEF r
  <1>3. Same(s, k)
    BY <1>1, ShutFlagFacts DEF Same
  <1> HIDE DEF s
  <1> QED  BY <1>2, <1>3, SameLegal, DoCloseLegal DEF r

\* The retransmission timer: a SYN or a FIN once more.
LEMMA RetxLegal ==
    ASSUME NEW k, SockOK(k), k.retx # "none"
    PROVE  k.ep /\ Legal(k, RetxEvent(k), 0, 0)
  <1> DEFINE c == [k EXCEPT !.retx = "none"]
             r == Handling(c)
             q == RetxEvent(k)
  <1>0. k.ep /\ k \in SockType /\ k.st \in States
    BY DEF SockOK, Shape, Silent, SockType
  <1>1. /\ c \in SockType /\ KeepsNumbers(c, k) /\ c.st = k.st /\ c.ep /\ c.retx = "none"
        /\ c.timewait = k.timewait
    BY <1>0 DEF SockType, KeepsNumbers
  <1>2. q = IF k.retx = "RTO" THEN ReTxTimeout(r) ELSE SendEmptyPacket(r, k.retx)
    BY DEF RetxEvent
  <1> HIDE DEF c
  <1>3. r \in ResultType /\ r.k = c /\ r.out = {}
    BY <1>1, ResultParts
  <1> HIDE DEF r
  <1>4. CASE k.retx = "RTO"
    <2>1. k.st = "FIN_WAIT_2"
      BY <1>0, <1>4 DEF SockOK, Shape, States
    <2>2. q = r
      BY <1>1, <1>2, <1>3, <1>4, <2>1 DEF ReTxTimeout
    <2>3. SockOK(c)
      BY <1>0, <1>1, <2>1 DEF SockOK, Numbers, Shape, KeepsNumbers
    <2>4. Moves(k, r, 0, 0)
      BY <1>0, <1>1, <1>3, <2>1 DEF Moves, Life, SockOK, Numbers, KeepsNumbers
    <2> QED  BY <1>0, <1>1, <1>3, <2>2, <2>3, <2>4 DEF Legal, KeepsNumbers
  <1>5. CASE k.retx \in {"SYN", "SYNACK"}
    <2> DEFINE s == SendEmptyPacket(r, k.retx)
    <2>1. q = s
      BY <1>2, <1>5
    <2>2. CASE c.synCount = 0
      <3>1. s \in ResultType /\ ~s.k.ep /\ Silent(s.k) /\ s.out = {} /\ KeepsNumbers(s.k, c)
        BY <1>1, <1>3, <1>5, <2>2, SendSynFacts
      <3> HIDE DEF s
      <3>2. KeepsNumbers(s.k, k)
        BY <1>1, <3>1 DEF KeepsNumbers
      <3> QED  BY <1>0, <2>1, <3>1, <3>2, DeadLegal
    <2>3. CASE c.synCount # 0
      <3>1. /\ s \in ResultType /\ KeepsNumbers(s.k, c) /\ s.k.st = c.st
            /\ s.out = {Segment(c, k.retx)} /\ s.k.ep /\ s.k.retx = k.retx
        BY <1>1, <1>3, <1>5, <2>3, SendSynFacts
      <3>2. /\ k.st \in {"SYN_SENT", "SYN_RCVD"} /\ k.nextTx = 0 /\ k.rcvNxt \in {0, 1}
            /\ k.retx = "SYNACK" => k.rcvNxt = 1
        BY <1>0, <1>5 DEF SockOK, Shape, States
      <3>3. /\ Segment(c, k.retx).f = k.retx /\ Segment(c, k.retx).ack = k.rcvNxt
            /\ Segment(c, k.retx).seq = 0
        <4> DEFINE f == k.retx
        <4>1. f \in Flags /\ f # "FINACK"
          BY <1>5 DEF Flags
        <4> HIDE DEF f
        <4>2. /\ Segment(c, f).f = f /\ Segment(c, f).ack = c.rcvNxt
              /\ Segment(c, f).seq = c.nextTx + (IF c.st \in {"FIN_WAIT_1", "LAST_ACK", "CLOSING"}
                                                 THEN 1 ELSE 0)
          BY <1>1, <4>1, SegmentFacts
        <4> QED  BY <1>1, <3>2, <4>2 DEF f, KeepsNumbers
      <3> HIDE DEF s
      <3>4. SockOK(s.k) /\ s.k.rcvNxt = k.rcvNxt /\ s.k.nextTx = 0 /\ s.k.made = k.made
        BY <1>0, <1>1, <1>5, <3>1, <3>2, ResultParts DEF SockOK, Numbers, Shape, KeepsNumbers
      <3>5. Moves(k, s, 0, 0)
        BY <1>0, <1>1, <3>1, <3>2, <3>4, Diagram DEF Moves, Life
      <3>6. \A x \in s.out : Sends(k, s, x)
        BY <1>5, <3>1, <3>2, <3>3, <3>4 DEF Sends, SegOK, Flags
      <3> QED  BY <1>0, <2>1, <3>1, <3>4, <3>5, <3>6 DEF Legal
    <2> QED  BY <2>2, <2>3
  <1>6. CASE k.retx = "FINACK"
    <2> DEFINE s == SendEmptyPacket(r, "FINACK")
    <2>1. q = s
      BY <1>2, <1>6
    <2>2. /\ k.st \in {"FIN_WAIT_1", "CLOSING", "LAST_ACK"} /\ k.nextTx \in {1, 2}
          /\ k.rcvNxt \in {1, 2} /\ (k.nextTx = 2 => k.st = "LAST_ACK" /\ k.rcvNxt = 2)
      BY <1>0, <1>6 DEF SockOK, Shape, States, Numbers
    <2>3. /\ s \in ResultType /\ KeepsNumbers(s.k, c) /\ s.k.st = c.st
          /\ s.out = {Segment(c, "FINACK")} /\ s.k.ep /\ s.k.retx = "FINACK"
      BY <1>1, <1>3, SendFacts DEF Flags
    <2>4. /\ Segment(c, "FINACK").f = "FINACK" /\ Segment(c, "FINACK").ack = k.rcvNxt
          /\ Segment(c, "FINACK").seq = k.nextTx
      BY <1>1, <2>2, SegmentFacts DEF Flags, KeepsNumbers, SockType
    <2> HIDE DEF s
    <2>5. SockOK(s.k) /\ s.k.rcvNxt = k.rcvNxt /\ s.k.nextTx = k.nextTx /\ s.k.made = k.made
      BY <1>0, <1>1, <1>6, <2>2, <2>3, ResultParts DEF SockOK, Numbers, Shape, KeepsNumbers
    <2>6. Moves(k, s, 0, 0)
      BY <1>0, <1>1, <2>2, <2>3, <2>5, Diagram DEF Moves, Life
    <2>7. \A x \in s.out : Sends(k, s, x)
      BY <1>0, <1>1, <2>2, <2>3, <2>4, <2>5, Diagram DEF Sends, SegOK, Flags, Life
    <2> QED  BY <1>0, <2>1, <2>3, <2>5, <2>6, <2>7 DEF Legal
  <1>7. k.retx \in {"none", "SYN", "SYNACK", "FINACK", "RTO"}
    BY <1>0 DEF SockType
  <1> QED  BY <1>0, <1>4, <1>5, <1>6, <1>7

LEMMA LastAckTimeoutLegal ==
    ASSUME NEW k, SockOK(k), k.lastAck
    PROVE  k.ep /\ Legal(k, LastAckTimeout(Handling(k)), 0, 0)
  <1> DEFINE r == Handling(k)
             q == LastAckTimeout(r)
  <1>0. /\ r \in ResultType /\ r.k = k /\ r.out = {} /\ k.ep /\ k \in SockType
    BY ResultParts DEF SockOK, Shape, Silent
  <1> HIDE DEF r
  <1>1. CASE k.st # "LAST_ACK"
    <2> DEFINE s == [r EXCEPT !.k.lastAck = FALSE]
    <2>1. q = s
      BY <1>0, <1>1 DEF LastAckTimeout
    <2>2. Same(s, k)
      BY <1>0 DEF Same, ResultType, SockType, KeepsNumbers
    <2> HIDE DEF s
    <2> QED  BY <1>0, <2>1, <2>2, SameLegal DEF r
  <1>2. CASE k.st = "LAST_ACK" /\ k.retries = 0
    <2>1. q = DeallocateEndPoint(r)
      BY <1>0, <1>2 DEF LastAckTimeout
    <2>2. 0 \in Int
      OBVIOUS
    <2> QED  BY <1>0, <2>1, <2>2, KilledLegal, Zenon DEF r
  <1>3. CASE k.st = "LAST_ACK" /\ k.retries # 0
    <2> DEFINE n == k.retries - 1
               c == [k EXCEPT !.retries = n]
               d == [r EXCEPT !.k = c]
               s == SendEmptyPacket(d, "FINACK")
               e == [s EXCEPT !.k.lastAck = TRUE]
    <2>1. q = e
      BY <1>0, <1>3 DEF LastAckTimeout
    <2>2. n \in 0..DataRetries
      BY <1>0, <1>3, ConnectionAssumption DEF SockType
    <2> HIDE DEF n
    <2>3. /\ c \in SockType /\ KeepsNumbers(c, k) /\ c.st = k.st /\ c.ep /\ c.retx = k.retx
      BY <1>0, <2>2 DEF SockType, KeepsNumbers
    <2> HIDE DEF c
    <2>4. d \in ResultType /\ d.k = c /\ d.out = {}
      BY <1>0, <2>3, WithSocket
    <2> HIDE DEF d
    <2>5. k.retx = "FINACK" /\ k.nextTx \in {1, 2} /\ k.rcvNxt = 2
      BY <1>0, <1>3 DEF SockOK, Shape, Numbers
    <2>6. /\ s \in ResultType /\ KeepsNumbers(s.k, c) /\ s.k.st = c.st
          /\ s.out = {Segment(c, "FINACK")} /\ s.k.ep /\ s.k.retx = "FINACK"
      BY <2>3, <2>4, <2>5, SendFacts DEF Flags
    <2>7. /\ Segment(c, "FINACK").f = "FINACK" /\ Segment(c, "FINACK").ack = 2
          /\ Segment(c, "FINACK").seq = k.nextTx
      BY <2>3, <2>5, SegmentFacts DEF Flags, KeepsNumbers
    <2> HIDE DEF s
    <2>8. /\ e \in ResultType /\ e.out = s.out /\ KeepsNumbers(e.k, s.k) /\ e.k.st = s.k.st
          /\ e.k.ep /\ e.k.retx = "FINACK"
      BY <2>6 DEF ResultType, SockType, KeepsNumbers
    <2> HIDE DEF e
    <2>9. SockOK(e.k) /\ e.k.rcvNxt = 2 /\ e.k.nextTx = k.nextTx /\ e.k.made = k.made
      BY <1>3, <2>3, <2>5, <2>6, <2>8, ResultParts DEF SockOK, Numbers, Shape, KeepsNumbers
    <2>10. Moves(k, e, 0, 0)
      BY <1>0, <1>3, <2>3, <2>5, <2>6, <2>8, <2>9, Diagram DEF Moves, Life
    <2>11. \A x \in e.out : Sends(k, e, x)
      BY <1>0, <1>3, <2>3, <2>5, <2>6, <2>7, <2>8, <2>9, Diagram DEF Sends, SegOK, Flags, Life
    <2> QED  BY <1>0, <2>1, <2>8, <2>9, <2>10, <2>11 DEF Legal, r
  <1> QED  BY <1>0, <1>1, <1>2, <1>3 DEF r

\* A socket just created, and what Connect and Fork make of it.
Fresh(n) == [NewSocket EXCEPT !.made = n]

Caller == [NewSocket EXCEPT !.ep = TRUE, !.synCount = SynRetries, !.retries = DataRetries,
                            !.made = 1]

Forked(x, n) == [NewSocket EXCEPT !.st = "SYN_RCVD", !.ep = TRUE, !.synCount = SynRetries,
                                  !.retries = DataRetries, !.rcvNxt = x, !.made = n]

LEMMA NewIsFresh ==
    NewSocket \in SockType /\ SockOK(NewSocket) /\ ~NewSocket.ep /\ NewSocket.made = 0
  <1>1. /\ NewSocket.st = "CLOSED" /\ NewSocket.ep = FALSE /\ NewSocket.nextTx = 0
        /\ NewSocket.highTx = 0 /\ NewSocket.head = 0 /\ NewSocket.rcvNxt = 0
        /\ NewSocket.fin = NoFin /\ NewSocket.retx = "none" /\ NewSocket.lastAck = FALSE
        /\ NewSocket.timewait = FALSE /\ NewSocket.made = 0
    BY DEF NewSocket
  <1>2. 0 \in 0..SynRetries /\ 0 \in 0..DataRetries /\ NoFin \in Int /\ 0 \in 0..(MaxForks + 1)
    BY ConnectionAssumption DEF NoFin
  <1>3. NewSocket \in SockType
    BY <1>2 DEF NewSocket, SockType, States
  <1> QED  BY <1>1, <1>3 DEF SockOK, Numbers, Shape, Silent

LEMMA FreshFacts ==
    ASSUME NEW n \in 0..(MaxForks + 1)
    PROVE  LET k == Fresh(n) IN
           /\ SockOK(k) /\ ~k.ep /\ k.rcvNxt = 0 /\ k.nextTx = 0 /\ k.made = n
  <1> DEFINE k == Fresh(n)
  <1>1. /\ k.st = "CLOSED" /\ k.ep = FALSE /\ k.nextTx = 0 /\ k.highTx = 0 /\ k.head = 0
        /\ k.rcvNxt = 0 /\ k.fin = NoFin /\ k.retx = "none" /\ k.synCount = 0 /\ k.retries = 0
        /\ k.lastAck = FALSE /\ k.timewait = FALSE /\ k.shutdown = FALSE /\ k.notified = FALSE
        /\ k.made = n
    BY DEF Fresh, NewSocket
  <1>2. 0 \in 0..SynRetries /\ 0 \in 0..DataRetries /\ NoFin \in Int
    BY ConnectionAssumption DEF NoFin
  <1>3. k \in SockType
    BY <1>2, NewIsFresh DEF Fresh, SockType
  <1> HIDE DEF k
  <1> QED  BY <1>1, <1>3 DEF k, SockOK, Numbers, Shape, Silent

LEMMA ConnectLegal ==
    LET q == Enter(SendEmptyPacket(Handling(Caller), "SYN"), "SYN_SENT")
    IN  Legal(Fresh(1), q, 0, 0) /\ q.k.made = 1
  <1> DEFINE k == Caller
             r == Handling(k)
             s == SendEmptyPacket(r, "SYN")
             q == Enter(s, "SYN_SENT")
             b == Fresh(1)
  <1>1. 1 \in 0..(MaxForks + 1) /\ SynRetries \in 0..SynRetries /\ DataRetries \in 0..DataRetries
        /\ NoFin \in Int /\ SynRetries # 0
    BY ConnectionAssumption DEF NoFin
  <1>2. SockOK(b) /\ ~b.ep /\ b.rcvNxt = 0 /\ b.nextTx = 0 /\ b.made = 1
    BY <1>1, FreshFacts
  <1> HIDE DEF b
  <1>3. /\ k.nextTx = 0 /\ k.highTx = 0 /\ k.head = 0 /\ k.rcvNxt = 0 /\ k.fin = NoFin
        /\ k.ep = TRUE /\ k.retx = "none" /\ k.synCount = SynRetries /\ k.made = 1
        /\ k.st = "CLOSED"
    BY DEF Caller, NewSocket
  <1>4. k \in SockType
    BY <1>1, NewIsFresh DEF Caller, SockType
  <1> HIDE DEF k
  <1>5. r \in ResultType /\ r.k = k /\ r.out = {}
    BY <1>4, ResultParts
  <1> HIDE DEF r
  <1>6. /\ s \in ResultType /\ KeepsNumbers(s.k, k) /\ s.out = {Segment(k, "SYN")}
        /\ s.k.ep /\ s.k.retx = "SYN"
    BY <1>1, <1>3, <1>5, SendSynFacts
  <1>7. /\ Segment(k, "SYN").f = "SYN" /\ Segment(k, "SYN").ack = 0 /\ Segment(k, "SYN").seq = 0
    BY <1>3, <1>4, SegmentFacts DEF Flags
  <1> HIDE DEF s
  <1>8. /\ q \in ResultType /\ q.k.st = "SYN_SENT" /\ q.out = s.out /\ KeepsNumbers(q.k, s.k)
        /\ q.k.ep /\ q.k.retx = "SYN"
    BY <1>6, EnterFacts DEF States
  <1> HIDE DEF q
  <1>9. SockOK(q.k) /\ q.k.rcvNxt = 0 /\ q.k.nextTx = 0 /\ q.k.made = 1
    BY <1>3, <1>6, <1>8, ResultParts DEF SockOK, Numbers, Shape, KeepsNumbers
  <1>10. Moves(b, q, 0, 0)
    BY <1>2, <1>8, <1>9, Diagram DEF Moves, Life, Lifecycle!Arrows
  <1>11. \A x \in q.out : Sends(b, q, x)
    BY <1>6, <1>7, <1>8, <1>9 DEF Sends, SegOK, Flags
  <1>12. Legal(b, q, 0, 0)
    BY <1>2, <1>8, <1>9, <1>10, <1>11 DEF Legal
  <1> QED  BY <1>9, <1>12 DEF q, s, r, k, b

LEMMA ForkLegal ==
    ASSUME NEW n \in 1..(MaxForks + 1)
    PROVE  LET q == SendEmptyPacket(Handling(Forked(1, n)), "SYNACK")
           IN  Legal(Fresh(n), q, 0, 1) /\ q.k.made = n
  <1> DEFINE k == Forked(1, n)
             r == Handling(k)
             q == SendEmptyPacket(r, "SYNACK")
             b == Fresh(n)
  <1>1. /\ n \in 0..(MaxForks + 1) /\ SynRetries \in 0..SynRetries
        /\ DataRetries \in 0..DataRetries /\ NoFin \in Int /\ SynRetries # 0
    BY ConnectionAssumption DEF NoFin
  <1>2. SockOK(b) /\ ~b.ep /\ b.rcvNxt = 0 /\ b.nextTx = 0 /\ b.made = n
    BY <1>1, FreshFacts
  <1> HIDE DEF b
  <1>3. /\ k.nextTx = 0 /\ k.highTx = 0 /\ k.head = 0 /\ k.rcvNxt = 1 /\ k.fin = NoFin
        /\ k.ep = TRUE /\ k.retx = "none" /\ k.synCount = SynRetries /\ k.made = n
        /\ k.st = "SYN_RCVD"
    BY DEF Forked, NewSocket
  <1>4. k \in SockType
    <2> DEFINE h == [NewSocket EXCEPT !.st = "SYN_RCVD", !.ep = TRUE, !.synCount = SynRetries]
    <2>1. "SYN_RCVD" \in States
      BY DEF States
    <2>2. h \in SockType
      BY <1>1, <2>1, NewIsFresh DEF SockType
    <2> DEFINE e == [h EXCEPT !.retries = DataRetries]
               g == [e EXCEPT !.rcvNxt = 1]
    <2>3. k = [g EXCEPT !.made = n]
      BY DEF Forked
    <2> HIDE DEF h, k
    <2>4. e \in SockType
      BY <1>1, <2>2 DEF SockType
    <2> HIDE DEF e
    <2>5. \A x \in Int : [e EXCEPT !.rcvNxt = x] \in SockType
      BY <2>4 DEF SockType
    <2>6. g \in SockType
      BY <2>5
    <2> HIDE DEF g
    <2>7. \A x \in 0..(MaxForks + 1) : [g EXCEPT !.made = x] \in SockType
      BY <2>6 DEF SockType
    <2> QED  BY <1>1, <2>3, <2>7
  <1> HIDE DEF k
  <1>5. r \in ResultType /\ r.k = k /\ r.out = {}
    BY <1>4, ResultParts
  <1> HIDE DEF r
  <1>6. /\ q \in ResultType /\ KeepsNumbers(q.k, k) /\ q.out = {Segment(k, "SYNACK")}
        /\ q.k.ep /\ q.k.retx = "SYNACK" /\ q.k.st = "SYN_RCVD"
    BY <1>1, <1>3, <1>5, SendSynFacts
  <1>7. /\ Segment(k, "SYNACK").f = "SYNACK" /\ Segment(k, "SYNACK").ack = 1
        /\ Segment(k, "SYNACK").seq = 0
    BY <1>3, <1>4, SegmentFacts DEF Flags
  <1> HIDE DEF q
  <1>8. SockOK(q.k) /\ q.k.rcvNxt = 1 /\ q.k.nextTx = 0 /\ q.k.made = n
    BY <1>3, <1>6, ResultParts DEF SockOK, Numbers, Shape, KeepsNumbers
  <1>9. Moves(b, q, 0, 1)
    BY <1>2, <1>6, <1>8, Diagram DEF Moves, Life, Lifecycle!Arrows
  <1>10. \A x \in q.out : Sends(b, q, x)
    BY <1>6, <1>7, <1>8 DEF Sends, SegOK, Flags
  <1>11. Legal(b, q, 0, 1)
    BY <1>2, <1>6, <1>8, <1>9, <1>10 DEF Legal
  <1> QED  BY <1>8, <1>11 DEF q, r, k, b

\* A reset for a segment that belongs to no socket.
LEMMA RefusalLegal ==
    ASSUME NEW k, SockOK(k), NEW s \in SegmentType, s.f \in Resets
    PROVE  LET q == [k |-> k, out |-> {s}] IN Legal(k, q, 0, 0) /\ q.k = k
  <1> DEFINE q == [k |-> k, out |-> {s}]
  <1>1. q \in ResultType /\ q.k = k /\ q.out = {s}
    BY DEF ResultType, SockOK
  <1> HIDE DEF q
  <1>2. Moves(k, q, 0, 0)
    BY <1>1 DEF Moves, Life, SockOK, Numbers
  <1>3. Legal(k, q, 0, 0)
    BY <1>1, <1>2 DEF Legal, Sends
  <1> QED  BY <1>1, <1>3 DEF q

----------------------------------------------------------------------------
(***************************************************************************)
(* What a legal result does to the invariant.                              *)
(***************************************************************************)

LEMMA SidesFacts ==
    \A i \in Sides : /\ Peer(i) \in Sides /\ Peer(i) # i /\ Peer(Peer(i)) = i
                     /\ \A j \in Sides : j # i => j = Peer(i)
                     /\ i = "client" => Peer(i) = "server"
                     /\ i = "server" => Peer(i) = "client"
  <1>1. Peer("client") = "server"
    BY DEF Peer, Sides
  <1>2. Peer("server") = "client"
    BY DEF Peer, Sides
  <1> QED  BY <1>1, <1>2 DEF Sides

\* Said, for any set of segments.
SaidIn(N, i) ==
    IF \E m \in N : m.to # i /\ m.f = "FINACK" THEN 2
    ELSE IF \E m \in N : m.to # i /\ m.f \in {"SYN", "SYNACK"} THEN 1 ELSE 0

LEMMA SaidIs ==
    ASSUME NEW i
    PROVE  Said(i) = SaidIn(net, i) /\ Said(i)' = SaidIn(net', i)
  BY DEF Said, SentBy, SaidIn

LEMMA SaidInFacts ==
    ASSUME NEW N, NEW i
    PROVE  /\ SaidIn(N, i) \in {0, 1, 2}
           /\ SaidIn(N, i) = 2 <=> \E m \in N : m.to # i /\ m.f = "FINACK"
           /\ SaidIn(N, i) >= 1 <=> \E m \in N : m.to # i /\ m.f \in {"SYN", "SYNACK", "FINACK"}
  BY DEF SaidIn

LEMMA SaidGrows ==
    ASSUME NEW N, NEW M, N \subseteq M, NEW i
    PROVE  SaidIn(N, i) <= SaidIn(M, i)
  <1>1. SaidIn(N, i) \in {0, 1, 2} /\ SaidIn(M, i) \in {0, 1, 2}
    BY SaidInFacts
  <1>2. SaidIn(N, i) = 2 => SaidIn(M, i) = 2
    BY SaidInFacts
  <1>3. SaidIn(N, i) >= 1 => SaidIn(M, i) >= 1
    BY SaidInFacts
  <1> QED  BY <1>1, <1>2, <1>3

\* The segments a legal result sends.
LEMMA MessageFacts ==
    ASSUME NEW i \in Sides, NEW s \in SegmentType, s.f \in Resets \/ SegOK(s)
    PROVE  LET m == Message(i, s) IN
           /\ m.to = Peer(i) /\ m.f = s.f /\ MessageOK(m)
           /\ m.f \in Resets => m.seq = 0 /\ m.ack = 0
           /\ m.f \notin Resets => m.seq = s.seq /\ m.ack = s.ack
  <1> DEFINE m == Message(i, s)
  <1>1. /\ m.to = Peer(i) /\ m.f = s.f
        /\ m.f \in Resets => m.seq = 0 /\ m.ack = 0
        /\ m.f \notin Resets => m.seq = s.seq /\ m.ack = s.ack
    BY DEF Message, Resets
  <1>2. s.seq \in Int /\ s.ack \in Int /\ s.f \in Flags
    BY DEF SegmentType
  <1> HIDE DEF m
  <1>3. MessageOK(m)
    BY <1>1, <1>2 DEF MessageOK, SegOK, Resets
  <1> QED  BY <1>1, <1>3 DEF m

\* Side i goes from the socket k, its own or a fresh one, to the result r.
StepOf(i, k, r, ack, said) ==
    /\ i \in Sides /\ Handled(i, r) /\ SockOK(k) /\ Legal(k, r, ack, said)
    /\ \/ k = socks[i] /\ (k.ep \/ ~r.k.ep)
       \/ ~socks[i].ep /\ ~k.ep /\ k.rcvNxt = 0 /\ (i = "client" => socks[i].made = 0)
    /\ r.k.made # 0 \/ (r.k = socks[i] /\ \A s \in r.out : s.f \in Resets)
    /\ ack \in {0, 1, 2} /\ (ack >= 1 => Acked(i, ack))
    /\ said \in {0, 1, 2} /\ said <= Said(Peer(i))

\* What was sent goes to the peer, and stays.
LEMMA NetStep ==
    ASSUME Inv, NEW i, NEW k, NEW r, NEW ack, NEW said, StepOf(i, k, r, ack, said)
    PROVE  /\ net \subseteq net' /\ SegmentsOK'
           /\ \A m \in net' : m.to = i => m \in net
           /\ \A m \in net' \ net : /\ m.to = Peer(i)
                                    /\ \/ m.f \in Resets /\ m.ack = 0
                                       \/ \E s \in r.out : /\ s.f = m.f /\ s.ack = m.ack
                                                           /\ s.seq = m.seq /\ Sends(k, r, s)
           /\ \A s \in r.out : s.f = "FINACK" => \E m \in net' : m.to = Peer(i) /\ m.f = "FINACK"
  <1>1. /\ i \in Sides /\ r \in ResultType /\ r.out \in SUBSET SegmentType
        /\ \A s \in r.out : Sends(k, r, s)
        /\ net' = net \cup {Message(i, s) : s \in r.out}
    BY ResultParts DEF StepOf, Legal, Handled
  <1>2. ASSUME NEW s \in r.out
        PROVE  LET m == Message(i, s) IN
               /\ m.to = Peer(i) /\ m.f = s.f /\ MessageOK(m)
               /\ m.f \in Resets => m.seq = 0 /\ m.ack = 0
               /\ m.f \notin Resets => m.seq = s.seq /\ m.ack = s.ack
    <2>1. s \in SegmentType /\ (s.f \in Resets \/ SegOK(s))
      BY <1>1 DEF Sends
    <2> QED  BY <1>1, <2>1, MessageFacts
  <1>3. \A m \in net' : m \in net \/ \E s \in r.out : m = Message(i, s)
    BY <1>1
  <1>4. SegmentsOK'
    <2>1. ASSUME NEW m \in net'
          PROVE  m.to \in Sides /\ MessageOK(m) /\ (m.f \in Resets => m.seq = 0 /\ m.ack = 0)
      <3>1. CASE m \in net
        BY <3>1 DEF Inv, SegmentsOK
      <3>2. CASE \E s \in r.out : m = Message(i, s)
        BY <1>1, <1>2, <3>2, SidesFacts
      <3> QED  BY <1>3, <3>1, <3>2
    <2> QED  BY <2>1 DEF SegmentsOK
  <1>5. \A m \in net' : m.to = i => m \in net
    BY <1>1, <1>2, <1>3, SidesFacts
  <1>6. ASSUME NEW m \in net' \ net
        PROVE  /\ m.to = Peer(i)
               /\ \/ m.f \in Resets /\ m.ack = 0
                  \/ \E s \in r.out : /\ s.f = m.f /\ s.ack = m.ack
                                      /\ s.seq = m.seq /\ Sends(k, r, s)
    <2>1. PICK s \in r.out : m = Message(i, s)
      BY <1>3
    <2> QED  BY <1>1, <1>2, <2>1
  <1>7. ASSUME NEW s \in r.out, s.f = "FINACK"
        PROVE  \E m \in net' : m.to = Peer(i) /\ m.f = "FINACK"
    <2>1. Message(i, s) \in net'
      BY <1>1
    <2> QED  BY <1>2, <1>7, <2>1
  <1> QED  BY <1>1, <1>4, <1>5, <1>6, <1>7

\* The sockets of the next state.
LEMMA SockStep ==
    ASSUME Inv, NEW i, NEW k, NEW r, NEW ack, NEW said, StepOf(i, k, r, ack, said)
    PROVE  /\ socks'[i] = r.k /\ SockOK(r.k) /\ DOMAIN socks' = Sides
           /\ socks'[Peer(i)] = socks[Peer(i)] /\ listening' = listening
           /\ Life(k) = Life(socks[i])
  <1>1. /\ i \in Sides /\ Peer(i) \in Sides /\ Peer(i) # i /\ DOMAIN socks = Sides
        /\ socks' = [socks EXCEPT ![i] = r.k] /\ listening' = listening /\ SockOK(r.k)
    BY SidesFacts DEF StepOf, Legal, Handled, Inv
  <1>2. socks'[i] = r.k /\ DOMAIN socks' = Sides /\ socks'[Peer(i)] = socks[Peer(i)]
    BY <1>1
  <1>3. Life(k) = Life(socks[i])
    BY DEF StepOf, Life
  <1> QED  BY <1>1, <1>2, <1>3

\* The peer's Said is as before, and side i's does not fall.
LEMMA SaidStep ==
    ASSUME Inv, NEW i, NEW k, NEW r, NEW ack, NEW said, StepOf(i, k, r, ack, said)
    PROVE  /\ Said(Peer(i))' = Said(Peer(i)) /\ Said(i)' >= Said(i)
           /\ \A j \in Sides : Said(j) \in {0, 1, 2} /\ Said(j)' \in {0, 1, 2}
  <1> DEFINE j == Peer(i)
  <1>1. i \in Sides /\ j \in Sides /\ j # i
    BY SidesFacts DEF StepOf
  <1>2. /\ net \subseteq net' /\ \A m \in net' : m.to = i => m \in net
        /\ \A m \in net' : m.to \in Sides
    BY NetStep DEF SegmentsOK
  <1>3. \A m \in net' : m.to # j => m.to = i
    BY <1>1, <1>2, SidesFacts
  <1> HIDE DEF j
  <1>4. SaidIn(net', j) = SaidIn(net, j)
    BY <1>2, <1>3 DEF SaidIn
  <1>5. SaidIn(net, i) <= SaidIn(net', i)
    BY <1>2, SaidGrows
  <1>6. \A x \in Sides : SaidIn(net, x) \in {0, 1, 2} /\ SaidIn(net', x) \in {0, 1, 2}
    BY SaidInFacts
  <1>7. \A x : Said(x) = SaidIn(net, x) /\ Said(x)' = SaidIn(net', x)
    BY SaidIs
  <1> QED  BY <1>1, <1>4, <1>5, <1>6, <1>7 DEF j

LEMMA TruthfulStep ==
    ASSUME Inv, NEW i, NEW k, NEW r, NEW ack, NEW said, StepOf(i, k, r, ack, said)
    PROVE  Truthful'
  <1> DEFINE j == Peer(i)
  <1>0. i \in Sides /\ j \in Sides /\ j # i /\ Peer(j) = i /\ \A x \in Sides : x = i \/ x = j
    BY SidesFacts DEF StepOf
  <1>1. /\ Said(j)' = Said(j) /\ Said(i)' >= Said(i) /\ Said(i) \in {0, 1, 2}
        /\ Said(j) \in {0, 1, 2} /\ Said(i)' \in {0, 1, 2}
    BY <1>0, SaidStep
  <1>2. socks'[i] = r.k /\ socks'[j] = socks[j] /\ SockOK(socks[j]) /\ SockOK(k) /\ SockOK(socks[i])
    BY <1>0, SockStep DEF Inv, StepOf
  <1>3. r.k.rcvNxt \in 0..2 /\ socks[j].rcvNxt \in 0..2 /\ r.k.rcvNxt <= Said(j)
    <2>1. r.k.rcvNxt \in 0..2 /\ socks[j].rcvNxt \in 0..2 /\ k.rcvNxt \in 0..2
      BY <1>2, SockStep DEF SockOK, Numbers
    <2>2. k.rcvNxt <= Said(j)
      <3>1. socks[i].rcvNxt <= Said(j)
        BY <1>0 DEF Inv, Truthful
      <3>2. k = socks[i] \/ k.rcvNxt = 0
        BY DEF StepOf
      <3> QED  BY <1>1, <3>1, <3>2
    <2>3. r.k.rcvNxt = k.rcvNxt \/ r.k.rcvNxt <= said
      BY DEF StepOf, Legal, Moves
    <2>4. said \in {0, 1, 2} /\ said <= Said(j)
      BY DEF StepOf
    <2> HIDE DEF j
    <2> QED  BY <1>1, <2>1, <2>2, <2>3, <2>4
  <1>4. ASSUME NEW m \in net'
        PROVE  m.ack <= Said(m.to)'
    <2>1. CASE m \in net
      <3>1. m.to \in Sides /\ m.ack \in Int /\ m.ack <= Said(m.to)
        BY <2>1 DEF Inv, SegmentsOK, Truthful, MessageOK
      <3>2. CASE m.to = i
        BY <1>1, <3>1, <3>2
      <3>3. CASE m.to = j
        BY <1>1, <3>1, <3>3
      <3> QED  BY <1>0, <3>1, <3>2, <3>3
    <2>2. CASE m \notin net
      <3>1. m.to = j /\ (m.ack = 0 \/ \E s \in r.out : s.ack = m.ack /\ s.f \notin Resets /\ Sends(k, r, s))
        <4>1. m \in net' \ net
          BY <2>2
        <4>2. \/ m.f \in Resets /\ m.ack = 0
              \/ \E s \in r.out : s.f = m.f /\ s.ack = m.ack /\ Sends(k, r, s)
          BY <4>1, NetStep
        <4>3. m.f \in Resets => m.ack = 0
          BY NetStep DEF SegmentsOK
        <4> QED  BY <4>1, <4>2, <4>3, NetStep
      <3>2. m.ack = 0 \/ m.ack <= r.k.rcvNxt
        BY <3>1 DEF Sends
      <3>3. m.ack \in Int
        BY NetStep DEF SegmentsOK, MessageOK
      <3> QED  BY <1>1, <1>3, <3>1, <3>2, <3>3
    <2> QED  BY <2>1, <2>2
  <1>5. ASSUME NEW x \in Sides
        PROVE  socks'[x].rcvNxt <= Said(Peer(x))'
    <2>1. CASE x = i
      BY <1>1, <1>2, <1>3, <2>1
    <2>2. CASE x = j
      <3>1. socks[j].rcvNxt <= Said(i)
        BY <1>0 DEF Inv, Truthful
      <3> QED  BY <1>0, <1>1, <1>2, <1>3, <2>2, <3>1
    <2> QED  BY <1>0, <2>1, <2>2
  <1>6. (\A m \in net : m.ack <= Said(m.to))'
    BY <1>4
  <1>7. (\A x \in Sides : socks[x].rcvNxt <= Said(Peer(x)))'
    BY <1>5
  <1> QED  BY <1>6, <1>7 DEF Truthful

LEMMA AckedGrows ==
    ASSUME net \subseteq net', NEW i, NEW n, Acked(i, n)
    PROVE  Acked(i, n)'
  BY DEF Acked

LEMMA AckedLess ==
    ASSUME SegmentsOK, NEW i, Acked(i, 2)
    PROVE  Acked(i, 1)
  <1>1. PICK m \in net : m.to = i /\ m.f \notin Resets /\ m.ack >= 2
    BY DEF Acked
  <1>2. m.ack \in Int
    BY DEF SegmentsOK, MessageOK
  <1> QED  BY <1>1, <1>2 DEF Acked

LEMMA ClaimsStep ==
    ASSUME Inv, NEW i, NEW k, NEW r, NEW ack, NEW said, StepOf(i, k, r, ack, said)
    PROVE  Claims'
  <1> DEFINE j == Peer(i)
  <1>0. i \in Sides /\ j \in Sides /\ j # i /\ Peer(j) = i /\ \A x \in Sides : x = i \/ x = j
    BY SidesFacts DEF StepOf
  <1>1. /\ Said(j)' = Said(j) /\ Said(i)' >= Said(i) /\ Said(i) \in {0, 1, 2}
        /\ Said(i)' \in {0, 1, 2}
    BY <1>0, SaidStep
  <1>2. socks'[i] = r.k /\ socks'[j] = socks[j] /\ net \subseteq net' /\ Life(k) = Life(socks[i])
    BY SockStep, NetStep
  <1>3. (k.ep => k = socks[i]) /\ Moves(k, r, ack, said)
    BY DEF StepOf, Legal
  <1>4. Acked(i, 2) => Acked(i, 1)
    BY AckedLess DEF Inv
  <1>5. (ack = 2 => Acked(i, 2)) /\ (ack >= 1 => Acked(i, 1))
    <2>1. ack \in {0, 1, 2} /\ (ack >= 1 => Acked(i, ack))
      BY DEF StepOf
    <2> QED  BY <1>4, <2>1
  <1>6. ASSUME r.k.ep
        PROVE  /\ r.k.nextTx = 2 \/ r.k.st \in Lifecycle!FinKnown => Acked(i, 2)
               /\ r.k.st \in Lifecycle!Synchronised => Acked(i, 1)
               /\ r.k.st \in FinSaid => Said(i)' = 2
    <2>1. ASSUME r.k.nextTx = 2
          PROVE  Acked(i, 2)
      <3>1. (k.nextTx = 2 /\ k.ep) \/ ack = 2
        BY <1>3, <1>6, <2>1 DEF Moves
      <3>2. k.nextTx = 2 /\ k.ep => Acked(i, 2)
        BY <1>0, <1>3 DEF Inv, Claims
      <3> QED  BY <1>5, <3>1, <3>2
    <2>2. ASSUME r.k.st \in Lifecycle!FinKnown
          PROVE  Acked(i, 2)
      <3>1. Life(socks[i]) \in Lifecycle!FinKnown \/ ack = 2
        BY <1>2, <1>3, <1>6, <2>2 DEF Moves
      <3>2. Life(socks[i]) \in Lifecycle!FinKnown => Acked(i, 2)
        BY <1>0, Diagram DEF Inv, Claims, Life
      <3> QED  BY <1>5, <3>1, <3>2
    <2>3. ASSUME r.k.st \in Lifecycle!Synchronised
          PROVE  Acked(i, 1)
      <3>1. Life(socks[i]) \in Lifecycle!Synchronised \/ ack >= 1
        BY <1>2, <1>3, <1>6, <2>3 DEF Moves
      <3>2. Life(socks[i]) \in Lifecycle!Synchronised => Acked(i, 1)
        BY <1>0, Diagram DEF Inv, Claims, Life
      <3> QED  BY <1>5, <3>1, <3>2
    <2>4. ASSUME r.k.st \in FinSaid
          PROVE  Said(i)' = 2
      <3>1. Life(socks[i]) \in FinSaid \/ \E s \in r.out : s.f = "FINACK"
        BY <1>2, <1>3, <1>6, <2>4 DEF Moves
      <3>2. Life(socks[i]) \in FinSaid => Said(i) = 2
        BY <1>0, Diagram DEF Inv, Claims, Life
      <3>3. ASSUME NEW s \in r.out, s.f = "FINACK"
            PROVE  Said(i)' = 2
        <4>1. \E m \in net' : m.to # i /\ m.f = "FINACK"
          BY <1>0, <3>3, NetStep
        <4> QED  BY <4>1, SaidIs, SaidInFacts
      <3> QED  BY <1>1, <3>1, <3>2, <3>3
    <2> QED  BY <2>1, <2>2, <2>3, <2>4
  <1>7. ASSUME NEW x \in Sides, socks'[x].ep
        PROVE  /\ socks'[x].nextTx = 2 \/ socks'[x].st \in Lifecycle!FinKnown => Acked(x, 2)'
               /\ socks'[x].st \in Lifecycle!Synchronised => Acked(x, 1)'
               /\ socks'[x].st \in FinSaid => Said(x)' = 2
    <2>1. \A n : Acked(x, n) => Acked(x, n)'
      BY <1>2, AckedGrows
    <2>2. CASE x = i
      BY <1>2, <1>6, <1>7, <2>1, <2>2
    <2>3. CASE x = j
      <3>1. /\ socks[j].nextTx = 2 \/ socks[j].st \in Lifecycle!FinKnown => Acked(j, 2)
            /\ socks[j].st \in Lifecycle!Synchronised => Acked(j, 1)
            /\ socks[j].st \in FinSaid => Said(j) = 2
        BY <1>0, <1>2, <1>7, <2>3 DEF Inv, Claims
      <3> HIDE DEF j
      <3> QED  BY <1>1, <1>2, <2>1, <2>3, <3>1
    <2> QED  BY <1>0, <2>2, <2>3
  <1> QED  BY <1>7 DEF Claims, FinSaid, Lifecycle!FinSaid, Lifecycle!FinKnown, Lifecycle!Synchronised

\* A step of the server leaves what the client has said and heard.
LEMMA ServerOnceStep ==
    ASSUME Inv, NEW k, NEW r, NEW ack, NEW said, StepOf("server", k, r, ack, said)
    PROVE  ClientOnce'
  <1> DEFINE c == socks["client"]
  <1>0. /\ "client" \in Sides /\ "server" \in Sides /\ Peer("server") = "client"
        /\ Peer("client") = "server" /\ "client" # "server"
    BY SidesFacts DEF Sides
  <1>1. /\ Said("client")' = Said("client") /\ Said("client") \in {0, 1, 2}
        /\ Said("server") \in {0, 1, 2} /\ socks'["client"] = c
    BY <1>0, SaidStep, SockStep
  <1>2. \A m \in net' : m.to = "server" => m \in net
    BY NetStep
  <1>4. ClientOnce
    BY DEF Inv
  <1>5. ASSUME NEW m \in net', m.f = "FINACK", m.seq = 2
        PROVE  m.to = "client" /\ Said("client") = 2 /\ c.rcvNxt = 2
    <2>1. CASE m \in net
      BY <1>4, <1>5, <2>1 DEF ClientOnce
    <2>2. CASE m \notin net
      <3>1. m.to = "client"
        BY <1>0, <2>2, NetStep
      <3>2. PICK s \in r.out : s.f = "FINACK" /\ s.seq = 2 /\ Sends(k, r, s)
        BY <1>5, <2>2, NetStep DEF Resets
      <3>3. k.ep /\ k.nextTx = 2 /\ k.st \in {"CLOSE_WAIT", "LAST_ACK"}
        BY <3>2 DEF Sends, Resets
      <3>4. k = socks["server"] /\ SockOK(k)
        BY <3>3 DEF StepOf
      <3>5. PICK x \in net : x.to = "server" /\ x.f \notin Resets /\ x.ack >= 2
        BY <1>0, <3>3, <3>4 DEF Inv, Claims, Acked
      <3>6. x.ack = 2
        BY <3>5 DEF Inv, SegmentsOK, MessageOK, SegOK, Flags, Resets
      <3>7. c.rcvNxt = 2
        BY <1>4, <3>5, <3>6 DEF ClientOnce
      <3>8. k.rcvNxt = 2
        BY <3>3, <3>4 DEF SockOK, Shape
      <3>9. k.rcvNxt <= Said("client")
        BY <1>0, <3>4 DEF Inv, Truthful
      <3> QED  BY <1>1, <3>1, <3>7, <3>8, <3>9
    <2> QED  BY <2>1, <2>2
  <1>6. socks'["client"].made = 0 => \A m \in net' : m.to = "server" => m.f \in Resets
    BY <1>1, <1>2, <1>4 DEF ClientOnce
  <1>7. \A m \in net' : m.to = "server" /\ m.ack = 2 => socks'["client"].rcvNxt = 2
    BY <1>1, <1>2, <1>4 DEF ClientOnce
  <1>8. Said("client")' = 2 => Life(socks'["client"]) \in FinSaid \cup {"CLOSED"}
    BY <1>1, <1>4 DEF ClientOnce
  <1>9. socks'["client"].ep /\ socks'["client"].nextTx = 2 =>
            socks'["client"].st \notin {"CLOSE_WAIT", "LAST_ACK"}
    BY <1>1, <1>4 DEF ClientOnce
  <1>10. \A m \in net' : m.f = "FINACK" /\ m.seq = 2 =>
            m.to = "client" /\ Said("client")' = 2 /\ socks'["client"].rcvNxt = 2
    BY <1>1, <1>5
  <1> HIDE DEF c
  <1> QED  BY <1>6, <1>7, <1>8, <1>9, <1>10
           DEF ClientOnce, FinSaid, Lifecycle!FinSaid, Life

\* A step of the client is bound by what it has said.
LEMMA ClientOnceStep ==
    ASSUME Inv, NEW k, NEW r, NEW ack, NEW said, StepOf("client", k, r, ack, said)
    PROVE  ClientOnce'
  <1> DEFINE c == socks["client"]
  <1>0. /\ "client" \in Sides /\ "server" \in Sides /\ Peer("server") = "client"
        /\ Peer("client") = "server" /\ "client" # "server"
    BY SidesFacts DEF Sides
  <1>1. /\ Said("client") \in {0, 1, 2} /\ Said("client")' \in {0, 1, 2}
        /\ Said("client")' >= Said("client") /\ socks'["client"] = r.k /\ Life(k) = Life(c)
    BY <1>0, SaidStep, SockStep
  <1>2. ClientOnce /\ SockOK(c) /\ SockOK(k) /\ SockOK(r.k)
    BY <1>0, SockStep DEF Inv, StepOf
  <1>3. Legal(k, r, ack, said) /\ Moves(k, r, ack, said) /\ (k.ep => k = c)
    BY DEF StepOf, Legal
  <1>4. k = c \/ (c.made = 0 /\ ~k.ep /\ ~c.ep)
    BY DEF StepOf
  <1>5. c.made = 0 => Said("client") = 0
    <2>1. c.made = 0 => \A m \in net : m.to = "server" => m.f \in Resets
      BY <1>2 DEF ClientOnce
    <2>2. \A m \in net : m.to # "client" => m.to = "server"
      BY DEF Inv, SegmentsOK, Sides
    <2>3. c.made = 0 => ~ SaidIn(net, "client") >= 1
      BY <2>1, <2>2, SaidInFacts DEF Resets
    <2> QED  BY <1>1, <2>3, SaidIs
  <1>6. r.k.made = 0 => r.k = c
    BY DEF StepOf
  <1>7. ASSUME NEW m \in net' \ net
        PROVE  /\ m.to = "server"
               /\ \/ m.f \in Resets /\ m.ack = 0
                  \/ \E s \in r.out : /\ s.f = m.f /\ s.ack = m.ack
                                      /\ s.seq = m.seq /\ Sends(k, r, s)
    BY <1>0, NetStep
  \* The client's FIN.
  <1>8. Said("client") = 2 => Life(c) \in FinSaid \cup {"CLOSED"} /\ k = c
    BY <1>2, <1>4, <1>5 DEF ClientOnce
  <1>9. ASSUME r.k.made = 0, NEW m \in net', m.to = "server"
        PROVE  m.f \in Resets
    <2>1. CASE m \in net
      BY <1>2, <1>6, <1>9, <2>1 DEF ClientOnce
    <2>2. CASE m \notin net
      <3>1. \A s \in r.out : s.f \in Resets
        BY <1>9 DEF StepOf
      <3> QED  BY <1>7, <2>2, <3>1
    <2> QED  BY <2>1, <2>2
  <1>10. r.k.rcvNxt \in 0..2 /\ k.rcvNxt \in 0..2 /\ r.k.rcvNxt >= k.rcvNxt
    BY <1>2, <1>3 DEF SockOK, Numbers, Moves
  <1>11. ASSUME NEW m \in net', m.to = "server", m.ack = 2
         PROVE  r.k.rcvNxt = 2
    <2>1. CASE m \in net
      <3>1. c.rcvNxt = 2
        BY <1>2, <1>11, <2>1 DEF ClientOnce
      <3>2. m.f \notin Resets
        BY <1>11, <2>1 DEF Inv, SegmentsOK
      <3>3. k = c
        BY <1>2, <1>4, <1>11, <2>1, <3>2 DEF ClientOnce
      <3> QED  BY <1>10, <3>1, <3>3
    <2>2. CASE m \notin net
      <3>1. m.f \in Resets => m.ack = 0
        BY NetStep DEF SegmentsOK
      <3>2. PICK s \in r.out : s.f = m.f /\ s.ack = 2 /\ Sends(k, r, s)
        BY <1>7, <1>11, <2>2
      <3>3. s.ack <= r.k.rcvNxt
        BY <1>11, <3>1, <3>2 DEF Sends
      <3> QED  BY <1>10, <3>2, <3>3
    <2> QED  BY <2>1, <2>2
  <1>12. ASSUME Said("client")' = 2
         PROVE  Life(r.k) \in FinSaid \cup {"CLOSED"}
    <2>1. CASE Said("client") = 2
      <3>1. Life(k) \in FinSaid \cup {"CLOSED"} /\ k = c
        BY <1>8, <2>1
      <3>2. k.ep \/ ~r.k.ep
        BY <1>5, <2>1, <3>1 DEF StepOf
      <3>3. Life(r.k) \in {Life(k), "CLOSED"} \/ <<Life(k), Life(r.k)>> \in Lifecycle!Arrows
        BY <1>3 DEF Moves
      <3>4. CASE k.ep
        <4>1. k.st # "CLOSED" /\ Life(k) = k.st
          BY <1>2, <3>4 DEF SockOK, Shape, Life
        <4> QED  BY <3>1, <3>3, <4>1, Diagram DEF Lifecycle!Arrows
      <3>5. CASE ~r.k.ep
        BY <3>5 DEF Life
      <3> QED  BY <3>2, <3>4, <3>5
    <2>2. CASE Said("client") # 2
      <3>1. PICK m \in net' : m.to # "client" /\ m.f = "FINACK"
        BY <1>12, SaidIs, SaidInFacts
      <3>2. m \notin net
        BY <2>2, <3>1, SaidIs, SaidInFacts
      <3>3. PICK s \in r.out : s.f = "FINACK" /\ Sends(k, r, s)
        BY <1>7, <3>1, <3>2 DEF Resets
      <3> QED  BY <3>3 DEF Sends, Resets
    <2> QED  BY <2>1, <2>2
  <1>13. ASSUME NEW m \in net', m.f = "FINACK", m.seq = 2
         PROVE  m.to = "client" /\ Said("client")' = 2 /\ r.k.rcvNxt = 2
    <2>1. CASE m \in net
      <3>1. m.to = "client" /\ Said("client") = 2 /\ c.rcvNxt = 2
        BY <1>2, <1>13, <2>1 DEF ClientOnce
      <3>2. k = c
        BY <1>8, <3>1
      <3> QED  BY <1>1, <1>10, <3>1, <3>2
    <2>2. CASE m \notin net
      <3>1. PICK s \in r.out : s.f = "FINACK" /\ s.seq = 2 /\ Sends(k, r, s)
        BY <1>7, <1>13, <2>2 DEF Resets
      <3>2. k.ep /\ k.nextTx = 2 /\ k.st \in {"CLOSE_WAIT", "LAST_ACK"}
        BY <3>1 DEF Sends, Resets
      <3> QED  BY <1>2, <1>3, <3>2 DEF ClientOnce
    <2> QED  BY <2>1, <2>2
  <1>14. ASSUME r.k.ep, r.k.nextTx = 2, r.k.st \in {"CLOSE_WAIT", "LAST_ACK"}
         PROVE  FALSE
    <2>1. k.ep /\ (k.st = "CLOSE_WAIT" \/ (k.st = "LAST_ACK" /\ k.nextTx = 2))
      BY <1>3, <1>14 DEF Moves
    <2>2. k = c /\ k.st = "CLOSE_WAIT" /\ k.nextTx # 2
      BY <1>2, <1>3, <2>1 DEF ClientOnce
    <2>3. ack = 2
      BY <1>3, <1>14, <2>2 DEF Moves
    <2>4. PICK m \in net : m.to = "client" /\ m.ack >= 2
      BY <2>3 DEF StepOf, Acked
    <2>5. m.ack <= Said("client") /\ m.ack \in Int
      BY <2>4 DEF Inv, Truthful, SegmentsOK, MessageOK
    <2>6. Said("client") = 2
      BY <1>1, <2>4, <2>5
    <2> QED  BY <1>8, <2>1, <2>2, <2>6, Diagram DEF Life
  <1>15. /\ socks'["client"].made = 0 => \A m \in net' : m.to = "server" => m.f \in Resets
         /\ \A m \in net' : m.to = "server" /\ m.ack = 2 => socks'["client"].rcvNxt = 2
         /\ Said("client")' = 2 => Life(socks'["client"]) \in FinSaid \cup {"CLOSED"}
         /\ \A m \in net' : m.f = "FINACK" /\ m.seq = 2 =>
               m.to = "client" /\ Said("client")' = 2 /\ socks'["client"].rcvNxt = 2
         /\ socks'["client"].ep /\ socks'["client"].nextTx = 2 =>
               socks'["client"].st \notin {"CLOSE_WAIT", "LAST_ACK"}
    BY <1>1, <1>9, <1>11, <1>12, <1>13, <1>14
  <1> QED  BY <1>15 DEF ClientOnce, FinSaid, Lifecycle!FinSaid, Life

LEMMA InvStep ==
    ASSUME Inv, NEW i, NEW k, NEW r, NEW ack, NEW said, StepOf(i, k, r, ack, said)
    PROVE  Inv'
  <1>0. i \in Sides /\ Peer(i) \in Sides /\ \A x \in Sides : x = i \/ x = Peer(i)
    BY SidesFacts DEF StepOf
  <1>1. /\ socks'[i] = r.k /\ SockOK(r.k) /\ DOMAIN socks' = Sides
        /\ socks'[Peer(i)] = socks[Peer(i)] /\ listening' = listening
    BY SockStep
  <1>2. r.k.made = 0 => r.k = NewSocket
    BY <1>0 DEF StepOf, Inv
  <1>3. \A x \in Sides : SockOK(socks'[x]) /\ (socks'[x].made = 0 => socks'[x] = NewSocket)
    BY <1>0, <1>1, <1>2 DEF Inv
  <1>4. SegmentsOK' /\ Truthful' /\ Claims'
    BY NetStep, TruthfulStep, ClaimsStep
  <1>5. ClientOnce'
    <2>1. CASE i = "client"
      BY <2>1, ClientOnceStep
    <2>2. CASE i = "server"
      BY <2>2, ServerOnceStep
    <2> QED  BY <1>0, <2>1, <2>2 DEF Sides
  <1>6. listening' \in BOOLEAN
    BY <1>1 DEF Inv
  <1>7. (\A x \in Sides : SockOK(socks[x]) /\ (socks[x].made = 0 => socks[x] = NewSocket))'
    BY <1>3 DEF SockOK, SockType, Numbers, Shape, Silent, NewSocket, States, NoFin
  <1> QED  BY <1>1, <1>4, <1>5, <1>6, <1>7 DEF Inv

----------------------------------------------------------------------------
(***************************************************************************)
(* A legal step is a step of the lifecycle.                                *)
(***************************************************************************)

LEMMA MaxFacts ==
    ASSUME NEW S, S \subseteq {0, 1, 2}, S # {}
    PROVE  Max(S) \in S /\ \A x \in S : x <= Max(S)
  <1>1. \E x \in S : \A y \in S : x >= y
    <2>1. CASE 2 \in S
      BY <2>1
    <2>2. CASE 2 \notin S /\ 1 \in S
      <3>1. \A y \in S : 1 >= y
        BY <2>2
      <3> QED  BY <2>2, <3>1
    <2>3. CASE 2 \notin S /\ 1 \notin S
      <3>1. \A y \in S : y = 0
        BY <2>3
      <3>2. PICK x \in S : TRUE
        OBVIOUS
      <3>3. \A y \in S : x >= y
        BY <3>1
      <3> QED  BY <3>3
    <2> QED  BY <2>1, <2>2, <2>3
  <1>2. Max(S) \in S /\ \A y \in S : Max(S) >= y
    BY <1>1 DEF Max
  <1> QED  BY <1>2

\* Heard, for any set of segments and any RCV.NXT.
HeardIn(N, n, i) ==
    Max({n} \cup {m.ack : m \in {x \in N : x.to # i /\ x.f \notin {"RST", "RSTACK"}}})

LEMMA HeardIs ==
    ASSUME NEW i
    PROVE  /\ Heard(i) = HeardIn(net, socks[i].rcvNxt, i)
           /\ Heard(i)' = HeardIn(net', socks'[i].rcvNxt, i)
  BY DEF Heard, SentBy, HeardIn

LEMMA HeardInFacts ==
    ASSUME NEW N, \A m \in N : m.ack \in {0, 1, 2}, NEW n, n \in {0, 1, 2}, NEW i
    PROVE  LET h == HeardIn(N, n, i) IN
           /\ h \in {0, 1, 2} /\ h >= n
           /\ \A m \in N : m.to # i /\ m.f \notin Resets => m.ack <= h
           /\ h = n \/ \E m \in N : m.to # i /\ m.ack = h
  <1> DEFINE S == {n} \cup {m.ack : m \in {x \in N : x.to # i /\ x.f \notin {"RST", "RSTACK"}}}
  <1>1. S \subseteq {0, 1, 2} /\ S # {} /\ n \in S
    OBVIOUS
  <1>2. \A m \in N : m.to # i /\ m.f \notin Resets => m.ack \in S
    BY DEF Resets
  <1>3. \A x \in S : x = n \/ \E m \in N : m.to # i /\ m.ack = x
    OBVIOUS
  <1>4. HeardIn(N, n, i) = Max(S)
    BY DEF HeardIn
  <1> HIDE DEF S
  <1>5. Max(S) \in S /\ \A x \in S : x <= Max(S)
    BY <1>1, MaxFacts
  <1>6. Max(S) \in {0, 1, 2}
    BY <1>1, <1>5
  <1> QED  BY <1>1, <1>2, <1>3, <1>4, <1>5, <1>6

LEMMA AckRange ==
    ASSUME SegmentsOK
    PROVE  \A m \in net : m.ack \in {0, 1, 2} /\ m.seq \in {0, 1, 2}
  BY DEF SegmentsOK, MessageOK, SegOK, Flags, Resets

\* What i's state claims of its peer, when it holds.
LEMMA HeardEnough ==
    ASSUME SegmentsOK, NEW i \in Sides, NEW n, n \in {1, 2}, Acked(i, n),
           SockOK(socks[Peer(i)])
    PROVE  Heard(Peer(i)) >= n
  <1> DEFINE j == Peer(i)
             h == HeardIn(net, socks[j].rcvNxt, j)
  <1>1. i # j
    BY SidesFacts
  <1>2. socks[j].rcvNxt \in {0, 1, 2}
    BY DEF SockOK, Numbers
  <1>3. Heard(j) = h
    BY HeardIs
  <1>4. /\ h \in {0, 1, 2}
        /\ \A m \in net : m.to # j /\ m.f \notin Resets => m.ack <= h
    BY <1>2, AckRange, HeardInFacts
  <1>5. PICK m \in net : m.to = i /\ m.f \notin Resets /\ m.ack >= n
    BY DEF Acked
  <1>6. m.ack <= h /\ m.ack \in {0, 1, 2}
    BY <1>1, <1>4, <1>5, AckRange
  <1> HIDE DEF h
  <1> QED  BY <1>3, <1>4, <1>5, <1>6

\* Nobody hears more than was said.
HeardBounds ==
    \A i \in Sides : Heard(i) \in {0, 1, 2} /\ Heard(i) <= Said(Peer(i))
                     /\ Heard(i) >= socks[i].rcvNxt

LEMMA HeardNoMore == Inv => HeardBounds
  <1> SUFFICES ASSUME Inv, NEW i \in Sides
               PROVE  /\ Heard(i) \in {0, 1, 2} /\ Heard(i) <= Said(Peer(i))
                      /\ Heard(i) >= socks[i].rcvNxt
    BY DEF HeardBounds
  <1> DEFINE h == HeardIn(net, socks[i].rcvNxt, i)
  <1>1. socks[i].rcvNxt \in {0, 1, 2} /\ SegmentsOK /\ Truthful
    BY DEF Inv, SockOK, Numbers
  <1>2. /\ h \in {0, 1, 2} /\ h >= socks[i].rcvNxt
        /\ h = socks[i].rcvNxt \/ \E m \in net : m.to # i /\ m.ack = h
    BY <1>1, AckRange, HeardInFacts
  <1>3. Heard(i) = h
    BY HeardIs
  <1>4. \A m \in net : m.to # i => m.to = Peer(i)
    BY <1>1, SidesFacts DEF SegmentsOK
  <1> HIDE DEF h
  <1>5. h <= Said(Peer(i))
    BY <1>1, <1>2, <1>4 DEF Truthful
  <1> QED  BY <1>2, <1>3, <1>5

LEMMA LifeStep ==
    ASSUME Inv, NEW i, NEW k, NEW r, NEW ack, NEW said, StepOf(i, k, r, ack, said)
    PROVE  Lifecycle!Step(i)
  <1> DEFINE j == Peer(i)
  <1>0. /\ i \in Sides /\ j \in Sides /\ j # i /\ Peer(j) = i
        /\ Sides \ {i} = {j} /\ Lifecycle!Peer(i) = j
    <2>1. i \in Sides /\ j \in Sides /\ j # i /\ Peer(j) = i /\ \A x \in Sides : x = i \/ x = j
      BY SidesFacts DEF StepOf
    <2>2. Lifecycle!Peer(i) = j
      BY DEF Peer, Lifecycle!Peer
    <2> HIDE DEF j
    <2> QED  BY <2>1, <2>2
  <1>1. /\ socks'[i] = r.k /\ SockOK(r.k) /\ socks'[j] = socks[j] /\ Life(k) = Life(socks[i])
    BY SockStep
  <1>2. Inv'
    BY InvStep
  <1>3. Said(j)' = Said(j) /\ Said(i)' >= Said(i)
    BY SaidStep
  <1>4. Heard(j)' = Heard(j)
    <2>1. /\ net \subseteq net' /\ \A m \in net' : m.to = i => m \in net
          /\ \A m \in net' : m.to \in Sides
      BY NetStep DEF SegmentsOK
    <2>2. \A m \in net' : m.to # j => m.to = i
      BY <1>0, <2>1, SidesFacts
    <2>3. {x \in net' : x.to # j /\ x.f \notin {"RST", "RSTACK"}} =
          {x \in net : x.to # j /\ x.f \notin {"RST", "RSTACK"}}
      BY <2>1, <2>2
    <2>4. HeardIn(net', socks'[j].rcvNxt, j) = HeardIn(net, socks[j].rcvNxt, j)
      BY <1>1, <2>3 DEF HeardIn
    <2> QED  BY <2>4, HeardIs
  <1>5. Heard(i)' \in {0, 1, 2} /\ Heard(i)' <= Said(j) /\ Heard(i)' >= r.k.rcvNxt
    <2>1. HeardBounds'
      BY <1>2, HeardNoMore, PTL
    <2>2. Heard(i)' \in {0, 1, 2} /\ Heard(i)' <= Said(j)' /\ Heard(i)' >= socks'[i].rcvNxt
      BY <1>0, <2>1 DEF HeardBounds
    <2> QED  BY <1>1, <1>3, <2>2
  <1>6. \A n : Acked(i, n)' => Acked(i, n)
    <2>1. \A m \in net' : m.to = i => m \in net
      BY NetStep
    <2> QED  BY <2>1 DEF Acked
  <1>7. ASSUME r.k.ep
        PROVE  /\ r.k.st \in Lifecycle!FinKnown => Acked(i, 2)'
               /\ r.k.st \in Lifecycle!Synchronised => Acked(i, 1)'
               /\ r.k.st \in FinSaid => Said(i)' = 2
    BY <1>0, <1>1, <1>2, <1>7
       DEF Inv, Claims, FinSaid, Lifecycle!FinSaid, Lifecycle!FinKnown, Lifecycle!Synchronised
  <1>8. SegmentsOK /\ SockOK(socks[j])
    BY <1>0 DEF Inv
  <1>9. /\ Life(r.k) \in Lifecycle!Synchronised => Heard(i)' >= 1 /\ Heard(j) >= 1
        /\ Life(r.k) \in FinSaid => Said(i)' = 2
        /\ Life(r.k) \in Lifecycle!FinHeard => Heard(i)' = 2
        /\ Life(r.k) \in Lifecycle!FinKnown => Heard(j) = 2
    <2>1. CASE ~r.k.ep
      BY <2>1, Diagram DEF Life, Lifecycle!FinHeard
    <2>2. CASE r.k.ep
      <3>1. Life(r.k) = r.k.st
        BY <2>2 DEF Life
      <3>2. r.k.st \in Lifecycle!Synchronised => Heard(i)' >= 1
        <4>1. r.k.st \in Lifecycle!Synchronised => r.k.rcvNxt \in {1, 2}
          BY <1>1, <2>2, Diagram DEF SockOK, Shape
        <4> QED  BY <1>5, <4>1
      <3>3. r.k.st \in Lifecycle!FinHeard => Heard(i)' = 2
        <4>1. r.k.st \in Lifecycle!FinHeard => r.k.rcvNxt = 2
          BY <1>1, <2>2 DEF SockOK, Shape, Lifecycle!FinHeard
        <4> QED  BY <1>5, <4>1
      <3>4. r.k.st \in Lifecycle!Synchronised => Heard(j) >= 1
        BY <1>0, <1>6, <1>7, <1>8, <2>2, HeardEnough
      <3>5. r.k.st \in Lifecycle!FinKnown => Heard(j) = 2
        <4>1. r.k.st \in Lifecycle!FinKnown => Heard(j) >= 2
          BY <1>0, <1>6, <1>7, <1>8, <2>2, HeardEnough
        <4>2. Heard(j) \in {0, 1, 2}
          BY <1>0, HeardNoMore DEF HeardBounds
        <4> QED  BY <4>1, <4>2
      <3> QED  BY <1>7, <2>2, <3>1, <3>2, <3>3, <3>4, <3>5
    <2> QED  BY <2>1, <2>2
  <1>10. Life(r.k) \in {Life(socks[i]), "CLOSED"} \/ <<Life(socks[i]), Life(r.k)>> \in Lifecycle!Arrows
    BY <1>1 DEF StepOf, Legal, Moves
  <1>11. Life(socks'[j]) = Life(socks[j]) /\ Life(socks'[i]) = Life(r.k)
    BY <1>1
  <1> HIDE DEF j
  <1> QED  BY <1>0, <1>3, <1>4, <1>5, <1>9, <1>10, <1>11
           DEF Lifecycle!Step, Life, FinSaid

----------------------------------------------------------------------------
(***************************************************************************)
(* Every action is a legal step.                                           *)
(***************************************************************************)

\* The invariant holds after the step, and the lifecycle allows it.
Good(i) == Inv' /\ Lifecycle!Step(i)

\* An event at a socket that has an endpoint, without a segment.
LEMMA LocalGood ==
    ASSUME Inv, NEW i \in Sides, NEW r, Handled(i, r), socks[i].ep, Legal(socks[i], r, 0, 0)
    PROVE  Good(i)
  <1>1. SockOK(socks[i]) /\ (socks[i].made = 0 => socks[i] = NewSocket)
    BY DEF Inv
  <1>2. r.k.made # 0
    <2>1. socks[i].made # 0
      BY <1>1, NewIsFresh
    <2> QED  BY <2>1 DEF Legal
  <1>3. Said(Peer(i)) \in {0, 1, 2}
    BY SaidIs, SaidInFacts
  <1>4. StepOf(i, socks[i], r, 0, 0)
    BY <1>1, <1>2, <1>3 DEF StepOf
  <1> QED  BY <1>4, InvStep, LifeStep DEF Good

LEMMA ConnectGood ==
    ASSUME Inv, NEW i \in Sides, Connect(i)
    PROVE  Good(i)
  <1> DEFINE q == Enter(SendEmptyPacket(Handling(Caller), "SYN"), "SYN_SENT")
  <1>1. socks[i].made = 0 /\ socks[i] = NewSocket /\ ~socks[i].ep
    BY NewIsFresh DEF Connect, Inv
  <1>2. Handled(i, q)
    BY <1>1 DEF Connect, Caller
  <1>3. Legal(Fresh(1), q, 0, 0) /\ q.k.made = 1
    BY ConnectLegal
  <1>4. SockOK(Fresh(1)) /\ ~Fresh(1).ep /\ Fresh(1).rcvNxt = 0
    <2>1. 1 \in 0..(MaxForks + 1)
      BY ConnectionAssumption
    <2> QED  BY <2>1, FreshFacts
  <1>5. Said(Peer(i)) \in {0, 1, 2}
    BY SaidIs, SaidInFacts
  <1> HIDE DEF q
  <1>6. StepOf(i, Fresh(1), q, 0, 0)
    BY <1>1, <1>2, <1>3, <1>4, <1>5 DEF StepOf
  <1> QED  BY <1>6, InvStep, LifeStep DEF Good

\* A fork, for a SYN of the client.
LEMMA ForkGood ==
    ASSUME Inv, Fork
    PROVE  Good("server")
  <1> DEFINE n == socks["server"].made + 1
             q == SendEmptyPacket(Handling(Forked(1, n)), "SYNACK")
  <1>0. /\ "server" \in Sides /\ Peer("server") = "client"
    BY SidesFacts DEF Sides
  <1>1. SockOK(socks["server"]) /\ ~socks["server"].ep
    <2>1. SockOK(socks["server"])
      BY <1>0 DEF Inv
    <2> QED  BY <2>1 DEF Fork, Connection, SockOK, Shape
  <1>2. n \in 1..(MaxForks + 1) /\ n \in 0..(MaxForks + 1)
    BY <1>1, ConnectionAssumption DEF Fork, SockOK, SockType
  <1>3. PICK m \in net : /\ m.to = "server" /\ m.f = "SYN"
                         /\ Handled("server", SendEmptyPacket(Handling(Forked(m.seq + 1, n)), "SYNACK"))
    BY DEF Fork, Forked
  <1>4. m.seq + 1 = 1
    BY <1>3 DEF Inv, SegmentsOK, MessageOK, SegOK
  <1>5. Handled("server", q)
    BY <1>3, <1>4
  <1>6. Legal(Fresh(n), q, 0, 1) /\ q.k.made = n
    BY <1>2, ForkLegal
  <1>7. SockOK(Fresh(n)) /\ ~Fresh(n).ep /\ Fresh(n).rcvNxt = 0
    BY <1>2, FreshFacts
  <1>8. Said("client") \in {0, 1, 2} /\ 1 <= Said("client")
    <2>1. SaidIn(net, "client") >= 1 /\ SaidIn(net, "client") \in {0, 1, 2}
      BY <1>3, SaidInFacts
    <2> QED  BY <2>1, SaidIs
  <1>9. n # 0
    BY <1>2
  <1> HIDE DEF q, n
  <1>10. StepOf("server", Fresh(n), q, 0, 1)
    BY <1>0, <1>1, <1>5, <1>6, <1>7, <1>8, <1>9 DEF StepOf
  <1> QED  BY <1>10, InvStep, LifeStep DEF Good

\* A segment that reaches its socket.
LEMMA ReceiveGood ==
    ASSUME Inv, NEW i \in Sides, Receive(i)
    PROVE  Good(i)
  <1> DEFINE k == socks[i]
  <1>1. SockOK(k) /\ k.ep /\ (k.made = 0 => k = NewSocket)
    BY DEF Inv, Receive, Connection
  <1>2. PICK m \in net, reaction \in Reactions :
          m.to = i /\ Handled(i, DoForwardUp(Handling(k), m, reaction))
    BY DEF Receive
  <1> DEFINE r == DoForwardUp(Handling(k), m, reaction)
  <1>3. /\ MessageOK(m) /\ m.ack \in {0, 1, 2} /\ m.f \in Flags
        /\ (m.f \in Resets => m.ack = 0)
    BY AckRange DEF Inv, SegmentsOK, MessageOK, SegOK
  <1>4. FinExpected(k, m)
    <2>1. SUFFICES ASSUME k.st \in {"FIN_WAIT_1", "FIN_WAIT_2", "CLOSE_WAIT"}, m.f = "FINACK", m.seq # 1
                   PROVE  FALSE
      BY DEF FinExpected
    <2>2. m.seq = 2
      BY <1>3, <2>1 DEF MessageOK, SegOK
    <2>3. m.to = "client" /\ Said("client") = 2 /\ socks["client"].rcvNxt = 2
      BY <2>1, <2>2 DEF Inv, ClientOnce
    <2>4. k = socks["client"] /\ Life(k) = k.st
      BY <1>1, <1>2, <2>3 DEF Life
    <2>5. k.st \in FinSaid \cup {"CLOSED"}
      BY <2>3, <2>4 DEF Inv, ClientOnce
    <2>6. k.st \in {"FIN_WAIT_1", "FIN_WAIT_2"}
      BY <2>1, <2>5, Diagram
    <2> QED  BY <1>1, <2>3, <2>4, <2>6 DEF SockOK, Shape
  <1>5. Legal(k, r, m.ack, SaidBy(m.f))
    BY <1>1, <1>3, <1>4, ForwardUpLegal
  <1>6. r.k.made # 0
    <2>1. k.made # 0
      BY <1>1, NewIsFresh
    <2> QED  BY <1>5, <2>1 DEF Legal
  <1>7. m.ack >= 1 => Acked(i, m.ack)
    BY <1>2, <1>3 DEF Acked
  <1>8. SaidBy(m.f) \in {0, 1, 2} /\ SaidBy(m.f) <= Said(Peer(i))
    <2>1. m.to # Peer(i)
      BY <1>2, SidesFacts
    <2>2. /\ SaidIn(net, Peer(i)) \in {0, 1, 2}
          /\ m.f = "FINACK" => SaidIn(net, Peer(i)) = 2
          /\ m.f \in {"SYN", "SYNACK", "FINACK"} => SaidIn(net, Peer(i)) >= 1
      BY <2>1, SaidInFacts
    <2> QED  BY <2>2, SaidIs DEF SaidBy
  <1> HIDE DEF r
  <1>9. StepOf(i, k, r, m.ack, SaidBy(m.f))
    BY <1>1, <1>2, <1>3, <1>5, <1>6, <1>7, <1>8 DEF StepOf, r
  <1> QED  BY <1>9, InvStep, LifeStep DEF Good

LEMMA RefusalGood ==
    ASSUME Inv, NEW i \in Sides, NoEndPointsFound(i)
    PROVE  Good(i)
  <1>1. SockOK(socks[i]) /\ ~socks[i].ep
    BY DEF Inv, NoEndPointsFound
  <1>2. PICK m \in net :
          Handled(i, [k |-> socks[i],
                      out |-> {[f |-> IF m.f = "SYN" THEN "RSTACK" ELSE "RST",
                                seq |-> m.ack, ack |-> m.seq + 1]}])
    BY DEF NoEndPointsFound
  <1> DEFINE s == [f |-> IF m.f = "SYN" THEN "RSTACK" ELSE "RST", seq |-> m.ack, ack |-> m.seq + 1]
             q == [k |-> socks[i], out |-> {s}]
  <1>3. m.ack \in Int /\ m.seq + 1 \in Int
    BY DEF Inv, SegmentsOK, MessageOK
  <1>4. s \in SegmentType /\ s.f \in Resets
    BY <1>3 DEF SegmentType, Flags, Resets
  <1>5. Handled(i, q)
    BY <1>2
  <1> HIDE DEF s
  <1>6. Legal(socks[i], q, 0, 0) /\ q.k = socks[i] /\ q.out = {s}
    BY <1>1, <1>4, RefusalLegal
  <1> HIDE DEF q
  <1>7. Said(Peer(i)) \in {0, 1, 2}
    BY SaidIs, SaidInFacts
  <1>8. StepOf(i, socks[i], q, 0, 0)
    BY <1>1, <1>4, <1>5, <1>6, <1>7 DEF StepOf
  <1> QED  BY <1>8, InvStep, LifeStep DEF Good

LEMMA NextGood ==
    ASSUME Inv, NEW i \in Sides,
           \/ Connect(i) \/ ConnectAgain(i) \/ Close(i) \/ Shutdown(i)
           \/ Receive(i) \/ NoEndPointsFound(i) \/ Timers(i)
    PROVE  Good(i)
  <1> DEFINE k == socks[i]
  <1>0. SockOK(k) /\ 0 \in Int
    BY DEF Inv
  <1>1. CASE Connect(i)
    BY <1>1, ConnectGood
  <1>2. CASE ConnectAgain(i)
    <2>1. k.ep /\ Handled(i, Reset(Handling(k)))
      BY <1>2 DEF ConnectAgain, Connection
    <2>2. Legal(k, Reset(Handling(k)), 0, 0)
      BY <1>0, <2>1, KilledLegal, Zenon
    <2> QED  BY <2>1, <2>2, LocalGood
  <1>3. CASE Close(i)
    <2>1. k.ep /\ k.st # "SYN_RCVD" /\ Handled(i, DoClose(Handling(k)))
      BY <1>3 DEF Close, Owned, Connection
    <2> QED  BY <1>0, <2>1, CloseLegal, LocalGood
  <1>4. CASE Shutdown(i)
    <2>1. k.ep /\ k.st # "SYN_RCVD" /\ Handled(i, ShutdownSend(Handling(k)))
      BY <1>4 DEF Shutdown, Owned, Connection
    <2> QED  BY <1>0, <2>1, ShutdownLegal, LocalGood
  <1>5. CASE Receive(i)
    BY <1>5, ReceiveGood
  <1>6. CASE NoEndPointsFound(i)
    BY <1>6, RefusalGood
  <1>7. CASE Retransmit(i)
    <2>1. k.retx # "none" /\ Handled(i, RetxEvent(k))
      BY <1>7 DEF Retransmit
    <2> QED  BY <1>0, <2>1, RetxLegal, LocalGood
  <1>8. CASE LastAckExpires(i)
    <2>1. k.lastAck /\ Handled(i, LastAckTimeout(Handling(k)))
      BY <1>8 DEF LastAckExpires
    <2> QED  BY <1>0, <2>1, LastAckTimeoutLegal, LocalGood
  <1>9. CASE TimeWaitExpires(i)
    <2>1. k.timewait /\ Handled(i, CloseAndNotify(Handling(k)))
      BY <1>9 DEF TimeWaitExpires
    <2>2. k.ep
      BY <1>0, <2>1 DEF SockOK, Shape, Silent
    <2>3. Legal(k, CloseAndNotify(Handling(k)), 0, 0)
      BY <1>0, <2>2, KilledLegal, Zenon
    <2> QED  BY <2>1, <2>2, <2>3, LocalGood
  <1> QED  BY <1>1, <1>2, <1>3, <1>4, <1>5, <1>6, <1>7, <1>8, <1>9 DEF Timers

----------------------------------------------------------------------------
(***************************************************************************)
(* The theorems.                                                           *)
(***************************************************************************)

LEMMA InitInv == Init => Inv
  <1> SUFFICES ASSUME Init PROVE Inv
    OBVIOUS
  <1>1. DOMAIN socks = Sides /\ listening \in BOOLEAN /\ net = {}
    BY DEF Init
  <1>2. \A i \in Sides : socks[i] = NewSocket
    BY DEF Init
  <1>3. \A i \in Sides : SockOK(socks[i]) /\ ~socks[i].ep /\ socks[i].rcvNxt = 0
    <2>1. NewSocket.rcvNxt = 0
      BY DEF NewSocket
    <2> QED  BY <1>2, <2>1, NewIsFresh
  <1>4. \A i \in Sides : Said(i) = 0
    BY <1>1, SaidIs DEF SaidIn
  <1>5. \A i \in Sides : Peer(i) \in Sides
    BY SidesFacts
  <1>6. Truthful
    BY <1>1, <1>3, <1>4, <1>5 DEF Truthful
  <1>7. SegmentsOK /\ Claims
    BY <1>1, <1>3 DEF SegmentsOK, Claims
  <1>8. ClientOnce
    <2>1. "client" \in Sides
      BY DEF Sides
    <2>2. Said("client") # 2 /\ ~socks["client"].ep
      BY <1>3, <1>4, <2>1
    <2> QED  BY <1>1, <2>2 DEF ClientOnce
  <1> QED  BY <1>1, <1>2, <1>3, <1>6, <1>7, <1>8 DEF Inv

LEMMA InitLife == Init => Lifecycle!Init
  <1> SUFFICES ASSUME Init PROVE Lifecycle!Init
    OBVIOUS
  <1>1. net = {} /\ \A i \in Sides : ~socks[i].ep /\ socks[i].rcvNxt = 0
    BY DEF Init, NewSocket
  <1>2. \A i \in Sides : Said(i) = 0
    BY <1>1, SaidIs DEF SaidIn
  <1>3. \A i \in Sides : Heard(i) = 0
    <2> SUFFICES ASSUME NEW i \in Sides PROVE Heard(i) = 0
      OBVIOUS
    <2>1. Heard(i) = HeardIn({}, 0, i)
      BY <1>1, HeardIs
    <2>2. HeardIn({}, 0, i) = Max({0})
      BY DEF HeardIn
    <2>3. Max({0}) \in {0}
      BY MaxFacts
    <2> QED  BY <2>1, <2>2, <2>3
  <1> QED  BY <1>1, <1>2, <1>3 DEF Lifecycle!Init

\* Every step keeps the invariant, and is a step of the lifecycle or leaves all
\* that the lifecycle sees as it was.
LEMMA StepGood ==
    ASSUME Inv, [Next]_vars
    PROVE  Inv' /\ [\E i \in Sides : Lifecycle!Step(i)]_Lifecycle!lifeVars
  <1>1. ASSUME NEW i \in Sides, Good(i)
        PROVE  Inv' /\ [\E j \in Sides : Lifecycle!Step(j)]_Lifecycle!lifeVars
    BY <1>1 DEF Good
  <1>2. CASE CloseListener
    <2>1. socks' = socks /\ net' = net /\ listening' \in BOOLEAN
      BY <1>2 DEF CloseListener
    <2>2. Inv'
      BY <2>1 DEF Inv, SegmentsOK, Truthful, Claims, ClientOnce, Acked, Said, SentBy
    <2>3. UNCHANGED Lifecycle!lifeVars
      BY <2>1 DEF Lifecycle!lifeVars, Said, Heard, SentBy
    <2> QED  BY <2>2, <2>3
  <1>3. CASE UNCHANGED vars
    <2>1. socks' = socks /\ net' = net /\ listening' = listening
      BY <1>3 DEF vars
    <2>2. Inv'
      BY <2>1 DEF Inv, SegmentsOK, Truthful, Claims, ClientOnce, Acked, Said, SentBy
    <2>3. UNCHANGED Lifecycle!lifeVars
      BY <2>1 DEF Lifecycle!lifeVars, Said, Heard, SentBy
    <2> QED  BY <2>2, <2>3
  <1>4. CASE Fork
    <2>1. Good("server") /\ "server" \in Sides
      BY <1>4, ForkGood DEF Sides
    <2> QED  BY <1>1, <2>1
  <1>5. ASSUME NEW i \in Sides,
               \/ Connect(i) \/ ConnectAgain(i) \/ Close(i) \/ Shutdown(i)
               \/ Receive(i) \/ NoEndPointsFound(i) \/ Timers(i)
        PROVE  Inv' /\ [\E j \in Sides : Lifecycle!Step(j)]_Lifecycle!lifeVars
    <2>1. Good(i)
      BY <1>5, NextGood
    <2> QED  BY <1>1, <2>1
  <1> QED  BY <1>2, <1>3, <1>4, <1>5 DEF Next

\* The inductive invariant holds in every reachable state, for any number of
\* retries and of forks.
THEOREM Invariance == Spec => []Inv
  <1>1. Inv /\ [Next]_vars => Inv'
    BY StepGood
  <1> QED  BY InitInv, <1>1, PTL DEF Spec

LEMMA InvSockets ==
    ASSUME Inv
    PROVE  TypeOK /\ WaitingHasTimer /\ DeadSocketSilent
  <1>1. ASSUME NEW i \in Sides
        PROVE  socks[i] \in SocketType
    <2> DEFINE k == socks[i]
    <2>1. k \in SockType /\ Numbers(k)
      BY DEF Inv, SockOK
    <2>2. /\ k.nextTx \in 0..2 /\ k.highTx \in 0..1 /\ k.head \in 0..2 /\ k.rcvNxt \in 0..2
          /\ k.fin \in {NoFin, 1}
      BY <2>1 DEF Numbers
    <2> HIDE DEF k
    <2>3. k \in SocketType
      BY <2>1, <2>2 DEF SockType, SocketType
    <2> QED  BY <2>3 DEF k
  <1>2. TypeOK
    <2>1. SegmentsOK /\ listening \in BOOLEAN
      BY DEF Inv
    <2>2. \A m \in net : m.seq \in 0..2 /\ m.ack \in 0..2
      BY <2>1, AckRange
    <2> QED  BY <1>1, <2>1, <2>2 DEF TypeOK
  <1>3. WaitingHasTimer
    BY DEF Inv, SockOK, Shape, WaitingHasTimer
  <1>4. DeadSocketSilent
    BY DEF Inv, SockOK, Shape, Silent, DeadSocketSilent
  <1> QED  BY <1>2, <1>3, <1>4

\* The numbers of a connection that carries no data stay in the room of the SYN
\* and the FIN, however often segments are repeated, reordered or delivered to
\* a later incarnation of the server's socket.
THEOREM TypeCorrect == Spec => []TypeOK
  BY Invariance, InvSockets, PTL

\* A socket that waits for its peer has the timer that repeats its question,
\* and TIME_WAIT has its own: SendEmptyPacket schedules m_retxEvent, and nothing
\* that cancels it leaves the socket waiting.
THEOREM QuestionsRepeated == Spec => []WaitingHasTimer
  BY Invariance, InvSockets, PTL

\* DeallocateEndPoint leaves no event behind: a socket without an endpoint never
\* sends, and no timer brings it back.
THEOREM SilentOnceDead == Spec => []DeadSocketSilent
  BY Invariance, InvSockets, PTL

\* The sockets implement the lifecycle: over a network that loses, repeats and
\* reorders, each state change is an arrow of the TCP state diagram, taken only
\* when the peer has sent, or acknowledged, what the new state says it has.
THEOREM ImplementsLifecycle == Spec => FollowsLifecycle
  <1>1. Inv /\ [Next]_vars => [\E i \in Sides : Lifecycle!Step(i)]_Lifecycle!lifeVars
    BY StepGood
  <1> QED  BY Invariance, InitLife, <1>1, PTL DEF Spec, FollowsLifecycle, Lifecycle!Spec

=============================================================================
