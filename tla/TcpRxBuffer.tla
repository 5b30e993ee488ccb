----------------------------- MODULE TcpRxBuffer -----------------------------
(***************************************************************************)
(* TcpRxBuffer, the reassembly buffer and SACK list of a TCP socket, with  *)
(* the handlers of TcpSocketBase that drive it in ESTABLISHED, in          *)
(* CLOSE_WAIT, and in FIN_WAIT when this side has closed first: segment    *)
(* validation, ReceivedData, PeerClose, ProcessWait, Recv, ShutdownSend    *)
(* and SetRcvBufSize.  Byte-granular: segments of any length, overlapping in   *)
(* any way, duplicated, reordered, with or without the FIN.                *)
(*                                                                         *)
(* The peer's stream is the bytes 0..StreamLen-1 followed by the FIN; the  *)
(* payload of a packet is the range of stream positions it holds.          *)
(***************************************************************************)
EXTENDS Integers, Sequences, SequencesExt

CONSTANTS
    StreamLen,      \* bytes the peer sends before its FIN
    MaxSegment,     \* bound: the longest segment
    RcvBufSize,     \* the buffer size at the start
    BufferSizes,    \* bound: the sizes SetRcvBufSize is called with later
    SackBlocks,     \* the longest SACK list kept: 4 in the code
    ClosesFirst     \* the application may call ShutdownSend before the peer's FIN

ASSUME RxAssumption ==
    /\ StreamLen \in Nat /\ MaxSegment \in Nat \ {0} /\ RcvBufSize \in Nat
    /\ BufferSizes \subseteq Nat /\ SackBlocks \in Nat \ {0} /\ ClosesFirst \in BOOLEAN

VARIABLES
    state,       \* m_state: FIN_WAIT is FIN_WAIT_1 and _2, TIME_WAIT also CLOSING
    rx,          \* the members of TcpRxBuffer, and whether a SACK block was dropped
    edge,        \* the largest right edge of a window offered to the peer
    delivered,   \* history: the bytes Recv returned, in order
    answer,      \* history: what the last step sent: "ACK", "delayed", "nothing"
    aborted      \* an assertion stopped the run

vars == <<state, rx, edge, delivered, answer, aborted>>

Length(c) == c.last - c.first
Bytes(c)  == c.first..(c.last - 1)

\* The bytes in the buffer.
Held(r) == UNION {Bytes(c) : c \in r.data}

----------------------------------------------------------------------------
(***************************************************************************)
(* TcpRxBuffer.  m_data maps the first byte of a packet to the packet: a   *)
(* set of chunks, each the range [first, last) of the stream.              *)
(***************************************************************************)

\* m_data.begin()->first.
FirstKey(data) == Min({c.first : c \in data})

\* What a loop over m_data leaves that starts with the value start and does Turn
\* for one chunk after the other, in the order of their keys.
InOrder(Turn(_, _), start, data) ==
    LET LastOf(chunks) == CHOOSE c \in chunks : \A d \in chunks : d.first <= c.first
    IN  MapThenFoldSet(LAMBDA c, before : Turn(before, c), start, LAMBDA c : c, LastOf, data)

\* Mutant: bytes the application has not read do not count.
MaxRxSequenceUnread(r) == IF r.gotFin THEN r.finSeq ELSE r.nextRxSeq + r.maxBuffer

MaxRxSequence(r) ==
    IF r.gotFin THEN r.finSeq
    ELSE IF r.data # {} /\ r.nextRxSeq > FirstKey(r.data)
         THEN FirstKey(r.data) + r.maxBuffer
         ELSE r.nextRxSeq + r.maxBuffer

\* Mutant: the FIN is counted whenever it is seen.
SetFinSequenceAgain(r, s) ==
    [r EXCEPT !.gotFin = TRUE, !.finSeq = s,
              !.nextRxSeq = IF @ >= s THEN @ + 1 ELSE @]

SetFinSequence(r, s) ==
    [r EXCEPT !.gotFin = TRUE, !.finSeq = s,
              !.nextRxSeq = IF @ = s THEN @ + 1 ELSE @]

Finished(r) == r.gotFin /\ r.finSeq < r.nextRxSeq

\* The block at the front of the list is merged with the first block that touches
\* it; the merged block is the new front.
MergeOnce(list) ==
    LET front    == Head(list)
        touching == {i \in 2..Len(list) : list[i].last = front.first
                                       \/ list[i].first = front.last}
        i        == Min(touching)
        merged   == IF list[i].last = front.first
                    THEN [first |-> list[i].first, last |-> front.last]
                    ELSE [first |-> front.first, last |-> list[i].last]
    IN  IF touching = {} THEN list ELSE <<merged>> \o Tail(RemoveAt(list, i))

\* Again from there until no block touches the front.  Each merge takes a block
\* away, so that there are fewer of them than blocks.
MergeFront(blocks) ==
    LET after[n \in 0..Len(blocks)] == IF n = 0 THEN blocks ELSE MergeOnce(after[n - 1])
    IN  after[Len(blocks)]

\* Mutant: the newest block goes to the back.
UpdateSackListBack(r, chunk) ==
    IF Len(r.sackList) = SackBlocks THEN [r EXCEPT !.dropped = TRUE]
    ELSE [r EXCEPT !.sackList = Append(@, chunk)]

\* UpdateSackList for a chunk stored beyond RCV.NXT; no more blocks are kept
\* than fit the option (dropped is history).
UpdateSackList(r, chunk) ==
    LET merged == MergeFront(<<chunk>> \o r.sackList)
    IN  IF Len(merged) > SackBlocks
        THEN [r EXCEPT !.sackList = Front(merged), !.dropped = TRUE]
        ELSE [r EXCEPT !.sackList = merged]

\* Mutant: an advance of RCV.NXT clears every block.
ClearSackListWhole(list, seq) == <<>>

\* Mutant: blocks RCV.NXT has passed stay.
ClearSackListNever(list, seq) == list

ClearSackList(list, seq) ==
    LET after[i \in 0..Len(list)] ==
            IF i = 0 THEN <<>>
            ELSE IF list[i].last > seq THEN Append(after[i - 1], list[i]) ELSE after[i - 1]
    IN  after[Len(list)]

\* The segment [head, tail) cut to what may be stored.
TrimToWindow(r, head, tail) ==
    LET start  == Max({head, r.nextRxSeq})
        maxSeq == FirstKey(r.data) + r.maxBuffer
        end    == Min({tail, maxSeq})
    IN  IF r.data = {} THEN [head |-> start, tail |-> tail]
        ELSE [head |-> Min({start, end}), tail |-> end]

\* Mutant: a chunk that is dropped still counts in m_size.
RemoveOverlappedUncounted(seg, chunk) ==
    IF chunk.first > seg.tail \/ chunk.last <= seg.head
    THEN [seg EXCEPT !.kept = @ \cup {chunk}]
    ELSE IF chunk.first > seg.head /\ chunk.last < seg.tail THEN seg
    ELSE [head |-> IF chunk.first <= seg.head THEN chunk.last ELSE seg.head,
          tail |-> IF chunk.last >= seg.tail THEN chunk.first ELSE seg.tail,
          size |-> seg.size,
          kept |-> seg.kept \cup {chunk}]

\* One turn of the loop over the stored chunks: a chunk strictly inside the
\* segment is dropped, one over its head or tail shortens the segment.
RemoveOverlapped(seg, chunk) ==
    IF chunk.first > seg.tail \/ chunk.last <= seg.head
    THEN [seg EXCEPT !.kept = @ \cup {chunk}]
    ELSE IF chunk.first > seg.head /\ chunk.last < seg.tail
    THEN [seg EXCEPT !.size = @ - Length(chunk)]
    ELSE [head |-> IF chunk.first <= seg.head THEN chunk.last ELSE seg.head,
          tail |-> IF chunk.last >= seg.tail THEN chunk.first ELSE seg.tail,
          size |-> seg.size,
          kept |-> seg.kept \cup {chunk}]

Insert(data, chunk) == {c \in data : c.first # chunk.first} \cup {chunk}

\* One turn of the loop that moves RCV.NXT over the chunks in sequence.
Advance(r, chunk) ==
    IF chunk.first # r.nextRxSeq THEN r
    ELSE [r EXCEPT !.nextRxSeq = chunk.last,
                   !.availBytes = @ + Length(chunk),
                   !.sackList = ClearSackList(@, chunk.last)]

\* Add: whether the segment was stored, and the buffer it leaves.
Add(r, head, tail) ==
    LET fits  == TrimToWindow(r, head, tail)
        seg   == InOrder(RemoveOverlapped,
                         [head |-> fits.head, tail |-> fits.tail,
                          size |-> r.size, kept |-> {}], r.data)
        chunk == [first |-> seg.head, last |-> seg.tail]
        kept  == [r EXCEPT !.data = seg.kept, !.size = seg.size]
        added == [kept EXCEPT !.data = Insert(@, chunk), !.size = @ + Length(chunk)]
        moved == InOrder(Advance,
                         IF seg.head > r.nextRxSeq THEN UpdateSackList(added, chunk)
                                                   ELSE added,
                         added.data)
    IN  IF seg.head >= seg.tail THEN [stored |-> FALSE, rx |-> kept]
        ELSE [stored |-> TRUE,
              rx |-> IF moved.gotFin /\ moved.nextRxSeq = moved.finSeq
                     THEN [moved EXCEPT !.nextRxSeq = @ + 1] ELSE moved]

\* One turn of the loop of Extract: as much of the first packet as is still
\* wanted; a rest of it goes back under its new key.
TakeFrom(t, chunk) ==
    LET n    == Min({t.wanted, Length(chunk)})
        rest == [chunk EXCEPT !.first = @ + n]
    IN  [wanted |-> t.wanted - n,
         out    |-> t.out \o [j \in 1..n |-> chunk.first + j - 1],
         left   |-> IF n = Length(chunk) THEN t.left ELSE t.left \cup {rest}]

\* Mutant: whatever is in the buffer is taken for available.
ExtractAnything(r, maxSize) ==
    LET n    == Min({maxSize, r.size})
        took == InOrder(TakeFrom, [wanted |-> n, out |-> <<>>, left |-> {}], r.data)
    IN  IF n = 0 THEN [out |-> <<>>, rx |-> r]
        ELSE [out |-> took.out,
              rx |-> [r EXCEPT !.data = took.left, !.size = @ - n,
                               !.availBytes = Max({0, @ - n})]]

\* Extract: the first bytes of the buffer, as many as are available.
Extract(r, maxSize) ==
    LET n    == Min({maxSize, r.availBytes})
        took == InOrder(TakeFrom, [wanted |-> n, out |-> <<>>, left |-> {}], r.data)
    IN  IF n = 0 THEN [out |-> <<>>, rx |-> r]
        ELSE [out |-> took.out,
              rx |-> [r EXCEPT !.data = took.left, !.size = @ - n, !.availBytes = @ - n]]

----------------------------------------------------------------------------
(***************************************************************************)
(* TcpSocketBase.                                                          *)
(***************************************************************************)

\* The states in which data is processed.
Receiving == ~aborted /\ state # "TIME_WAIT"

\* DoPeerClose once the FIN is reached, from FIN_WAIT as well.
DoPeerClose(r) == state' = IF Finished(r) THEN "CLOSE_WAIT" ELSE state

OutOfRange(r, head, tail) ==
    IF state = "CLOSE_WAIT" THEN head # r.nextRxSeq
    ELSE tail < r.nextRxSeq \/ MaxRxSequence(r) <= head

\* SendEmptyPacket(ACK) in buffer state r: AdvertisedWindowSize offers what
\* is free, unless a FIN was received.
SendEmptyPacket(r) ==
    /\ answer' = "ACK"
    /\ aborted' = (~r.gotFin /\ MaxRxSequence(r) < r.nextRxSeq)
    /\ edge' = IF r.gotFin THEN edge ELSE Max({edge, MaxRxSequence(r)})

\* Mutant: any ACK may be delayed.
AckOrDelayAny(r, mustAck) ==
    \/ SendEmptyPacket(r)
    \/ answer' = "delayed" /\ UNCHANGED <<edge, aborted>>

\* The end of ReceivedData: the ACK may be delayed unless mustAck.
AckOrDelay(r, mustAck) ==
    \/ SendEmptyPacket(r)
    \/ ~mustAck /\ answer' = "delayed" /\ UNCHANGED <<edge, aborted>>

\* What must be answered at once: a duplicate, a gap, a filled gap, the FIN.
MustAck(r, add, read, head, tail) ==
    \/ ~add.stored
    \/ read.size > read.availBytes
    \/ add.rx.nextRxSeq > r.nextRxSeq + (tail - head)
    \/ Finished(read)

\* The application may read when RCV.NXT has advanced.
Readable(r, add) == IF add.rx.nextRxSeq > r.nextRxSeq THEN 0..add.rx.availBytes ELSE {0}

\* ReceivedData with the segment [head, tail) in buffer state r.
Receive(r, head, tail) ==
    \E add \in {Add(r, head, tail)} :
    \E n \in Readable(r, add) :
    \E read \in {Extract(add.rx, n)} :
        /\ rx' = read.rx
        /\ delivered' = delivered \o read.out
        /\ AckOrDelay(rx', MustAck(r, add, rx', head, tail))
        /\ DoPeerClose(rx')

\* What the peer sends: anything up to the window it was offered, again and
\* again, and one byte beyond it when that window is closed.
Sent(head, tail) ==
    /\ head < tail /\ tail <= StreamLen /\ tail - head <= MaxSegment
    /\ tail <= edge \/ (tail = head + 1 /\ head = edge /\ edge = rx.nextRxSeq)

\* IsValidTcpSegment answers a segment outside the window and drops it.
DiscardOutOfRange(head, tail) ==
    /\ Receiving
    /\ Sent(head, tail)
    /\ OutOfRange(rx, head, tail)
    /\ SendEmptyPacket(rx)
    /\ UNCHANGED <<state, rx, delivered>>

ReceivedData(head, tail) ==
    /\ Receiving
    /\ Sent(head, tail)
    /\ ~OutOfRange(rx, head, tail)
    /\ Receive(rx, head, tail)

\* PeerClose ignores a FIN whose segment starts outside the window.
FinIgnored(head) ==
    head < rx.nextRxSeq \/ head > MaxRxSequence(rx)

\* A FIN arrives with the data [head, StreamLen), or alone when there is none.
FinSent(head) ==
    IF head < StreamLen THEN Sent(head, StreamLen) /\ ~OutOfRange(rx, head, StreamLen)
                        ELSE edge >= StreamLen

\* The FIN in ESTABLISHED.
PeerClose(head) ==
    /\ ~aborted /\ state = "ESTABLISHED"
    /\ FinSent(head)
    /\ \/ /\ FinIgnored(head)
          /\ answer' = "nothing"
          /\ UNCHANGED <<state, rx, edge, delivered, aborted>>
       \/ /\ ~FinIgnored(head) /\ head < StreamLen
          /\ Receive(SetFinSequence(rx, StreamLen), head, StreamLen)
       \/ /\ ~FinIgnored(head) /\ head = StreamLen
          /\ rx' = SetFinSequence(rx, StreamLen)
          /\ IF Finished(rx') THEN SendEmptyPacket(rx')
             ELSE answer' = "nothing" /\ UNCHANGED <<edge, aborted>>
          /\ DoPeerClose(rx')
          /\ UNCHANGED delivered

\* ProcessWait: a FIN without data is recorded; in CLOSE_WAIT it is not answered.
FinInWait ==
    /\ ~aborted /\ state \in {"CLOSE_WAIT", "FIN_WAIT"}
    /\ FinSent(StreamLen)
    /\ rx' = SetFinSequence(rx, StreamLen)
    /\ IF state = "FIN_WAIT" /\ Finished(rx')
       THEN state' = "TIME_WAIT" /\ SendEmptyPacket(rx')
       ELSE answer' = "nothing" /\ UNCHANGED <<state, edge, aborted>>
    /\ UNCHANGED delivered

\* Mutant: the FIN is taken for the end before its data is.
FinWithDataInFinWaitEarly(head) ==
    /\ ~aborted /\ state = "FIN_WAIT" /\ head < StreamLen /\ FinSent(head)
    /\ rx' = SetFinSequence(rx, head)
    /\ IF Finished(rx') THEN state' = "TIME_WAIT" /\ SendEmptyPacket(rx')
       ELSE answer' = "nothing" /\ UNCHANGED <<state, edge, aborted>>
    /\ UNCHANGED delivered

\* ProcessWait: a FIN with data in FIN_WAIT.  The data is received as if there was
\* no FIN, which is then recorded at the first byte of the segment.
FinWithDataInFinWait(head) ==
    /\ ~aborted /\ state = "FIN_WAIT" /\ head < StreamLen /\ FinSent(head)
    /\ \E add \in {Add(rx, head, StreamLen)} :
       \E n \in Readable(rx, add) :
       \E read \in {Extract(add.rx, n)} :
           /\ rx' = SetFinSequence(read.rx, head)
           /\ delivered' = delivered \o read.out
           /\ IF Finished(rx')
              THEN /\ state' = "TIME_WAIT" /\ answer' = "ACK"
                   /\ edge' \in {edge, Max({edge, MaxRxSequence(read.rx)})}
                   /\ UNCHANGED aborted
              ELSE /\ AckOrDelay(read.rx, MustAck(rx, add, read.rx, head, StreamLen))
                   /\ UNCHANGED state

\* ShutdownSend with nothing left to send: this side's FIN, which carries an ACK.
ShutdownSend ==
    /\ ClosesFirst /\ ~aborted /\ state = "ESTABLISHED"
    /\ state' = "FIN_WAIT"
    /\ SendEmptyPacket(rx)
    /\ UNCHANGED <<rx, delivered>>

\* Recv outside the data callback.
Recv(maxSize) ==
    /\ ~aborted
    /\ rx.availBytes > 0
    /\ LET read == Extract(rx, maxSize)
       IN  rx' = read.rx /\ delivered' = delivered \o read.out
    /\ answer' = "nothing"
    /\ UNCHANGED <<state, edge, aborted>>

\* Only a larger buffer is announced to the peer.
SetRcvBufSize(size) ==
    /\ ~aborted
    /\ size # rx.maxBuffer
    /\ rx' = [rx EXCEPT !.maxBuffer = size]
    /\ IF size > rx.maxBuffer THEN SendEmptyPacket(rx')
       ELSE answer' = "nothing" /\ UNCHANGED <<edge, aborted>>
    /\ UNCHANGED <<state, delivered>>

\* Any other segment the socket sends with an ACK: the delayed ACK, data.
SendAck ==
    /\ ~aborted
    /\ SendEmptyPacket(rx)
    /\ UNCHANGED <<state, rx, delivered>>

Init ==
    /\ state = "ESTABLISHED"
    /\ rx = [data |-> {}, nextRxSeq |-> 0, gotFin |-> FALSE, finSeq |-> 0,
             size |-> 0, availBytes |-> 0, maxBuffer |-> RcvBufSize, sackList |-> <<>>,
             dropped |-> FALSE]
    /\ edge = RcvBufSize
    /\ delivered = <<>> /\ answer = "nothing" /\ aborted = FALSE

Next ==
    \/ \E head \in 0..StreamLen, tail \in 0..StreamLen :
         \/ DiscardOutOfRange(head, tail)
         \/ ReceivedData(head, tail)
    \/ \E head \in 0..StreamLen : PeerClose(head) \/ FinWithDataInFinWait(head)
    \/ FinInWait \/ ShutdownSend
    \/ \E n \in 1..StreamLen : Recv(n)
    \/ \E size \in BufferSizes : SetRcvBufSize(size)
    \/ SendAck

Spec == Init /\ [][Next]_vars

\* The socket's delayed-ACK timer fires and the application reads.  What the
\* peer does is a hypothesis of the property below.
FairSpec == Spec /\ WF_vars(Recv(StreamLen)) /\ WF_vars(SendAck)

----------------------------------------------------------------------------
(***************************************************************************)
(* Properties.                                                             *)
(***************************************************************************)

Position == 0..(StreamLen + 1)
Chunk    == [first : Position, last : Position]

\* Type invariant of the buffer's members.
TypeOK ==
    /\ rx.data \subseteq Chunk /\ rx.sackList \in Seq(Chunk)
    /\ rx.nextRxSeq \in Position /\ rx.finSeq \in Position
    /\ rx.gotFin \in BOOLEAN /\ rx.dropped \in BOOLEAN
    /\ rx.size \in Nat /\ rx.availBytes \in Nat /\ rx.maxBuffer \in Nat
    /\ state \in {"ESTABLISHED", "CLOSE_WAIT", "FIN_WAIT", "TIME_WAIT"}
    /\ edge \in Nat /\ delivered \in Seq(Position)
    /\ answer \in {"ACK", "delayed", "nothing"} /\ aborted \in BOOLEAN

\* The counters of TcpRxBuffer agree with its contents whatever overlaps were
\* trimmed: the chunks are disjoint, m_size counts their bytes,
\* m_nextRxSeq is the first missing byte (in CLOSE_WAIT after a FIN recorded where
\* it is, one more), and m_availBytes counts the bytes in sequence not read.
Accounting ==
    LET read    == Len(delivered)
        missing == Min({rx.nextRxSeq, StreamLen})
    IN  /\ \A c \in rx.data : c.first < c.last
        /\ \A c, d \in rx.data : c = d \/ c.last <= d.first \/ d.last <= c.first
        /\ rx.size = Cardinality(Held(rx))
        /\ rx.availBytes = missing - read
        /\ read..(missing - 1) \subseteq Held(rx)
        /\ state = "CLOSE_WAIT" /\ rx.finSeq = StreamLen => rx.nextRxSeq = StreamLen + 1
        /\ missing \notin Held(rx) /\ \A b \in Held(rx) : b >= read

\* A window once offered is honoured.  Whenever the buffer is as large as it
\* ever was, also after it was smaller for a while, what is held does not
\* exceed it, the assertion of AdvertisedWindowSize has not failed, and every
\* missing byte the peer was allowed to send is in range and stored by Add.
OfferHonoured ==
    (\A size \in BufferSizes \cup {RcvBufSize} : rx.maxBuffer >= size) =>
        /\ rx.size <= rx.maxBuffer
        /\ ~aborted
        /\ \A byte \in (rx.nextRxSeq..(edge - 1)) \ Held(rx) :
             ~rx.gotFin => ~OutOfRange(rx, byte, byte + 1) /\ Add(rx, byte, byte + 1).stored

\* The SACK list tells the truth: every block is beyond the cumulative ACK,
\* held in full, and there are at most as many as fit the option.
SackTruthful ==
    /\ Len(rx.sackList) <= SackBlocks
    /\ \A b \in ToSet(rx.sackList) :
         b.first > rx.nextRxSeq /\ b.first < b.last /\ Bytes(b) \subseteq Held(rx)

\* Until a block did not fit, the SACK list is complete: every byte held
\* beyond the cumulative ACK is in a block.
SackComplete ==
    ~rx.dropped =>
        \A byte \in Held(rx) : byte > rx.nextRxSeq =>
            \E b \in ToSet(rx.sackList) : byte \in Bytes(b)

\* RFC 2018 rule (a), quoted in UpdateSackList: when a segment is stored out
\* of order the first block contains it.
SackNewestFirst ==
    [][\A c \in rx'.data \ rx.data :
            c.first > rx'.nextRxSeq => Bytes(c) \subseteq Bytes(Head(rx'.sackList))]_vars

\* While a gap is open the peer learns of every segment at once: what is stored
\* with bytes held beyond it is not left to the delayed ACK, however m_size and
\* m_availBytes came to their values (the first condition of ReceivedData).
GapReported ==
    [][rx'.data # rx.data /\ rx'.size > rx.size /\ rx'.sackList # <<>> => answer' = "ACK"]_vars

\* The buffer implements the byte stream the application sees.
Implemented == INSTANCE ByteStream WITH
    got <- Held(rx) \cup ToSet(delivered), eof <- Finished(rx)

\* Reassembly implements ByteStream: no accepted byte is lost or read twice.
StreamImplemented == Implemented!Spec

\* The segment with the FIN and the bytes from first on, in any state.
FinFrom(first) ==
    \/ PeerClose(first)
    \/ FinWithDataInFinWait(first)
    \/ first = StreamLen /\ FinInWait

\* The first missing byte, or the segment with the FIN, would be processed if
\* it arrived now.
DataDue(first) ==
    /\ Receiving /\ rx.nextRxSeq < first
    /\ Sent(rx.nextRxSeq, rx.nextRxSeq + 1)
    /\ ~OutOfRange(rx, rx.nextRxSeq, rx.nextRxSeq + 1)

FinDue(first) ==
    /\ ~aborted /\ FinSent(first)
    /\ state = "FIN_WAIT" \/ (state = "ESTABLISHED" /\ ~FinIgnored(first))

\* What SendDataPacket makes of the stream: bytes below first go out in
\* segments without a FIN, the last ones (or none) always with it; what stays
\* due arrives, because the network does not lose every copy.
PeerRetransmits(first) ==
    /\ []<>~DataDue(first) \/ []<><<ReceivedData(rx.nextRxSeq, rx.nextRxSeq + 1)>>_vars
    /\ []<>~FinDue(first) \/ []<><<FinFrom(first)>>_vars

\* A peer that keeps retransmitting is served, wherever its segment with the
\* FIN starts: the whole stream is delivered and the FIN reached, whatever
\* was buffered, trimmed or dropped before.  The one exception is the code's:
\* in ESTABLISHED, when a probe or an earlier segment without the FIN has moved
\* RCV.NXT past the segment's first byte, PeerClose drops it every time,
\* neither stored nor answered.
EventuallyDelivered ==
    \A first \in (StreamLen - MaxSegment)..StreamLen :
        PeerRetransmits(first) =>
            \/ <>(Finished(rx) /\ Len(delivered) = StreamLen)
            \/ <>[](state = "ESTABLISHED" /\ first < StreamLen /\ rx.nextRxSeq > first)
=============================================================================
