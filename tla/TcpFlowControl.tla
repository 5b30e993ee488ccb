--------------------------- MODULE TcpFlowControl ---------------------------
(***************************************************************************)
(* A sender and a receiver of TcpSocketBase around the offered window: the *)
(* receive buffer that fills while the application is slow, the window in  *)
(* the ACKs, the persist timer and its probes, silly window avoidance,     *)
(* Nagle's algorithm, the retransmission timer.  Bytes are numbered from   *)
(* 0.  Data is in order and not lost; ACKs and probes may be lost.  Every  *)
(* segment is acknowledged at once (TcpDelayedAck is about delayed ACKs),  *)
(* and there is no pacing, as by default.                                  *)
(***************************************************************************)
EXTENDS Integers, Sequences

CONSTANTS
    Total,        \* bound: bytes the sending application writes
    Write,        \* bytes of one call of Send
    SegSize,      \* m_segmentSize
    BufSize,      \* m_maxBuffer of the receiver
    NoDelays,     \* values of m_noDelay a socket may have: TRUE disables Nagle's algorithm
    PartialReads, \* the receiving application may read less than there is
    MaxLoss       \* bound: ACKs and probes lost (at most m_dataRetries)

ASSUME FlowAssumption ==
    /\ Total \in Nat /\ Write \in Nat \ {0} /\ SegSize \in Nat \ {0} /\ BufSize \in Nat \ {0}
    /\ NoDelays \subseteq BOOLEAN /\ PartialReads \in BOOLEAN /\ MaxLoss \in Nat

VARIABLES
    snd,     \* the sending socket
    rcv,     \* the receiving socket
    data,    \* segments in the network
    acks,    \* ACKs in the network
    losses   \* how many were lost

vars == <<snd, rcv, data, acks, losses>>

MinOf(a, b) == IF a < b THEN a ELSE b
MaxOf(a, b) == IF a > b THEN a ELSE b

----------------------------------------------------------------------------
(***************************************************************************)
(* The sender.  una is HeadSequence, highTx the end of the sent list and   *)
(* m_highTxMark, wrote the end of the transmit buffer.  lost says that a   *)
(* timeout has marked the sent list, resent how much of it went out again; *)
(* sending that the loop of SendPendingData is running, which nothing else *)
(* of the sender interrupts.                                               *)
(***************************************************************************)

NewSender(noDelay) ==
    [noDelay |-> noDelay, wrote |-> 0, una |-> 0, highTx |-> 0, nextTx |-> 0, rWnd |-> BufSize, highRxAck |-> 0,
     cWnd |-> BufSize + SegSize, lost |-> FALSE, resent |-> 0, retx |-> FALSE,
     persist |-> FALSE, sending |-> FALSE, crashed |-> FALSE]

BytesInFlight(s) == IF s.lost THEN s.resent ELSE s.highTx - s.una

\* NextSeg: what the timeout marked as lost, else new data up to the edge of the
\* offered window; a piece of length 0 is none.
NextSeg(s) ==
    IF s.lost /\ s.una + s.resent < s.highTx
    THEN [seq |-> s.una + s.resent, len |-> MinOf(SegSize, s.highTx - s.una - s.resent)]
    ELSE [seq |-> s.highTx,
          len |-> MaxOf(0, MinOf(MinOf(SegSize, s.wrote - s.highTx),
                                 s.rWnd - (s.highTx - s.una)))]

\* What min(rWnd, cWnd) leaves beside the bytes in flight.
AvailableWindow(s) == MaxOf(0, MinOf(s.rWnd, s.cWnd) - BytesInFlight(s))

\* Nagle's algorithm, for a piece at seq, sent before or not: it is smaller than a
\* segment and something is unacknowledged.
NagleWaits(s, seq) == ~s.noDelay /\ s.highTx > s.una /\ s.wrote - seq < SegSize

\* The loop of SendPendingData goes on: there is window, there is something to
\* send, and it is not a piece that silly window avoidance or Nagle holds back.
MaySend(s) ==
    LET win == AvailableWindow(s)
    IN  /\ win > 0
        /\ NextSeg(s).len > 0
        /\ ~ (win < SegSize /\ s.wrote - NextSeg(s).seq > win)
        /\ ~ NagleWaits(s, NextSeg(s).seq)

SendPendingData(s) == [s EXCEPT !.sending = TRUE]

\* The window of an ACK counts if it acknowledges more, or as much and is larger.
UpdateWindowSize(s, a) ==
    IF a.ack > s.highRxAck \/ (a.ack = s.highRxAck /\ a.wnd > s.rWnd)
    THEN [s EXCEPT !.rWnd = a.wnd, !.highRxAck = a.ack] ELSE s

\* Mutant: the persist timer is not started.
EnterPersistNever(s) == s

\* DoForwardUp on a closed window: the retransmission timer gives way.
EnterPersist(s) ==
    IF s.rWnd = 0 /\ ~s.persist THEN [s EXCEPT !.persist = TRUE, !.retx = FALSE] ELSE s

\* Mutant: what was sent again is still counted after it was acknowledged.
NewAckResentKept(s, a, cWnd) ==
    [s EXCEPT !.una = a.ack, !.nextTx = MaxOf(@, a.ack), !.retx = s.wrote > a.ack,
              !.cWnd = cWnd]

\* ProcessEstablished, ReceivedAck and NewAck.  An ACK beyond highTx, which a probe
\* byte that was accepted causes, is dropped.  NewAck restarts the retransmission
\* timer while anything is in the transmit buffer, in the persist state as well.
\* The congestion window after it is at least one segment.
NewAck(s, a, cWnd) ==
    [s EXCEPT !.una = a.ack, !.nextTx = MaxOf(@, a.ack), !.retx = s.wrote > a.ack,
              !.lost = FALSE, !.resent = 0, !.cWnd = cWnd]

ProcessEstablished(s, a, cWnd) ==
    IF a.ack < s.una \/ a.ack > s.highTx THEN s
    ELSE SendPendingData(IF a.ack > s.una THEN NewAck(s, a, cWnd) ELSE s)

\* Mutant: the end of the persist state does not send.
LeavePersistSilent(s) == [s EXCEPT !.persist = @ /\ s.rWnd = 0]

\* The end of DoForwardUp: the window is open again.
LeavePersist(s) ==
    IF s.rWnd # 0 /\ s.persist THEN SendPendingData([s EXCEPT !.persist = FALSE]) ELSE s

----------------------------------------------------------------------------
(***************************************************************************)
(* The receiver.  Bytes up to next have arrived, up to read were read.     *)
(***************************************************************************)

MaxRxSequence(r) == r.read + BufSize

\* Mutant: the window is the whole buffer, whatever is unread.
AckWholeBuffer(r) == [ack |-> r.next, wnd |-> BufSize]

\* An ACK and the window of AdvertisedWindowSize.
Ack(r) == [ack |-> r.next, wnd |-> MaxRxSequence(r) - r.next]

OutOfRange(r, d) == d.seq + d.len < r.next \/ MaxRxSequence(r) <= d.seq

\* IsValidTcpSegment and ReceivedData: what is new and fits is kept.
Arrives(r, d) ==
    IF OutOfRange(r, d) THEN r
    ELSE [r EXCEPT !.next = MaxOf(@, MinOf(d.seq + d.len, MaxRxSequence(r)))]

\* How much the application may read when it reads.
Reads(r) == IF PartialReads THEN 1..(r.next - r.read) ELSE {r.next - r.read} \ {0}

----------------------------------------------------------------------------
(***************************************************************************)
(* The specification.                                                      *)
(***************************************************************************)

Init ==
    /\ snd \in {NewSender(noDelay) : noDelay \in NoDelays}
    /\ rcv = [next |-> 0, read |-> 0]
    /\ data = <<>> /\ acks = <<>> /\ losses = 0

Idle == ~snd.crashed /\ ~snd.sending

\* One turn of the loop in SendPendingData: SendDataPacket arms the timer.
SendDataPacket ==
    /\ snd.sending /\ MaySend(snd)
    /\ LET p == NextSeg(snd)
           n == MinOf(AvailableWindow(snd), p.len)
       IN  /\ snd' = [snd EXCEPT !.nextTx = p.seq + n, !.highTx = MaxOf(@, p.seq + n),
                                 !.resent = IF p.seq < snd.highTx THEN @ + n ELSE @,
                                 !.retx = TRUE]
           /\ data' = Append(data, [seq |-> p.seq, len |-> n, probe |-> FALSE])
    /\ UNCHANGED <<rcv, acks, losses>>

StopSending ==
    /\ snd.sending /\ ~MaySend(snd)
    /\ snd' = [snd EXCEPT !.sending = FALSE]
    /\ UNCHANGED <<rcv, data, acks, losses>>

\* The application writes; the event that sends comes one time step later.
Send ==
    /\ Idle /\ snd.wrote < Total
    /\ snd' = SendPendingData([snd EXCEPT !.wrote = MinOf(Total, @ + Write)])
    /\ UNCHANGED <<rcv, data, acks, losses>>

ReceiveAck ==
    /\ Idle /\ acks # <<>> /\ acks' = Tail(acks)
    /\ \E cWnd \in {SegSize, BufSize + SegSize} :
         snd' = LeavePersist(ProcessEstablished(
                   EnterPersist(UpdateWindowSize(snd, Head(acks))), Head(acks), cWnd))
    /\ UNCHANGED <<rcv, data, losses>>

Quiet == data = <<>> /\ acks = <<>> /\ ~snd.sending

\* The retransmission timer is longer than the round trip.
ReTxTimeout ==
    /\ Idle /\ snd.retx /\ Quiet
    /\ snd' = SendPendingData([snd EXCEPT !.retx = FALSE, !.cWnd = SegSize,
                                          !.lost = snd.highTx > snd.una, !.resent = 0])
    /\ UNCHANGED <<rcv, data, acks, losses>>

\* Mutant: every probe takes the next byte.
PersistTimeoutAdvance ==
    /\ Idle /\ snd.persist /\ Quiet /\ snd.nextTx < snd.wrote
    /\ data' = Append(data, [seq |-> snd.nextTx, len |-> 1, probe |-> TRUE])
    /\ snd' = [snd EXCEPT !.nextTx = @ + 1]
    /\ UNCHANGED <<rcv, acks, losses>>

\* The persist timer is longer than the round trip, too.  The byte at nextTx is
\* sent, and stays unsent for the transmit buffer.  If there is
\* none, CopyFromSequence returns no item and the timeout dereferences it.
PersistTimeout ==
    /\ Idle /\ snd.persist /\ Quiet
    /\ IF snd.nextTx < snd.wrote
       THEN /\ data' = Append(data, [seq |-> snd.nextTx, len |-> 1, probe |-> TRUE])
            /\ UNCHANGED snd
       ELSE /\ snd' = [snd EXCEPT !.crashed = TRUE]
            /\ UNCHANGED data
    /\ UNCHANGED <<rcv, acks, losses>>

\* A segment arrives; the application may read in NotifyDataRecv, before the ACK.
ReceiveData ==
    /\ data # <<>> /\ data' = Tail(data)
    /\ LET got == Arrives(rcv, Head(data))
       IN  \E n \in {0} \cup (IF got.next > rcv.next THEN Reads(got) ELSE {}) :
             /\ rcv' = [got EXCEPT !.read = @ + n]
             /\ acks' = Append(acks, Ack(rcv'))
    /\ UNCHANGED <<snd, losses>>

\* The application reads later.  No ACK tells the sender.
Recv ==
    /\ \E n \in Reads(rcv) : rcv' = [rcv EXCEPT !.read = @ + n]
    /\ UNCHANGED <<snd, data, acks, losses>>

Lose ==
    /\ losses < MaxLoss /\ losses' = losses + 1
    /\ \/ acks # <<>> /\ acks' = Tail(acks) /\ UNCHANGED data
       \/ data # <<>> /\ Head(data).probe /\ data' = Tail(data) /\ UNCHANGED acks
    /\ UNCHANGED <<snd, rcv>>

Next ==
    \/ Send \/ SendDataPacket \/ StopSending \/ ReceiveAck \/ ReTxTimeout \/ PersistTimeout
    \/ ReceiveData \/ Recv \/ Lose

Spec == Init /\ [][Next]_vars

\* Scheduled events run, what is not lost arrives, and the application reads.
FairSpec ==
    /\ Spec
    /\ WF_vars(Send) /\ WF_vars(SendDataPacket) /\ WF_vars(StopSending)
    /\ WF_vars(ReceiveAck) /\ WF_vars(ReceiveData) /\ WF_vars(Recv)
    /\ WF_vars(ReTxTimeout) /\ WF_vars(PersistTimeout)

----------------------------------------------------------------------------
(***************************************************************************)
(* Properties.                                                             *)
(***************************************************************************)

TypeOK ==
    /\ snd.wrote \in 0..Total /\ snd.una \in 0..snd.highTx /\ snd.highTx \in 0..snd.wrote
    /\ snd.nextTx \in snd.una..snd.wrote /\ snd.rWnd \in 0..BufSize
    /\ snd.highRxAck \in snd.una..Total /\ snd.resent \in 0..(snd.highTx - snd.una)
    /\ snd.retx \in BOOLEAN /\ snd.persist \in BOOLEAN /\ snd.sending \in BOOLEAN
    /\ snd.noDelay \in NoDelays /\ snd.lost \in BOOLEAN /\ snd.crashed \in BOOLEAN
    /\ rcv.next \in 0..Total /\ rcv.read \in 0..rcv.next /\ losses \in 0..MaxLoss

\* Whatever was read, probed and lost in between, data that the sender puts on the
\* network fits the receive buffer when it arrives: the sender's idea of the window
\* (m_rWnd counted from HeadSequence) never passes MaxRxSequence.
DataFits == \A i \in 1..Len(data) :
                data[i].probe \/ data[i].seq + data[i].len <= MaxRxSequence(rcv)

\* The probe byte that was accepted is ahead of the sender by one byte at most: the
\* receiver never has more than that of what the sender takes for unsent.  And a
\* probe is never a byte already sent, for which ResetLastSegmentSent would take a
\* segment in flight back into the unsent list.
ProbeAhead ==
    /\ rcv.next <= snd.highTx + 1
    /\ snd.persist /\ Quiet => snd.nextTx >= snd.highTx

\* The data is held back by silly window avoidance (the peer has offered less than
\* a segment, and there is more to send than fits into it), or by Nagle's algorithm,
\* which waits for the ACK of the very piece it does not send again.
HeldBack ==
    \/ 0 < snd.rWnd /\ snd.rWnd < SegSize /\ snd.wrote - snd.una > snd.rWnd
    \/ NagleWaits(snd, snd.una)

\* With data that waits and nothing in the network some timer runs.  The only states
\* without are those of silly window avoidance and of a tail that Nagle's algorithm
\* keeps from being sent again, against doc/tcp.rst:1733, "The sender has a timer to
\* periodically check the receiver's window": no lost ACK, no lost probe, no retransmission
\* timeout that fires in the persist state leaves an idle sender behind otherwise.
StuckOnlyHeldBack ==
    snd.una < snd.wrote /\ Quiet /\ ~snd.crashed => snd.retx \/ snd.persist \/ HeldBack

\* Every byte reaches the receiving application, though windows close, ACKs and
\* probes are lost, and Recv sends no window update; unless the sender stays held
\* back, or PersistTimeout finds nothing to probe with.
EventuallyRead == <>[](rcv.read = Total \/ HeldBack \/ snd.crashed)
=============================================================================
