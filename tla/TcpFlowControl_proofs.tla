----------------------- MODULE TcpFlowControl_proofs -----------------------
(***************************************************************************)
(* Proofs about TcpFlowControl, for every value of its constants: type     *)
(* correctness, data that always fits, probes one byte ahead at most, and  *)
(* the only two ways in which a sender can be left without a timer.        *)
(***************************************************************************)
EXTENDS TcpFlowControl, TLAPS

\* The congestion windows NewAck and ReTxTimeout may leave.
Windows == {SegSize, BufSize + SegSize}

SenderType ==
    [noDelay : BOOLEAN, wrote : Nat, una : Nat, highTx : Nat, nextTx : Nat, rWnd : Nat,
     highRxAck : Nat, cWnd : Windows, lost : BOOLEAN, resent : Nat,
     retx : BOOLEAN, persist : BOOLEAN, sending : BOOLEAN, crashed : BOOLEAN]

SegmentType == [seq : Nat, len : Nat, probe : BOOLEAN]
AckType == [ack : Nat, wnd : Nat]

Types ==
    /\ snd \in SenderType /\ rcv \in [next : Nat, read : Nat]
    /\ data \in Seq(SegmentType) /\ acks \in Seq(AckType) /\ losses \in 0..MaxLoss

\* The order of the sender's numbers, and of the receiver's.
Order ==
    /\ snd.noDelay \in NoDelays
    /\ snd.una <= snd.nextTx /\ snd.nextTx <= snd.highTx /\ snd.una <= snd.highTx
    /\ snd.highTx <= snd.wrote /\ snd.wrote <= Total
    /\ snd.una <= snd.highRxAck /\ snd.highRxAck <= snd.wrote
    /\ snd.resent <= snd.highTx - snd.una
    /\ rcv.read <= rcv.next /\ rcv.next <= snd.wrote /\ rcv.next <= snd.highTx + 1
    /\ rcv.next <= rcv.read + BufSize

\* Right edges of the offered window: what was sent is left of the edge the sender
\* knows, and that one is left of every edge under way and of the buffer's end.
Edges ==
    /\ snd.rWnd <= BufSize
    /\ snd.highTx <= snd.highRxAck + snd.rWnd
    /\ snd.highRxAck + snd.rWnd <= rcv.read + BufSize
    /\ \A i \in 1..Len(acks) :
         /\ acks[i].ack <= rcv.next /\ acks[i].wnd <= BufSize
         /\ snd.highRxAck + snd.rWnd <= acks[i].ack + acks[i].wnd
         /\ acks[i].ack + acks[i].wnd <= rcv.read + BufSize
         /\ \A j \in 1..Len(acks) :
              i <= j => acks[i].ack + acks[i].wnd <= acks[j].ack + acks[j].wnd

\* A probe is alone in the network, and so is the ACK that it causes.
Probes ==
    /\ \A i \in 1..Len(data) :
         /\ data[i].seq + data[i].len <= snd.wrote
         /\ ~data[i].probe => data[i].seq + data[i].len <= snd.highTx
         /\ data[i].probe => /\ data[i].seq + data[i].len <= snd.highTx + 1
                             /\ snd.persist /\ Len(data) = 1 /\ acks = <<>>
         /\ rcv.next > snd.highTx => data[i].probe
    /\ \A i \in 1..Len(acks) :
         acks[i].ack > snd.highTx => snd.persist /\ Len(acks) = 1 /\ data = <<>>
    /\ rcv.next > snd.highTx => snd.una = snd.highTx

\* The sender is in the persist state exactly while the window is closed, and then
\* everything sent is acknowledged.  Without a retransmission timer nothing is in
\* flight; without any timer it sends, has nothing to send, or is held back.
Timers ==
    /\ snd.persist <=> snd.rWnd = 0
    /\ snd.persist => snd.una = snd.highTx
    /\ snd.lost => snd.una < snd.highTx
    /\ ~snd.lost => snd.resent = 0
    /\ snd.crashed => ~snd.sending
    /\ ~snd.retx => snd.resent = 0 /\ (snd.lost \/ snd.una = snd.highTx)
    /\ ~snd.retx /\ ~snd.persist /\ ~snd.sending /\ ~snd.crashed =>
         snd.una = snd.wrote \/ HeldBack

IndInv == Types /\ Order /\ Edges /\ Probes /\ Timers

----------------------------------------------------------------------------
(* Sequences.                                                              *)

\* The rest of a sequence has its elements, moved down by one.
LEMMA TailFacts ==
    ASSUME NEW S, NEW s \in Seq(S), s # <<>>
    PROVE  /\ Tail(s) \in Seq(S) /\ Head(s) \in S /\ Head(s) = s[1]
           /\ Len(s) \in Nat \ {0} /\ Len(Tail(s)) = Len(s) - 1
           /\ \A i \in 1..Len(Tail(s)) : Tail(s)[i] = s[i + 1] /\ i + 1 \in 1..Len(s)
  OBVIOUS

\* Append adds one element and keeps the others.
LEMMA AppendFacts ==
    ASSUME NEW S, NEW s \in Seq(S), NEW x \in S
    PROVE  /\ Append(s, x) \in Seq(S) /\ Append(s, x) # <<>>
           /\ Len(s) \in Nat /\ Len(Append(s, x)) = Len(s) + 1
           /\ Append(s, x)[Len(s) + 1] = x
           /\ \A i \in 1..Len(s) : Append(s, x)[i] = s[i]
  OBVIOUS

\* The order of the naturals is transitive.
LEMMA AtMostTransitive == \A x, y, z \in Nat : x <= y /\ y <= z => x <= z
  OBVIOUS

----------------------------------------------------------------------------
(* The invariant holds initially.                                          *)

LEMMA InitInv == Init => IndInv
  <1> SUFFICES ASSUME Init PROVE IndInv
    OBVIOUS
  <1>1. PICK b \in NoDelays : snd = NewSender(b)
    BY DEF Init
  <1>2. data = <<>> /\ acks = <<>> /\ losses = 0 /\ rcv = [next |-> 0, read |-> 0]
    BY DEF Init
  <1>3. Types
    BY <1>1, <1>2, FlowAssumption
       DEF Types, NewSender, SenderType, Windows, SegmentType, AckType
  <1>4. Order /\ Edges /\ Probes
    BY <1>1, <1>2, FlowAssumption DEF Order, Edges, Probes, NewSender
  <1>5. Timers
    BY <1>1, <1>2, FlowAssumption DEF Timers, NewSender, HeldBack
  <1> QED  BY <1>3, <1>4, <1>5 DEF IndInv

----------------------------------------------------------------------------
(* The steps of the sender.                                                *)

\* The members of a sending socket, one by one.
Fields(s) ==
    /\ s.noDelay \in BOOLEAN /\ s.wrote \in Nat /\ s.una \in Nat /\ s.highTx \in Nat
    /\ s.nextTx \in Nat /\ s.rWnd \in Nat /\ s.highRxAck \in Nat /\ s.resent \in Nat
    /\ s.cWnd \in Nat /\ s.cWnd >= SegSize /\ s.lost \in BOOLEAN /\ s.retx \in BOOLEAN
    /\ s.persist \in BOOLEAN /\ s.sending \in BOOLEAN /\ s.crashed \in BOOLEAN

LEMMA SenderFields ==
    ASSUME NEW s \in SenderType
    PROVE  Fields(s)
  <1>1. s.cWnd \in Windows
    BY DEF SenderType
  <1>2. s.cWnd \in Nat /\ s.cWnd >= SegSize
    BY <1>1, FlowAssumption DEF Windows
  <1> QED  BY <1>2 DEF SenderType, Fields

\* The elements of the two queues, one by one.
LEMMA QueueFields ==
    ASSUME Types
    PROVE  /\ \A i \in 1..Len(data) : /\ data[i].seq \in Nat /\ data[i].len \in Nat
                                      /\ data[i].probe \in BOOLEAN
           /\ \A i \in 1..Len(acks) : acks[i].ack \in Nat /\ acks[i].wnd \in Nat
           /\ Len(data) \in Nat /\ Len(acks) \in Nat
           /\ rcv.next \in Nat /\ rcv.read \in Nat
  <1>1. \A i \in 1..Len(data) : data[i] \in SegmentType
    BY DEF Types
  <1>2. \A i \in 1..Len(acks) : acks[i] \in AckType
    BY DEF Types
  <1>3. Len(data) \in Nat /\ Len(acks) \in Nat /\ rcv.next \in Nat /\ rcv.read \in Nat
    BY DEF Types
  <1> QED  BY <1>1, <1>2, <1>3 DEF SegmentType, AckType

\* When the loop of SendPendingData may send, the window is open, and the piece is
\* one byte at least: an old one, or a new one inside the offered window.
LEMMA MaySendPiece ==
    ASSUME Types, Order, Timers, MaySend(snd),
           NEW n, n = MinOf(AvailableWindow(snd), NextSeg(snd).len)
    PROVE  /\ snd.rWnd > 0 /\ n \in Nat \ {0} /\ NextSeg(snd).seq \in Nat
           /\ \/ /\ snd.lost /\ NextSeg(snd).seq = snd.una + snd.resent
                 /\ NextSeg(snd).seq + n <= snd.highTx /\ NextSeg(snd).seq < snd.highTx
              \/ /\ NextSeg(snd).seq = snd.highTx
                 /\ snd.highTx + n <= snd.wrote /\ snd.highTx + n <= snd.una + snd.rWnd
  <1> USE FlowAssumption
  <1>1. Fields(snd)
    BY SenderFields DEF Types
  <1>2. snd.rWnd > 0 /\ AvailableWindow(snd) \in Nat \ {0}
    BY <1>1 DEF Fields, MaySend, AvailableWindow, BytesInFlight, MinOf, MaxOf, Order
  <1>3. NextSeg(snd).len \in Nat \ {0} /\ NextSeg(snd).seq \in Nat
    BY <1>1 DEF Fields, MaySend, NextSeg, MinOf, MaxOf, Order
  <1>4. n \in Nat \ {0} /\ n <= NextSeg(snd).len
    BY <1>2, <1>3 DEF MinOf
  <1>5. CASE snd.lost /\ snd.una + snd.resent < snd.highTx
    <2>1. NextSeg(snd).seq = snd.una + snd.resent
          /\ NextSeg(snd).len <= snd.highTx - snd.una - snd.resent
      BY <1>1, <1>5 DEF Fields, NextSeg, MinOf
    <2> QED  BY <1>1, <1>2, <1>3, <1>4, <1>5, <2>1 DEF Fields
  <1>6. CASE ~(snd.lost /\ snd.una + snd.resent < snd.highTx)
    <2>1. NextSeg(snd).seq = snd.highTx
          /\ NextSeg(snd).len = MaxOf(0, MinOf(MinOf(SegSize, snd.wrote - snd.highTx),
                                               snd.rWnd - (snd.highTx - snd.una)))
      BY <1>6 DEF NextSeg
    <2>2. NextSeg(snd).len <= snd.wrote - snd.highTx
          /\ NextSeg(snd).len <= snd.rWnd - (snd.highTx - snd.una)
      BY <1>1, <1>3, <2>1 DEF Fields, MinOf, MaxOf
    <2> QED  BY <1>1, <1>2, <1>3, <1>4, <2>1, <2>2 DEF Fields
  <1> QED  BY <1>5, <1>6

\* A turn of the loop in SendPendingData keeps the invariant.
LEMMA SendDataPacketInv == IndInv /\ SendDataPacket => IndInv'
  <1> SUFFICES ASSUME IndInv, SendDataPacket PROVE IndInv'
    OBVIOUS
  <1> USE FlowAssumption
  <1>0. Types /\ Order /\ Edges /\ Probes /\ Timers
    BY DEF IndInv
  <1>1. PICK q, n : /\ q = NextSeg(snd).seq /\ n = MinOf(AvailableWindow(snd), NextSeg(snd).len)
                    /\ snd.sending /\ MaySend(snd)
                    /\ UNCHANGED <<rcv, acks, losses>>
                    /\ snd' = [snd EXCEPT !.nextTx = q + n, !.highTx = MaxOf(@, q + n),
                                          !.resent = IF q < snd.highTx THEN @ + n ELSE @,
                                          !.retx = TRUE]
                    /\ data' = Append(data, [seq |-> q, len |-> n, probe |-> FALSE])
    BY Zenon DEF SendDataPacket
  <1>2. /\ snd.rWnd > 0 /\ n \in Nat \ {0} /\ q \in Nat
        /\ \/ snd.lost /\ q = snd.una + snd.resent /\ q + n <= snd.highTx /\ q < snd.highTx
           \/ q = snd.highTx /\ q + n <= snd.wrote /\ q + n <= snd.una + snd.rWnd
    BY <1>0, <1>1, MaySendPiece
  <1>3. snd \in SenderType
    BY <1>0 DEF Types
  <1>4. /\ snd' \in SenderType
        /\ snd'.nextTx = q + n /\ snd'.highTx = MaxOf(snd.highTx, q + n) /\ snd'.retx
        /\ snd'.resent = IF q < snd.highTx THEN snd.resent + n ELSE snd.resent
        /\ snd'.noDelay = snd.noDelay /\ snd'.wrote = snd.wrote /\ snd'.una = snd.una
        /\ snd'.rWnd = snd.rWnd /\ snd'.highRxAck = snd.highRxAck /\ snd'.cWnd = snd.cWnd
        /\ snd'.lost = snd.lost /\ snd'.persist = snd.persist
        /\ snd'.sending = snd.sending /\ snd'.crashed = snd.crashed
    <2>1. snd' = [snd EXCEPT !.nextTx = q + n, !.highTx = MaxOf(@, q + n),
                             !.resent = IF q < snd.highTx THEN @ + n ELSE @, !.retx = TRUE]
      BY <1>1
    <2>2. q + n \in Nat /\ MaxOf(snd.highTx, q + n) \in Nat
          /\ (IF q < snd.highTx THEN snd.resent + n ELSE snd.resent) \in Nat
      BY <1>2, <1>3, SenderFields DEF Fields, MaxOf
    <2> QED  BY <1>3, <2>1, <2>2 DEF SenderType
  <1>f. Fields(snd) /\ Fields(snd')
    BY <1>3, <1>4, SenderFields
  <1>5. ~snd.persist /\ rcv' = rcv /\ acks' = acks /\ losses' = losses
        /\ rcv \in [next : Nat, read : Nat]
    BY <1>0, <1>1, <1>2 DEF Timers, Types
  <1>6. data' \in Seq(SegmentType) /\ Len(data') = Len(data) + 1 /\ Len(data) \in Nat
        /\ data'[Len(data) + 1] = [seq |-> q, len |-> n, probe |-> FALSE]
        /\ \A i \in 1..Len(data) : data'[i] = data[i]
    <2>1. [seq |-> q, len |-> n, probe |-> FALSE] \in SegmentType
      BY <1>2 DEF SegmentType
    <2>2. data' = Append(data, [seq |-> q, len |-> n, probe |-> FALSE])
      BY <1>1
    <2> QED  BY <1>0, <2>1, <2>2, AppendFacts DEF Types
  <1>7. Types'
    BY <1>0, <1>4, <1>5, <1>6 DEF Types
  <1>8. Order'
    BY <1>0, <1>2, <1>f, <1>4, <1>5 DEF Fields, Order, MaxOf, Timers
  <1>9. snd'.highTx <= snd'.highRxAck + snd'.rWnd
    <2>1. snd.highTx <= snd.highRxAck + snd.rWnd /\ snd.una <= snd.highRxAck
      BY <1>0 DEF Edges, Order
    <2> QED  BY <1>2, <1>4, <1>f, <2>1 DEF Fields, MaxOf
  <1>10. Edges'
    BY <1>0, <1>4, <1>5, <1>9 DEF Edges
  <1>11. Timers'
    BY <1>0, <1>2, <1>f, <1>4 DEF Fields, Order, MaxOf, Timers
  <1>12. Probes'
    <2>0. /\ snd.highTx \in Nat /\ snd'.highTx \in Nat /\ snd.wrote \in Nat
          /\ snd'.wrote = snd.wrote /\ rcv.next \in Nat
      BY <1>0, <1>f, <1>4, QueueFields DEF Fields
    <2>1. snd.highTx <= snd'.highTx /\ q + n <= snd'.highTx
      BY <1>2, <1>4, <2>0 DEF MaxOf
    <2>2. q + n <= snd.wrote
      BY <1>0, <1>2, <2>0 DEF Order
    <2>3. rcv.next <= snd'.highTx
      <3>1. CASE rcv.next > snd.highTx
        <4>1. snd.una = snd.highTx /\ rcv.next <= snd.highTx + 1
          BY <1>0, <3>1 DEF Probes, Order
        <4>2. ~snd.lost
          BY <1>0, <1>f, <4>1 DEF Timers, Fields
        <4> QED  BY <1>2, <2>0, <2>1, <4>1, <4>2
      <3> QED  BY <2>0, <2>1, <3>1
    <2>4. \A i \in 1..Len(data) : /\ ~data[i].probe
                                  /\ data[i].seq + data[i].len <= snd'.highTx
                                  /\ data[i].seq + data[i].len <= snd'.wrote
      <3>1. \A i \in 1..Len(data) : ~data[i].probe
        BY <1>0, <1>5 DEF Probes
      <3>2. \A i \in 1..Len(data) : /\ data[i].seq + data[i].len <= snd.highTx
                                    /\ data[i].seq + data[i].len <= snd.wrote
        BY <1>0, <3>1 DEF Probes
      <3> QED  BY <1>0, <2>0, <2>1, <3>1, <3>2, QueueFields
    <2>5. \A i \in 1..Len(data') : /\ ~data'[i].probe
                                   /\ data'[i].seq + data'[i].len <= snd'.highTx
                                   /\ data'[i].seq + data'[i].len <= snd'.wrote
      <3> SUFFICES ASSUME NEW i \in 1..Len(data')
                   PROVE  /\ ~data'[i].probe /\ data'[i].seq + data'[i].len <= snd'.highTx
                          /\ data'[i].seq + data'[i].len <= snd'.wrote
        OBVIOUS
      <3>1. CASE i \in 1..Len(data)
        BY <1>6, <2>4, <3>1
      <3>2. CASE i = Len(data) + 1
        BY <1>6, <2>0, <2>1, <2>2, <3>2
      <3> QED  BY <1>6, <3>1, <3>2
    <2>6. \A i \in 1..Len(acks) : ~(acks[i].ack > snd'.highTx)
      BY <1>0, <1>5, <2>0, <2>1, QueueFields DEF Probes
    <2>7. ~(rcv.next > snd'.highTx)
      BY <2>0, <2>3
    <2> QED  BY <1>5, <2>5, <2>6, <2>7 DEF Probes
  <1> QED  BY <1>7, <1>8, <1>10, <1>11, <1>12 DEF IndInv

\* A step that leaves the queues, the receiver and the sender's numbers alone, except
\* that more may be written and less be sent again, keeps all but Timers.
LEMMA SameNumbers ==
    ASSUME IndInv, UNCHANGED <<rcv, data, acks, losses>>, snd' \in SenderType,
           snd'.noDelay = snd.noDelay, snd'.una = snd.una, snd'.highTx = snd.highTx,
           snd'.nextTx = snd.nextTx, snd'.rWnd = snd.rWnd, snd'.highRxAck = snd.highRxAck,
           snd'.persist = snd.persist, snd'.resent \in {0, snd.resent},
           snd.wrote <= snd'.wrote, snd'.wrote <= Total
    PROVE  Types' /\ Order' /\ Edges' /\ Probes'
  <1> USE FlowAssumption
  <1>0. Types /\ Order /\ Edges /\ Probes /\ rcv' = rcv /\ data' = data /\ acks' = acks
        /\ losses' = losses
    BY DEF IndInv
  <1>1. /\ snd.wrote \in Nat /\ snd'.wrote \in Nat /\ snd.highTx \in Nat /\ snd.una \in Nat
        /\ snd.highRxAck \in Nat /\ snd.resent \in Nat /\ rcv.next \in Nat
    BY <1>0, SenderFields, QueueFields DEF Fields, Types
  <1>2. Types'
    BY <1>0 DEF Types
  <1>3. Order'
    BY <1>0, <1>1 DEF Order
  <1>4. Edges'
    BY <1>0 DEF Edges
  <1>5. Probes'
    <2>1. \A i \in 1..Len(data) : data[i].seq + data[i].len <= snd'.wrote
      <3>1. \A i \in 1..Len(data) : data[i].seq + data[i].len <= snd.wrote
        BY <1>0 DEF Probes
      <3>2. \A i \in 1..Len(data) : data[i].seq \in Nat /\ data[i].len \in Nat
        BY <1>0, QueueFields
      <3>3. snd.wrote \in Nat /\ snd'.wrote \in Nat /\ snd.wrote <= snd'.wrote
        BY <1>1
      <3> QED  BY <3>1, <3>2, <3>3
    <2> QED  BY <1>0, <2>1 DEF Probes
  <1> QED  BY <1>2, <1>3, <1>4, <1>5

\* The loop of SendPendingData ends without a timer only when there is nothing to
\* send or the data is held back.
LEMMA NothingToSend ==
    ASSUME IndInv, ~MaySend(snd), ~snd.retx, ~snd.persist
    PROVE  snd.una = snd.wrote \/ HeldBack
  <1> USE FlowAssumption
  <1>0. Types /\ Order /\ Timers /\ Fields(snd)
    BY SenderFields DEF IndInv, Types
  <1>1. /\ snd.una \in Nat /\ snd.highTx \in Nat /\ snd.wrote \in Nat /\ snd.rWnd \in Nat \ {0}
        /\ snd.cWnd \in Nat /\ snd.cWnd >= SegSize /\ snd.una <= snd.highTx
        /\ snd.highTx <= snd.wrote
    BY <1>0 DEF Fields, Order, Timers
  <1>2. snd.resent = 0 /\ BytesInFlight(snd) = 0
    BY <1>0, <1>1 DEF Timers, BytesInFlight
  <1>3. AvailableWindow(snd) = MinOf(snd.rWnd, snd.cWnd) /\ AvailableWindow(snd) > 0
    BY <1>1, <1>2 DEF AvailableWindow, MinOf, MaxOf
  <1>4. NextSeg(snd).seq = snd.una /\ (snd.una < snd.wrote => NextSeg(snd).len > 0)
    <2>1. CASE snd.lost
      <3>1. snd.una + snd.resent < snd.highTx
        BY <1>0, <1>1, <1>2, <2>1 DEF Timers
      <3>2. NextSeg(snd) = [seq |-> snd.una + snd.resent,
                            len |-> MinOf(SegSize, snd.highTx - snd.una - snd.resent)]
        BY <2>1, <3>1 DEF NextSeg
      <3> QED  BY <1>1, <1>2, <3>1, <3>2 DEF MinOf
    <2>2. CASE ~snd.lost
      <3>1. snd.una = snd.highTx
        BY <1>0, <2>2 DEF Timers
      <3>2. NextSeg(snd) = [seq |-> snd.highTx,
                            len |-> MaxOf(0, MinOf(MinOf(SegSize, snd.wrote - snd.highTx),
                                                   snd.rWnd - (snd.highTx - snd.una)))]
        BY <2>2 DEF NextSeg
      <3> QED  BY <1>1, <3>1, <3>2 DEF MinOf, MaxOf
    <2> QED  BY <2>1, <2>2
  <1>5. CASE snd.una < snd.wrote
    <2>1. \/ AvailableWindow(snd) < SegSize /\ snd.wrote - snd.una > AvailableWindow(snd)
          \/ NagleWaits(snd, snd.una)
      BY <1>3, <1>4, <1>5 DEF MaySend
    <2>2. AvailableWindow(snd) < SegSize => AvailableWindow(snd) = snd.rWnd
      BY <1>1, <1>3 DEF MinOf
    <2> QED  BY <1>1, <2>1, <2>2 DEF HeldBack
  <1> QED  BY <1>1, <1>5

\* The end of the loop keeps the invariant.
LEMMA StopSendingInv == IndInv /\ StopSending => IndInv'
  <1> SUFFICES ASSUME IndInv, StopSending PROVE IndInv'
    OBVIOUS
  <1>0. Types /\ Order /\ Timers /\ snd \in SenderType
    BY DEF IndInv, Types
  <1>1. snd.sending /\ ~MaySend(snd) /\ snd' = [snd EXCEPT !.sending = FALSE]
        /\ UNCHANGED <<rcv, data, acks, losses>>
    BY DEF StopSending
  <1>2. /\ snd' \in SenderType /\ snd'.sending = FALSE
        /\ snd'.noDelay = snd.noDelay /\ snd'.wrote = snd.wrote /\ snd'.una = snd.una
        /\ snd'.highTx = snd.highTx /\ snd'.nextTx = snd.nextTx /\ snd'.rWnd = snd.rWnd
        /\ snd'.highRxAck = snd.highRxAck /\ snd'.resent = snd.resent /\ snd'.retx = snd.retx
        /\ snd'.lost = snd.lost /\ snd'.persist = snd.persist /\ snd'.crashed = snd.crashed
    BY <1>0, <1>1 DEF SenderType
  <1>3. Types' /\ Order' /\ Edges' /\ Probes'
    <2>1. snd.wrote <= snd'.wrote /\ snd'.wrote <= Total
      BY <1>0, <1>2, SenderFields DEF Order, Fields
    <2> QED  BY <1>1, <1>2, <2>1, SameNumbers
  <1>4. Timers'
    <2>1. ~snd.retx /\ ~snd.persist => snd.una = snd.wrote \/ HeldBack
      BY <1>1, NothingToSend
    <2>2. HeldBack' = HeldBack
      BY <1>2 DEF HeldBack, NagleWaits
    <2> QED  BY <1>0, <1>2, <2>1, <2>2 DEF Timers
  <1> QED  BY <1>3, <1>4 DEF IndInv

\* Writing keeps the invariant: the loop of SendPendingData follows.
LEMMA SendInv == IndInv /\ Send => IndInv'
  <1> SUFFICES ASSUME IndInv, Send PROVE IndInv'
    OBVIOUS
  <1>0. Types /\ Order /\ Timers /\ snd \in SenderType
    BY DEF IndInv, Types
  <1>1. snd' = [snd EXCEPT !.wrote = MinOf(Total, snd.wrote + Write), !.sending = TRUE]
        /\ UNCHANGED <<rcv, data, acks, losses>> /\ ~snd.crashed
    BY <1>0 DEF Send, SendPendingData, Idle, SenderType
  <1>2. MinOf(Total, snd.wrote + Write) \in Nat /\ snd.wrote <= MinOf(Total, snd.wrote + Write)
        /\ MinOf(Total, snd.wrote + Write) <= Total
    BY <1>0, FlowAssumption, SenderFields DEF MinOf, Order, Fields
  <1>3. /\ snd' \in SenderType /\ snd'.sending = TRUE
        /\ snd'.wrote = MinOf(Total, snd.wrote + Write)
        /\ snd'.noDelay = snd.noDelay /\ snd'.una = snd.una
        /\ snd'.highTx = snd.highTx /\ snd'.nextTx = snd.nextTx /\ snd'.rWnd = snd.rWnd
        /\ snd'.highRxAck = snd.highRxAck /\ snd'.resent = snd.resent /\ snd'.retx = snd.retx
        /\ snd'.lost = snd.lost /\ snd'.persist = snd.persist /\ snd'.crashed = snd.crashed
    BY <1>0, <1>1, <1>2 DEF SenderType
  <1>4. Types' /\ Order' /\ Edges' /\ Probes'
    BY <1>1, <1>2, <1>3, SameNumbers
  <1>5. Timers'
    BY <1>0, <1>1, <1>3 DEF Timers
  <1> QED  BY <1>4, <1>5 DEF IndInv

\* The retransmission timeout keeps the invariant.
LEMMA ReTxTimeoutInv == IndInv /\ ReTxTimeout => IndInv'
  <1> SUFFICES ASSUME IndInv, ReTxTimeout PROVE IndInv'
    OBVIOUS
  <1>0. Types /\ Order /\ Timers /\ snd \in SenderType
    BY DEF IndInv, Types
  <1>1. snd' = [snd EXCEPT !.retx = FALSE, !.cWnd = SegSize, !.lost = snd.highTx > snd.una,
                           !.resent = 0, !.sending = TRUE]
        /\ UNCHANGED <<rcv, data, acks, losses>> /\ ~snd.crashed
    BY <1>0 DEF ReTxTimeout, SendPendingData, Idle, SenderType
  <1>2. (snd.highTx > snd.una) \in BOOLEAN
    OBVIOUS
  <1>3. /\ snd' \in SenderType /\ snd'.sending = TRUE /\ snd'.wrote = snd.wrote
        /\ snd'.noDelay = snd.noDelay /\ snd'.una = snd.una
        /\ snd'.highTx = snd.highTx /\ snd'.nextTx = snd.nextTx /\ snd'.rWnd = snd.rWnd
        /\ snd'.highRxAck = snd.highRxAck /\ snd'.resent = 0 /\ snd'.retx = FALSE
        /\ snd'.lost = (snd.highTx > snd.una) /\ snd'.persist = snd.persist
        /\ snd'.crashed = snd.crashed
    BY <1>0, <1>1, <1>2, FlowAssumption DEF SenderType, Windows
  <1>4. /\ snd.wrote \in Nat /\ snd.una \in Nat /\ snd.highTx \in Nat /\ snd.una <= snd.highTx
        /\ snd.wrote <= snd'.wrote /\ snd'.wrote <= Total
    BY <1>0, <1>3, SenderFields DEF Order, Fields
  <1>5. Types' /\ Order' /\ Edges' /\ Probes'
    BY <1>1, <1>3, <1>4, SameNumbers
  <1>6. Timers'
    <2>1. snd'.lost <=> snd.una < snd.highTx
      BY <1>3, <1>4
    <2>2. ~snd'.lost => snd.una = snd.highTx
      BY <1>4, <2>1
    <2>3. (snd.persist <=> snd.rWnd = 0) /\ (snd.persist => snd.una = snd.highTx)
      BY <1>0 DEF Timers
    <2> QED  BY <1>1, <1>3, <2>1, <2>2, <2>3 DEF Timers
  <1> QED  BY <1>5, <1>6 DEF IndInv

----------------------------------------------------------------------------
(* Arriving ACKs.                                                          *)

\* UpdateWindowSize: the new window and its ACK number, or nothing changes; an ACK
\* that is not above m_highRxAckMark changes nothing unless its window is larger.
LEMMA UpdateWindowSizeFields ==
    ASSUME NEW s \in SenderType, NEW a \in AckType, NEW t, t = UpdateWindowSize(s, a)
    PROVE  /\ t \in SenderType
           /\ t.noDelay = s.noDelay /\ t.wrote = s.wrote /\ t.una = s.una
           /\ t.highTx = s.highTx /\ t.nextTx = s.nextTx /\ t.cWnd = s.cWnd
           /\ t.lost = s.lost /\ t.resent = s.resent /\ t.retx = s.retx
           /\ t.persist = s.persist /\ t.sending = s.sending /\ t.crashed = s.crashed
           /\ \/ t.rWnd = s.rWnd /\ t.highRxAck = s.highRxAck /\ a.ack <= s.highRxAck
              \/ t.rWnd = a.wnd /\ t.highRxAck = a.ack /\ s.highRxAck <= a.ack
  <1>1. Fields(s) /\ a.ack \in Nat /\ a.wnd \in Nat
    BY SenderFields DEF AckType
  <1>2. CASE a.ack > s.highRxAck \/ (a.ack = s.highRxAck /\ a.wnd > s.rWnd)
    <2>1. t = [s EXCEPT !.rWnd = a.wnd, !.highRxAck = a.ack]
      BY <1>2 DEF UpdateWindowSize
    <2>2. s.highRxAck <= a.ack
      BY <1>1, <1>2 DEF Fields
    <2> QED  BY <1>1, <2>1, <2>2 DEF SenderType
  <1>3. CASE ~(a.ack > s.highRxAck \/ (a.ack = s.highRxAck /\ a.wnd > s.rWnd))
    <2>1. t = s
      BY <1>3 DEF UpdateWindowSize
    <2>2. a.ack <= s.highRxAck
      BY <1>1, <1>3 DEF Fields
    <2> QED  BY <2>1, <2>2
  <1> QED  BY <1>2, <1>3

\* EnterPersist: the timers change places.
LEMMA EnterPersistFields ==
    ASSUME NEW s \in SenderType, NEW t, t = EnterPersist(s)
    PROVE  /\ t \in SenderType
           /\ t.noDelay = s.noDelay /\ t.wrote = s.wrote /\ t.una = s.una
           /\ t.highTx = s.highTx /\ t.nextTx = s.nextTx /\ t.rWnd = s.rWnd
           /\ t.highRxAck = s.highRxAck /\ t.lost = s.lost /\ t.resent = s.resent
           /\ t.sending = s.sending /\ t.crashed = s.crashed
           /\ s.rWnd = 0 => t.persist
           /\ s.rWnd # 0 => t.persist = s.persist /\ t.retx = s.retx
           /\ s.persist => t.retx = s.retx
  <1>1. CASE s.rWnd = 0 /\ ~s.persist
    <2>1. t = [s EXCEPT !.persist = TRUE, !.retx = FALSE]
      BY <1>1 DEF EnterPersist
    <2> QED  BY <1>1, <2>1 DEF SenderType
  <1>2. CASE ~(s.rWnd = 0 /\ ~s.persist)
    <2>1. t = s
      BY <1>2 DEF EnterPersist
    <2> QED  BY <1>2, <2>1, SenderFields DEF Fields
  <1> QED  BY <1>1, <1>2

\* ProcessEstablished: an ACK outside of what was sent changes nothing, another one
\* starts SendPendingData, one of new data runs NewAck before.
Processed(s, a, t) ==
    /\ t \in SenderType
    /\ t.noDelay = s.noDelay /\ t.wrote = s.wrote /\ t.highTx = s.highTx
    /\ t.rWnd = s.rWnd /\ t.highRxAck = s.highRxAck
    /\ t.persist = s.persist /\ t.crashed = s.crashed
    /\ \/ a.ack < s.una \/ a.ack > s.highTx
       \/ a.ack >= s.una /\ a.ack <= s.highTx
    /\ a.ack < s.una \/ a.ack > s.highTx => t = s
    /\ a.ack >= s.una /\ a.ack <= s.highTx => t.sending
    /\ a.ack = s.una =>
         /\ t.una = s.una /\ t.nextTx = s.nextTx /\ t.lost = s.lost
         /\ t.resent = s.resent /\ t.retx = s.retx
    /\ a.ack > s.una /\ a.ack <= s.highTx =>
         /\ t.una = a.ack /\ t.nextTx = MaxOf(s.nextTx, a.ack)
         /\ t.lost = FALSE /\ t.resent = 0 /\ (t.retx <=> s.wrote > a.ack)

LEMMA ProcessEstablishedFields ==
    ASSUME NEW s \in SenderType, NEW a \in AckType,
           NEW cWnd \in Windows, NEW t,
           t = ProcessEstablished(s, a, cWnd)
    PROVE  Processed(s, a, t)
  <1>1. Fields(s) /\ a.ack \in Nat /\ a.wnd \in Nat
    BY SenderFields DEF AckType
  <1>2. CASE a.ack < s.una \/ a.ack > s.highTx
    <2>1. t = s
      BY <1>2 DEF ProcessEstablished
    <2> QED  BY <1>1, <1>2, <2>1 DEF Fields, Processed
  <1>3. CASE a.ack >= s.una /\ a.ack <= s.highTx /\ a.ack > s.una
    <2>0. PICK more \in BOOLEAN, next \in Nat :
            more = (s.wrote > a.ack) /\ next = MaxOf(s.nextTx, a.ack)
      <3>1. (s.wrote > a.ack) \in BOOLEAN
        OBVIOUS
      <3>2. MaxOf(s.nextTx, a.ack) \in Nat
        BY <1>1 DEF MaxOf, Fields
      <3> QED  BY <3>1, <3>2, Zenon
    <2>1. ~(a.ack < s.una) /\ ~(a.ack > s.highTx) /\ a.ack # s.una
      BY <1>1, <1>3 DEF Fields
    <2>2. t = [s EXCEPT !.una = a.ack, !.nextTx = next, !.retx = more, !.lost = FALSE,
                        !.resent = 0, !.cWnd = cWnd, !.sending = TRUE]
      BY <1>3, <2>0, <2>1 DEF ProcessEstablished, NewAck, SendPendingData, SenderType
    <2>4. /\ t \in SenderType
          /\ t.noDelay = s.noDelay /\ t.wrote = s.wrote /\ t.highTx = s.highTx
          /\ t.rWnd = s.rWnd /\ t.highRxAck = s.highRxAck
          /\ t.persist = s.persist /\ t.crashed = s.crashed /\ t.sending = TRUE
          /\ t.una = a.ack /\ t.nextTx = next
          /\ t.lost = FALSE /\ t.resent = 0 /\ t.retx = more
      <3>1. a.ack \in Nat
        BY <1>1
      <3>2. t \in SenderType
        <4>1. PICK u : u = [s EXCEPT !.una = a.ack, !.nextTx = next, !.retx = more,
                                     !.lost = FALSE]
          OBVIOUS
        <4>2. u \in SenderType
          BY <3>1, <4>1 DEF SenderType
        <4>3. PICK v : v = [u EXCEPT !.resent = 0, !.sending = TRUE]
          OBVIOUS
        <4>4. v \in SenderType
          BY <4>2, <4>3 DEF SenderType
        <4>5. t = [v EXCEPT !.cWnd = cWnd]
          BY <2>2, <4>1, <4>3
        <4> QED  BY <4>4, <4>5 DEF SenderType
      <3> QED  BY <2>2, <3>1, <3>2 DEF SenderType
    <2> QED  BY <1>3, <2>0, <2>1, <2>4 DEF Processed
  <1>4. CASE a.ack = s.una /\ a.ack <= s.highTx
    <2>3. ~(a.ack < s.una) /\ ~(a.ack > s.highTx) /\ ~(a.ack > s.una) /\ a.ack >= s.una
      BY <1>1, <1>4 DEF Fields
    <2>1. t = [s EXCEPT !.sending = TRUE]
      BY <2>3 DEF ProcessEstablished, SendPendingData
    <2>4. /\ t \in SenderType
          /\ t.noDelay = s.noDelay /\ t.wrote = s.wrote /\ t.highTx = s.highTx
          /\ t.rWnd = s.rWnd /\ t.highRxAck = s.highRxAck
          /\ t.persist = s.persist /\ t.crashed = s.crashed /\ t.sending = TRUE
          /\ t.una = s.una /\ t.nextTx = s.nextTx /\ t.lost = s.lost
          /\ t.resent = s.resent /\ t.retx = s.retx
      BY <2>1 DEF SenderType
    <2> QED  BY <1>4, <2>3, <2>4 DEF Processed
  <1>5. \/ a.ack < s.una \/ a.ack > s.highTx
        \/ a.ack >= s.una /\ a.ack <= s.highTx /\ a.ack > s.una
        \/ a.ack = s.una /\ a.ack <= s.highTx
    BY <1>1 DEF Fields
  <1> QED  BY <1>2, <1>3, <1>4, <1>5

\* LeavePersist: an open window ends the persist state and starts SendPendingData.
LEMMA LeavePersistFields ==
    ASSUME NEW s \in SenderType, NEW t, t = LeavePersist(s)
    PROVE  /\ t \in SenderType
           /\ t.noDelay = s.noDelay /\ t.wrote = s.wrote /\ t.una = s.una
           /\ t.highTx = s.highTx /\ t.nextTx = s.nextTx /\ t.rWnd = s.rWnd
           /\ t.highRxAck = s.highRxAck /\ t.lost = s.lost /\ t.resent = s.resent
           /\ t.retx = s.retx /\ t.crashed = s.crashed
           /\ s.rWnd = 0 => t.persist = s.persist /\ t.sending = s.sending
           /\ s.rWnd # 0 => ~t.persist
           /\ s.rWnd # 0 /\ s.persist => t.sending
           /\ s.sending => t.sending
  <1>1. CASE s.rWnd # 0 /\ s.persist
    <2>1. t = [s EXCEPT !.persist = FALSE, !.sending = TRUE]
      BY <1>1 DEF LeavePersist, SendPendingData, SenderType
    <2> QED  BY <1>1, <2>1 DEF SenderType
  <1>2. CASE ~(s.rWnd # 0 /\ s.persist)
    <2>1. t = s
      BY <1>2 DEF LeavePersist
    <2> QED  BY <1>2, <2>1
  <1> QED  BY <1>1, <1>2

\* What the arrival of an ACK does to the sender, in terms of its members.
AckTaken(a) ==
    /\ a \in AckType /\ acks # <<>> /\ acks' = Tail(acks)
    /\ UNCHANGED <<rcv, data, losses>>
    /\ ~snd.sending /\ ~snd.crashed /\ snd' \in SenderType
    /\ snd'.noDelay = snd.noDelay /\ snd'.wrote = snd.wrote
    /\ snd'.highTx = snd.highTx /\ ~snd'.crashed
    /\ \/ /\ snd'.rWnd = snd.rWnd /\ snd'.highRxAck = snd.highRxAck
          /\ a.ack <= snd.highRxAck
       \/ /\ snd'.rWnd = a.wnd /\ snd'.highRxAck = a.ack /\ snd.highRxAck <= a.ack
    /\ snd'.persist <=> snd'.rWnd = 0
    /\ \/ /\ a.ack < snd.una \/ a.ack > snd.highTx
          /\ snd'.una = snd.una /\ snd'.nextTx = snd.nextTx /\ snd'.lost = snd.lost
          /\ snd'.resent = snd.resent
          /\ snd'.retx = snd.retx \/ (~snd.persist /\ snd'.rWnd = 0)
          /\ snd.persist /\ snd'.rWnd # 0 => snd'.sending
       \/ /\ a.ack = snd.una
          /\ snd'.una = snd.una /\ snd'.nextTx = snd.nextTx /\ snd'.lost = snd.lost
          /\ snd'.resent = snd.resent
          /\ snd'.retx = snd.retx \/ (~snd.persist /\ snd'.rWnd = 0)
          /\ snd'.sending
       \/ /\ a.ack > snd.una /\ a.ack <= snd.highTx
          /\ snd'.una = a.ack /\ snd'.nextTx = MaxOf(snd.nextTx, a.ack)
          /\ ~snd'.lost /\ snd'.resent = 0
          /\ snd'.retx <=> snd.wrote > a.ack
          /\ snd'.sending

LEMMA ReceiveAckFields ==
    ASSUME IndInv, ReceiveAck, NEW a, a = Head(acks)
    PROVE  AckTaken(a)
  <1>1. snd \in SenderType /\ Fields(snd) /\ Timers /\ Order
    BY SenderFields DEF IndInv, Types
  <1>2. acks # <<>> /\ acks' = Tail(acks) /\ UNCHANGED <<rcv, data, losses>>
        /\ ~snd.sending /\ ~snd.crashed
    BY DEF ReceiveAck, Idle
  <1>3. a \in AckType
    BY <1>2, TailFacts DEF IndInv, Types
  <1>4. PICK cWnd \in Windows :
          snd' = LeavePersist(ProcessEstablished(EnterPersist(UpdateWindowSize(snd, a)), a, cWnd))
    BY DEF ReceiveAck, Windows
  <1>5. PICK s1, s2, s3 :
          /\ s1 = UpdateWindowSize(snd, a) /\ s2 = EnterPersist(s1)
          /\ s3 = ProcessEstablished(s2, a, cWnd) /\ snd' = LeavePersist(s3)
    BY <1>4
  <1>6. /\ s1 \in SenderType
        /\ s1.noDelay = snd.noDelay /\ s1.wrote = snd.wrote /\ s1.una = snd.una
        /\ s1.highTx = snd.highTx /\ s1.nextTx = snd.nextTx /\ s1.cWnd = snd.cWnd
        /\ s1.lost = snd.lost /\ s1.resent = snd.resent /\ s1.retx = snd.retx
        /\ s1.persist = snd.persist /\ s1.sending = snd.sending /\ s1.crashed = snd.crashed
        /\ \/ s1.rWnd = snd.rWnd /\ s1.highRxAck = snd.highRxAck /\ a.ack <= snd.highRxAck
           \/ s1.rWnd = a.wnd /\ s1.highRxAck = a.ack /\ snd.highRxAck <= a.ack
    BY <1>1, <1>3, <1>5, UpdateWindowSizeFields
  <1>7. /\ s2 \in SenderType
        /\ s2.noDelay = s1.noDelay /\ s2.wrote = s1.wrote /\ s2.una = s1.una
        /\ s2.highTx = s1.highTx /\ s2.nextTx = s1.nextTx /\ s2.rWnd = s1.rWnd
        /\ s2.highRxAck = s1.highRxAck /\ s2.lost = s1.lost /\ s2.resent = s1.resent
        /\ s2.sending = s1.sending /\ s2.crashed = s1.crashed
        /\ s1.rWnd = 0 => s2.persist
        /\ s1.rWnd # 0 => s2.persist = s1.persist /\ s2.retx = s1.retx
        /\ s1.persist => s2.retx = s1.retx
    BY <1>5, <1>6, EnterPersistFields
  <1>p. Processed(s2, a, s3)
    BY <1>3, <1>5, <1>7, ProcessEstablishedFields
  <1>8. /\ s3 \in SenderType
        /\ s3.noDelay = s2.noDelay /\ s3.wrote = s2.wrote /\ s3.highTx = s2.highTx
        /\ s3.rWnd = s2.rWnd /\ s3.highRxAck = s2.highRxAck
        /\ s3.persist = s2.persist /\ s3.crashed = s2.crashed
        /\ \/ a.ack < s2.una \/ a.ack > s2.highTx
           \/ a.ack >= s2.una /\ a.ack <= s2.highTx
        /\ a.ack < s2.una \/ a.ack > s2.highTx => s3 = s2
        /\ a.ack >= s2.una /\ a.ack <= s2.highTx => s3.sending
        /\ a.ack = s2.una =>
             /\ s3.una = s2.una /\ s3.nextTx = s2.nextTx /\ s3.lost = s2.lost
             /\ s3.resent = s2.resent /\ s3.retx = s2.retx
        /\ a.ack > s2.una /\ a.ack <= s2.highTx =>
             /\ s3.una = a.ack /\ s3.nextTx = MaxOf(s2.nextTx, a.ack)
             /\ s3.lost = FALSE /\ s3.resent = 0 /\ (s3.retx <=> s2.wrote > a.ack)
    BY <1>p DEF Processed
  <1>9. /\ snd' \in SenderType
        /\ snd'.noDelay = s3.noDelay /\ snd'.wrote = s3.wrote /\ snd'.una = s3.una
        /\ snd'.highTx = s3.highTx /\ snd'.nextTx = s3.nextTx /\ snd'.rWnd = s3.rWnd
        /\ snd'.highRxAck = s3.highRxAck /\ snd'.lost = s3.lost /\ snd'.resent = s3.resent
        /\ snd'.retx = s3.retx /\ snd'.crashed = s3.crashed
        /\ s3.rWnd = 0 => snd'.persist = s3.persist /\ snd'.sending = s3.sending
        /\ s3.rWnd # 0 => ~snd'.persist
        /\ s3.rWnd # 0 /\ s3.persist => snd'.sending
        /\ s3.sending => snd'.sending
    BY <1>5, <1>8, LeavePersistFields
  <1>10. /\ snd'.noDelay = snd.noDelay /\ snd'.wrote = snd.wrote
         /\ snd'.highTx = snd.highTx /\ ~snd'.crashed
         /\ \/ /\ snd'.rWnd = snd.rWnd /\ snd'.highRxAck = snd.highRxAck
               /\ a.ack <= snd.highRxAck
            \/ /\ snd'.rWnd = a.wnd /\ snd'.highRxAck = a.ack /\ snd.highRxAck <= a.ack
    BY <1>2, <1>6, <1>7, <1>8, <1>9
  <1>11. snd'.persist <=> snd'.rWnd = 0
    BY <1>7, <1>8, <1>9
  <1>12. s2.retx = snd.retx \/ (~snd.persist /\ snd'.rWnd = 0)
    BY <1>6, <1>7, <1>8, <1>9
  <1>13. CASE a.ack < snd.una \/ a.ack > snd.highTx
    <2>1. s3 = s2
      BY <1>6, <1>7, <1>8, <1>13
    <2>2. snd.persist /\ snd'.rWnd # 0 => snd'.sending
      BY <1>6, <1>7, <1>8, <1>9
    <2> QED  BY <1>2, <1>3, <1>6, <1>7, <1>9, <1>10, <1>11, <1>12, <1>13, <2>1, <2>2 DEF AckTaken
  <1>14. CASE a.ack = snd.una /\ a.ack <= snd.highTx
    <2>1. a.ack >= s2.una /\ a.ack <= s2.highTx /\ a.ack = s2.una
      BY <1>1, <1>6, <1>7, <1>14 DEF Fields
    <2> QED  BY <1>2, <1>3, <1>6, <1>7, <1>8, <1>9, <1>10, <1>11, <1>12, <1>14, <2>1 DEF AckTaken
  <1>15. CASE a.ack > snd.una /\ a.ack <= snd.highTx
    <2>1. a.ack >= s2.una /\ a.ack <= s2.highTx /\ a.ack > s2.una
      BY <1>1, <1>3, <1>6, <1>7, <1>15 DEF Fields, AckType
    <2> QED  BY <1>2, <1>3, <1>6, <1>7, <1>8, <1>9, <1>10, <1>11, <1>15, <2>1 DEF AckTaken
  <1>16. \/ a.ack < snd.una \/ a.ack > snd.highTx
         \/ a.ack = snd.una /\ a.ack <= snd.highTx
         \/ a.ack > snd.una /\ a.ack <= snd.highTx
    BY <1>1, <1>3 DEF Fields, AckType
  <1> QED  BY <1>13, <1>14, <1>15, <1>16

\* The arrival of an ACK keeps the invariant.
LEMMA ReceiveAckInv == IndInv /\ ReceiveAck => IndInv'
  <1> SUFFICES ASSUME IndInv, ReceiveAck PROVE IndInv'
    OBVIOUS
  <1> USE FlowAssumption
  <1>0. Types /\ Order /\ Edges /\ Probes /\ Timers
    BY DEF IndInv
  <1>1. PICK a : a = Head(acks) /\ AckTaken(a)
    BY ReceiveAckFields
  <1>2. /\ a = acks[1] /\ Len(acks) \in Nat \ {0} /\ Len(acks') = Len(acks) - 1
        /\ acks' \in Seq(AckType) /\ acks # <<>>
        /\ \A i \in 1..Len(acks') : acks'[i] = acks[i + 1] /\ i + 1 \in 1..Len(acks)
    BY <1>0, <1>1, TailFacts DEF AckTaken, Types
  <1>3. rcv' = rcv /\ data' = data /\ losses' = losses /\ snd' \in SenderType
        /\ ~snd.sending /\ ~snd.crashed
        /\ snd'.noDelay = snd.noDelay /\ snd'.wrote = snd.wrote /\ snd'.highTx = snd.highTx
    BY <1>1 DEF AckTaken
  <1>4. /\ a.ack \in Nat /\ a.wnd \in Nat /\ rcv.next \in Nat /\ rcv.read \in Nat
        /\ snd.una \in Nat /\ snd.highTx \in Nat /\ snd.nextTx \in Nat /\ snd.wrote \in Nat
        /\ snd.rWnd \in Nat /\ snd.highRxAck \in Nat /\ snd.resent \in Nat
    <2>1. Fields(snd)
      BY <1>0, SenderFields DEF Types
    <2>2. a \in AckType
      BY <1>1 DEF AckTaken
    <2> QED  BY <1>0, <2>1, <2>2, QueueFields DEF Fields, AckType
  <1>5. /\ a.ack <= rcv.next /\ a.wnd <= BufSize
        /\ snd.highRxAck + snd.rWnd <= a.ack + a.wnd
        /\ a.ack + a.wnd <= rcv.read + BufSize
        /\ a.ack > snd.highTx => snd.persist /\ Len(acks) = 1 /\ data = <<>>
        /\ \A j \in 1..Len(acks) : a.ack + a.wnd <= acks[j].ack + acks[j].wnd
    <2>1. 1 \in 1..Len(acks)
      BY <1>2
    <2>2. \A j \in 1..Len(acks) : 1 <= j
      BY <1>2
    <2> QED  BY <1>0, <1>2, <2>1, <2>2 DEF Edges, Probes
  <1>6. \/ snd'.rWnd = snd.rWnd /\ snd'.highRxAck = snd.highRxAck /\ a.ack <= snd.highRxAck
        \/ snd'.rWnd = a.wnd /\ snd'.highRxAck = a.ack /\ snd.highRxAck <= a.ack
    BY <1>1 DEF AckTaken
  <1>7. \/ snd'.una = snd.una /\ snd'.nextTx = snd.nextTx /\ snd'.resent = snd.resent
        \/ /\ a.ack > snd.una /\ a.ack <= snd.highTx /\ snd'.una = a.ack
           /\ snd'.nextTx = MaxOf(snd.nextTx, a.ack) /\ snd'.resent = 0
    BY <1>1 DEF AckTaken
  <1>8. Types'
    BY <1>0, <1>2, <1>3 DEF Types
  <1>9. Order'
    <2>1. /\ snd.noDelay \in NoDelays
          /\ snd.una <= snd.nextTx /\ snd.nextTx <= snd.highTx /\ snd.una <= snd.highTx
          /\ snd.highTx <= snd.wrote /\ snd.wrote <= Total
          /\ snd.una <= snd.highRxAck /\ snd.highRxAck <= snd.wrote
          /\ snd.resent <= snd.highTx - snd.una
          /\ rcv.read <= rcv.next /\ rcv.next <= snd.wrote /\ rcv.next <= snd.highTx + 1
          /\ rcv.next <= rcv.read + BufSize /\ a.ack <= rcv.next
      BY <1>0, <1>5 DEF Order
    <2>2. snd'.una <= snd'.nextTx /\ snd'.nextTx <= snd.highTx /\ snd'.una <= snd.highTx
          /\ snd'.resent <= snd.highTx - snd'.una
      BY <1>4, <1>7, <2>1 DEF MaxOf
    <2>3. snd'.una <= snd'.highRxAck /\ snd'.highRxAck <= snd.wrote
      BY <1>4, <1>6, <1>7, <2>1
    <2> QED  BY <1>3, <2>1, <2>2, <2>3 DEF Order
  <1>10. Edges'
    <2>1. /\ snd'.rWnd <= BufSize /\ snd'.highTx <= snd'.highRxAck + snd'.rWnd
          /\ snd'.highRxAck + snd'.rWnd <= a.ack + a.wnd
          /\ snd'.highRxAck + snd'.rWnd <= rcv.read + BufSize
          /\ snd'.highRxAck + snd'.rWnd \in Nat
      <3>1. snd.rWnd <= BufSize /\ snd.highTx <= snd.highRxAck + snd.rWnd
        BY <1>0 DEF Edges
      <3>2. a.wnd <= BufSize /\ snd.highRxAck + snd.rWnd <= a.ack + a.wnd
            /\ a.ack + a.wnd <= rcv.read + BufSize
        BY <1>5
      <3>3. CASE snd'.rWnd = snd.rWnd /\ snd'.highRxAck = snd.highRxAck
        BY <1>3, <1>4, <3>1, <3>2, <3>3
      <3>4. CASE snd'.rWnd = a.wnd /\ snd'.highRxAck = a.ack
        BY <1>3, <1>4, <3>1, <3>2, <3>4
      <3> QED  BY <1>6, <3>3, <3>4
    <2>2. \A i \in 1..Len(acks) : /\ acks[i].ack \in Nat /\ acks[i].wnd \in Nat
                                  /\ snd'.highRxAck + snd'.rWnd <= acks[i].ack + acks[i].wnd
      <3>1. \A i \in 1..Len(acks) : acks[i].ack \in Nat /\ acks[i].wnd \in Nat
        BY <1>0, QueueFields
      <3>2. \A i \in 1..Len(acks) : a.ack + a.wnd <= acks[i].ack + acks[i].wnd
        BY <1>5
      <3>3. snd'.highRxAck \in Nat /\ snd'.rWnd \in Nat
        BY <1>4, <1>6
      <3>5. snd'.highRxAck + snd'.rWnd \in Nat /\ a.ack + a.wnd \in Nat
        BY <1>4, <3>3
      <3>6. snd'.highRxAck + snd'.rWnd <= a.ack + a.wnd
        BY <2>1
      <3>7. \A i \in 1..Len(acks) : acks[i].ack + acks[i].wnd \in Nat
        BY <3>1
      <3> QED  BY <3>1, <3>2, <3>5, <3>6, <3>7, AtMostTransitive
    <2>3. \A i \in 1..Len(acks') :
            /\ acks'[i].ack <= rcv.next /\ acks'[i].wnd <= BufSize
            /\ snd'.highRxAck + snd'.rWnd <= acks'[i].ack + acks'[i].wnd
            /\ acks'[i].ack + acks'[i].wnd <= rcv.read + BufSize
      BY <1>0, <1>2, <2>2 DEF Edges
    <2>4. \A i, j \in 1..Len(acks') :
            i <= j => acks'[i].ack + acks'[i].wnd <= acks'[j].ack + acks'[j].wnd
      <3> SUFFICES ASSUME NEW i \in 1..Len(acks'), NEW j \in 1..Len(acks'), i <= j
                   PROVE  acks'[i].ack + acks'[i].wnd <= acks'[j].ack + acks'[j].wnd
        OBVIOUS
      <3>1. i + 1 \in 1..Len(acks) /\ j + 1 \in 1..Len(acks) /\ i + 1 <= j + 1
        BY <1>2
      <3>2. acks[i + 1].ack + acks[i + 1].wnd <= acks[j + 1].ack + acks[j + 1].wnd
        BY <1>0, <3>1 DEF Edges
      <3> QED  BY <1>2, <3>2
    <2> QED  BY <1>3, <2>1, <2>3, <2>4 DEF Edges
  <1>11. Probes'
    <2>1. \A i \in 1..Len(data) : ~data[i].probe
      BY <1>0, <1>2 DEF Probes
    <2>2. \A i \in 1..Len(acks') : ~(acks'[i].ack > snd.highTx)
      <3> SUFFICES ASSUME NEW i \in 1..Len(acks'), acks'[i].ack > snd.highTx PROVE FALSE
        OBVIOUS
      <3>1. i + 1 \in 1..Len(acks) /\ acks[i + 1].ack > snd.highTx
        BY <1>2
      <3>2. Len(acks) = 1
        BY <1>0, <3>1 DEF Probes
      <3> QED  BY <1>2, <3>2
    <2>3. rcv.next > snd.highTx => snd'.una = snd.highTx
      <3>1. rcv.next > snd.highTx => snd.una = snd.highTx
        BY <1>0 DEF Probes
      <3> QED  BY <1>4, <1>7, <3>1
    <2>4. \A i \in 1..Len(data) : /\ data[i].seq + data[i].len <= snd.wrote
                                  /\ data[i].seq + data[i].len <= snd.highTx
                                  /\ ~(rcv.next > snd.highTx)
      BY <1>0, <2>1 DEF Probes
    <2> QED  BY <1>3, <2>1, <2>2, <2>3, <2>4 DEF Probes
  <1>12. Timers'
    <2>1. /\ snd.persist <=> snd.rWnd = 0
          /\ snd.persist => snd.una = snd.highTx
          /\ snd.lost => snd.una < snd.highTx
          /\ ~snd.lost => snd.resent = 0
          /\ ~snd.retx => snd.resent = 0 /\ (snd.lost \/ snd.una = snd.highTx)
          /\ ~snd.retx /\ ~snd.persist => snd.una = snd.wrote \/ HeldBack
      BY <1>0, <1>3 DEF Timers
    <2>2. (snd'.persist <=> snd'.rWnd = 0) /\ ~snd'.crashed
      BY <1>1 DEF AckTaken
    <2>3. snd'.persist => snd'.una = snd.highTx
      <3>1. CASE snd.persist
        BY <1>4, <1>7, <2>1, <3>1
      <3>2. CASE ~snd.persist /\ snd'.persist
        <4>1. a.wnd = 0 /\ ~(a.ack > snd.highTx) /\ snd.highTx <= snd.highRxAck + snd.rWnd
          BY <1>0, <1>5, <1>6, <2>1, <2>2, <3>2 DEF Edges
        <4>2. a.ack = snd.highTx
          BY <1>4, <1>5, <4>1
        <4>3. snd.una <= snd.highTx
          BY <1>0 DEF Order
        <4>4. snd'.una = a.ack \/ (snd'.una = snd.una /\ a.ack <= snd.una)
              \/ a.ack > snd.highTx
          BY <1>1, <1>4 DEF AckTaken
        <4> QED  BY <1>4, <4>2, <4>3, <4>4
      <3> QED  BY <3>1, <3>2
    <2>4. /\ snd'.lost => snd'.una < snd.highTx
          /\ ~snd'.lost => snd'.resent = 0
      BY <1>1, <2>1 DEF AckTaken
    <2>5. ~snd'.retx => snd'.resent = 0 /\ (snd'.lost \/ snd'.una = snd.highTx)
      <3>1. CASE snd'.retx = snd.retx /\ snd'.una = snd.una /\ snd'.lost = snd.lost
                 /\ snd'.resent = snd.resent
        BY <2>1, <3>1
      <3>2. CASE snd'.rWnd = 0
        <4>1. snd'.una = snd.highTx /\ ~(snd'.una < snd.highTx)
          BY <1>4, <2>2, <2>3, <3>2
        <4> QED  BY <2>4, <4>1
      <3>3. CASE /\ a.ack > snd.una /\ a.ack <= snd.highTx /\ snd'.una = a.ack
                 /\ snd'.resent = 0 /\ (snd'.retx <=> snd.wrote > a.ack)
        <4>1. snd.highTx <= snd.wrote
          BY <1>0 DEF Order
        <4> QED  BY <1>4, <3>3, <4>1
      <3> QED  BY <1>1, <3>1, <3>2, <3>3 DEF AckTaken
    <2>6. ~snd'.retx /\ ~snd'.persist /\ ~snd'.sending => snd'.una = snd.wrote \/ HeldBack'
      <3> SUFFICES ASSUME ~snd'.retx, ~snd'.persist, ~snd'.sending
                   PROVE  snd'.una = snd.wrote \/ HeldBack'
        OBVIOUS
      <3>1. /\ a.ack < snd.una \/ a.ack > snd.highTx
            /\ snd'.una = snd.una
            /\ snd'.retx = snd.retx \/ (~snd.persist /\ snd'.rWnd = 0)
            /\ snd.persist /\ snd'.rWnd # 0 => snd'.sending
        BY <1>1 DEF AckTaken
      <3>2. ~snd.persist /\ ~snd.retx
        BY <2>2, <3>1
      <3>3. a.ack < snd.una
        BY <1>5, <3>1, <3>2
      <3>4. snd'.rWnd = snd.rWnd
        <4>1. snd.una <= snd.highRxAck
          BY <1>0 DEF Order
        <4> QED  BY <1>4, <1>6, <3>3, <4>1
      <3>5. HeldBack' = HeldBack
        BY <1>3, <3>1, <3>4 DEF HeldBack, NagleWaits
      <3> QED  BY <2>1, <3>1, <3>2, <3>5
    <2> QED  BY <1>3, <2>2, <2>3, <2>4, <2>5, <2>6 DEF Timers
  <1> QED  BY <1>8, <1>9, <1>10, <1>11, <1>12 DEF IndInv

\* The persist timeout keeps the invariant: the probe is the first unsent byte, and
\* alone in the network.
LEMMA PersistTimeoutInv == IndInv /\ PersistTimeout => IndInv'
  <1> SUFFICES ASSUME IndInv, PersistTimeout PROVE IndInv'
    OBVIOUS
  <1>0. Types /\ Order /\ Edges /\ Probes /\ Timers /\ snd \in SenderType
    BY DEF IndInv, Types
  <1>1. /\ snd.persist /\ ~snd.sending /\ ~snd.crashed /\ data = <<>> /\ acks = <<>>
        /\ rcv' = rcv /\ acks' = acks /\ losses' = losses
    BY DEF PersistTimeout, Idle, Quiet
  <1>2. /\ snd.una \in Nat /\ snd.highTx \in Nat /\ snd.nextTx \in Nat /\ snd.wrote \in Nat
        /\ snd.nextTx = snd.highTx /\ snd.una = snd.highTx /\ snd.wrote <= Total
    <2>1. snd.una = snd.highTx /\ snd.una <= snd.nextTx /\ snd.nextTx <= snd.highTx
          /\ snd.wrote <= Total
      BY <1>0, <1>1 DEF Timers, Order
    <2> QED  BY <1>0, <2>1, SenderFields DEF Fields
  <1>3. CASE snd.nextTx < snd.wrote
    <2>1. data' = Append(data, [seq |-> snd.nextTx, len |-> 1, probe |-> TRUE]) /\ snd' = snd
      BY <1>3 DEF PersistTimeout
    <2>2. [seq |-> snd.nextTx, len |-> 1, probe |-> TRUE] \in SegmentType
      BY <1>2 DEF SegmentType
    <2>3. data' \in Seq(SegmentType) /\ Len(data') = 1
          /\ data'[1] = [seq |-> snd.nextTx, len |-> 1, probe |-> TRUE]
      BY <1>0, <1>1, <2>1, <2>2, AppendFacts DEF Types
    <2>4. Types' /\ Order' /\ Edges'
      BY <1>0, <1>1, <2>1, <2>3 DEF Types, Order, Edges
    <2>5. Timers'
      BY <1>0, <2>1 DEF Timers, HeldBack, NagleWaits
    <2>6. \A i \in 1..Len(data') : /\ data'[i].seq = snd.nextTx /\ data'[i].len = 1
                                   /\ data'[i].probe
      BY <2>3
    <2>7. snd.nextTx + 1 <= snd.wrote /\ snd.nextTx + 1 <= snd.highTx + 1
      BY <1>2, <1>3
    <2>8. Probes'
      BY <1>0, <1>1, <2>1, <2>3, <2>6, <2>7 DEF Probes
    <2> QED  BY <2>4, <2>5, <2>8 DEF IndInv
  <1>4. CASE ~(snd.nextTx < snd.wrote)
    <2>1. snd' = [snd EXCEPT !.crashed = TRUE] /\ data' = data
      BY <1>4 DEF PersistTimeout
    <2>2. /\ snd' \in SenderType /\ snd'.crashed = TRUE
          /\ snd'.noDelay = snd.noDelay /\ snd'.wrote = snd.wrote /\ snd'.una = snd.una
          /\ snd'.highTx = snd.highTx /\ snd'.nextTx = snd.nextTx /\ snd'.rWnd = snd.rWnd
          /\ snd'.highRxAck = snd.highRxAck /\ snd'.resent = snd.resent
          /\ snd'.retx = snd.retx /\ snd'.lost = snd.lost /\ snd'.persist = snd.persist
          /\ snd'.sending = snd.sending
      BY <1>0, <2>1 DEF SenderType
    <2>3. Types' /\ Order' /\ Edges' /\ Probes'
      <3>1. snd.wrote <= snd'.wrote /\ snd'.wrote <= Total
        BY <1>2, <2>2
      <3> QED  BY <1>1, <2>1, <2>2, <3>1, SameNumbers
    <2>4. Timers'
      BY <1>0, <1>1, <2>2 DEF Timers
    <2> QED  BY <2>3, <2>4 DEF IndInv
  <1> QED  BY <1>3, <1>4

----------------------------------------------------------------------------
(* The receiver and the network.                                           *)

\* The application never reads more than has arrived.
LEMMA ReadsBounded ==
    ASSUME NEW r, r.next \in Nat, r.read \in Nat, r.read <= r.next, NEW n \in {0} \cup Reads(r)
    PROVE  n \in Nat /\ n <= r.next - r.read
  BY DEF Reads

\* The window between rd and nx of a buffer of b bytes.
LEMMA OfferArithmetic ==
    \A nx, rd, b \in Nat :
        rd <= nx /\ nx <= rd + b =>
            /\ (rd + b) - nx \in Nat /\ (rd + b) - nx <= b
            /\ nx + ((rd + b) - nx) = rd + b
  OBVIOUS

\* An ACK offers at most the buffer, and its right edge is the buffer's end.
LEMMA AckFields ==
    ASSUME NEW r, r.next \in Nat, r.read \in Nat, r.read <= r.next,
           r.next <= r.read + BufSize
    PROVE  /\ Ack(r) \in AckType /\ Ack(r).ack = r.next
           /\ Ack(r).wnd \in Nat /\ Ack(r).wnd <= BufSize
           /\ Ack(r).ack + Ack(r).wnd = r.read + BufSize
  <1>1. PICK nx, rd : nx = r.next /\ rd = r.read
    OBVIOUS
  <1>2. PICK w : w = MaxRxSequence(r) - r.next
    OBVIOUS
  <1>3. w \in Nat /\ w <= BufSize /\ nx \in Nat /\ nx + w = rd + BufSize
    <2>1. nx \in Nat /\ rd \in Nat /\ rd <= nx /\ nx <= rd + BufSize
      BY <1>1
    <2>2. BufSize \in Nat
      BY FlowAssumption
    <2>3. w = (rd + BufSize) - nx
      BY <1>1, <1>2 DEF MaxRxSequence
    <2> QED  BY <2>1, <2>2, <2>3, OfferArithmetic
  <1>4. Ack(r) = [ack |-> nx, wnd |-> w]
    BY <1>1, <1>2 DEF Ack
  <1>5. Ack(r) \in AckType /\ Ack(r).ack = nx /\ Ack(r).wnd = w
    BY <1>3, <1>4 DEF AckType
  <1> QED  BY <1>1, <1>3, <1>5

\* Moving the buffer's end to the right keeps what was left of it there.
LEMMA EdgeMoves ==
    ASSUME NEW x \in Nat, NEW y \in Nat, NEW z \in Nat, NEW w \in Nat,
           x + y <= z + BufSize, z <= w
    PROVE  x + y <= w + BufSize
  BY FlowAssumption

\* What was sent is left of the edge the sender knows, and so of the buffer's end.
LEMMA EdgeChain ==
    \A x, y, h, k, w, r, b \in Nat :
        x + y <= h /\ h <= k + w /\ k + w <= r + b => x + y <= r + b
  OBVIOUS

\* Arriving data keeps the invariant: the ACK offers what the buffer has left.
LEMMA ReceiveDataInv == IndInv /\ ReceiveData => IndInv'
  <1> SUFFICES ASSUME IndInv, ReceiveData PROVE IndInv'
    OBVIOUS
  <1>b. BufSize \in Nat \ {0}
    BY FlowAssumption
  <1>0. Types /\ Order /\ Edges /\ Probes /\ Timers
    BY DEF IndInv
  <1>1. data # <<>> /\ data' = Tail(data) /\ snd' = snd /\ losses' = losses
    BY DEF ReceiveData
  <1>2. PICK d, got : d = Head(data) /\ got = Arrives(rcv, d)
    OBVIOUS
  <1>3. PICK n \in {0} \cup Reads(got) :
          rcv' = [got EXCEPT !.read = @ + n] /\ acks' = Append(acks, Ack(rcv'))
    BY <1>2 DEF ReceiveData
  <1>4. /\ d = data[1] /\ d \in SegmentType /\ Len(data) \in Nat \ {0}
        /\ data' \in Seq(SegmentType) /\ Len(data') = Len(data) - 1
        /\ \A i \in 1..Len(data') : data'[i] = data[i + 1] /\ i + 1 \in 1..Len(data)
    BY <1>0, <1>1, <1>2, TailFacts DEF Types
  <1>5. /\ d.seq \in Nat /\ d.len \in Nat /\ d.probe \in BOOLEAN
        /\ rcv.next \in Nat /\ rcv.read \in Nat /\ snd.highTx \in Nat /\ snd.wrote \in Nat
        /\ snd.una \in Nat /\ snd.highRxAck \in Nat /\ snd.rWnd \in Nat
    <2>1. Fields(snd)
      BY <1>0, SenderFields DEF Types
    <2> QED  BY <1>0, <1>4, <2>1, QueueFields DEF SegmentType, Fields
  <1>6. 1 \in 1..Len(data)
    BY <1>4
  <1>7. /\ d.seq + d.len <= snd.wrote
        /\ ~d.probe => d.seq + d.len <= snd.highTx /\ ~(rcv.next > snd.highTx)
        /\ d.probe => /\ d.seq + d.len <= snd.highTx + 1
                      /\ snd.persist /\ Len(data) = 1 /\ acks = <<>>
    BY <1>0, <1>4, <1>6 DEF Probes
  <1>8. /\ rcv.read <= rcv.next /\ rcv.next <= snd.wrote /\ rcv.next <= snd.highTx + 1
        /\ rcv.next <= rcv.read + BufSize /\ snd.wrote <= Total
    BY <1>0 DEF Order
  <1>9. /\ got \in [next : Nat, read : Nat] /\ got.read = rcv.read /\ rcv.next <= got.next
        /\ got.next <= rcv.read + BufSize
        /\ got.next = rcv.next \/ got.next <= d.seq + d.len
    <2>1. CASE OutOfRange(rcv, d)
      BY <1>0, <1>b, <1>2, <1>5, <1>8, <2>1 DEF Arrives, Types
    <2>2. CASE ~OutOfRange(rcv, d)
      <3>1. PICK m : m = MaxOf(rcv.next, MinOf(d.seq + d.len, rcv.read + BufSize))
        OBVIOUS
      <3>2. /\ m \in Nat /\ rcv.next <= m /\ m <= rcv.read + BufSize
            /\ m = rcv.next \/ m <= d.seq + d.len
        BY <1>b, <1>5, <1>8, <3>1 DEF MaxOf, MinOf
      <3>3. got = [rcv EXCEPT !.next = m]
        BY <1>0, <1>2, <2>2, <3>1 DEF Arrives, MaxRxSequence, Types
      <3> QED  BY <1>0, <3>2, <3>3 DEF Types
    <2> QED  BY <2>1, <2>2
  <1>10. n \in Nat /\ n <= got.next - got.read
    <2>1. got.next \in Nat /\ got.read \in Nat /\ got.read <= got.next
      BY <1>b, <1>5, <1>8, <1>9
    <2>2. n \in {0} \cup Reads(got)
      BY <1>3
    <2> QED  BY <2>1, <2>2, ReadsBounded
  <1>11. /\ rcv' \in [next : Nat, read : Nat] /\ rcv'.next = got.next
         /\ rcv'.read = rcv.read + n
    BY <1>3, <1>9, <1>10
  <1>12. PICK a : a = Ack(rcv')
    OBVIOUS
  <1>13. /\ a \in AckType /\ a.ack = rcv'.next /\ a.wnd \in Nat /\ a.wnd <= BufSize
         /\ a.ack + a.wnd = rcv'.read + BufSize
    <2>1. PICK r : r = rcv'
      OBVIOUS
    <2>2. /\ r.next \in Nat /\ r.read \in Nat /\ r.read <= r.next
          /\ r.next <= r.read + BufSize
      BY <1>b, <1>5, <1>8, <1>9, <1>10, <1>11, <2>1
    <2> QED  BY <1>12, <2>1, <2>2, AckFields
  <1>14. /\ acks' \in Seq(AckType) /\ Len(acks) \in Nat /\ Len(acks') = Len(acks) + 1
         /\ acks'[Len(acks) + 1] = a /\ \A i \in 1..Len(acks) : acks'[i] = acks[i]
    <2>1. acks' = Append(acks, a)
      BY <1>3, <1>12
    <2> QED  BY <1>0, <1>13, <2>1, AppendFacts DEF Types
  <1>15. Types'
    BY <1>0, <1>1, <1>4, <1>11, <1>14 DEF Types
  <1>16. Order'
    <2>1. /\ rcv'.read <= rcv'.next /\ rcv'.next <= snd.wrote
          /\ rcv'.next <= snd.highTx + 1 /\ rcv'.next <= rcv'.read + BufSize
      <3>1. got.next \in Nat /\ got.next <= snd.wrote /\ got.next <= snd.highTx + 1
        BY <1>b, <1>5, <1>7, <1>8, <1>9
      <3>2. got.read = rcv.read /\ got.next <= rcv.read + BufSize
        BY <1>9
      <3> QED  BY <1>b, <1>5, <1>10, <1>11, <3>1, <3>2
    <2> QED  BY <1>0, <1>1, <2>1 DEF Order
  <1>17. Edges'
    <2>1. rcv.next <= rcv'.next /\ rcv.read <= rcv'.read
          /\ rcv'.next \in Nat /\ rcv'.read \in Nat
      BY <1>b, <1>5, <1>9, <1>10, <1>11
    <2>2. snd.highRxAck + snd.rWnd <= rcv.read + BufSize
      BY <1>0 DEF Edges
    <2>3. snd.highRxAck + snd.rWnd <= rcv'.read + BufSize
      BY <1>b, <1>5, <2>1, <2>2
    <2>4. \A i \in 1..Len(acks) :
            /\ acks[i].ack \in Nat /\ acks[i].wnd \in Nat
            /\ acks[i].ack <= rcv'.next /\ acks[i].wnd <= BufSize
            /\ snd.highRxAck + snd.rWnd <= acks[i].ack + acks[i].wnd
            /\ acks[i].ack + acks[i].wnd <= rcv'.read + BufSize
      <3> SUFFICES ASSUME NEW i \in 1..Len(acks)
                   PROVE  /\ acks[i].ack \in Nat /\ acks[i].wnd \in Nat
                          /\ acks[i].ack <= rcv'.next /\ acks[i].wnd <= BufSize
                          /\ snd.highRxAck + snd.rWnd <= acks[i].ack + acks[i].wnd
                          /\ acks[i].ack + acks[i].wnd <= rcv'.read + BufSize
        OBVIOUS
      <3>1. acks[i].ack \in Nat /\ acks[i].wnd \in Nat
        BY <1>0, QueueFields
      <3>2. /\ acks[i].ack <= rcv.next /\ acks[i].wnd <= BufSize
            /\ snd.highRxAck + snd.rWnd <= acks[i].ack + acks[i].wnd
            /\ acks[i].ack + acks[i].wnd <= rcv.read + BufSize
        BY <1>0 DEF Edges
      <3>3. acks[i].ack <= rcv'.next
        BY <1>b, <1>5, <2>1, <3>1, <3>2, AtMostTransitive
      <3>4. acks[i].ack + acks[i].wnd <= rcv'.read + BufSize
        <4>1. acks[i].ack + acks[i].wnd <= rcv.read + BufSize
          BY <3>2
        <4> QED  BY <1>5, <2>1, <3>1, <4>1, EdgeMoves
      <3> QED  BY <3>1, <3>2, <3>3, <3>4
    <2>5. \A i \in 1..Len(acks') :
            /\ acks'[i].ack <= rcv'.next /\ acks'[i].wnd <= BufSize
            /\ snd.highRxAck + snd.rWnd <= acks'[i].ack + acks'[i].wnd
            /\ acks'[i].ack + acks'[i].wnd <= rcv'.read + BufSize
      <3> SUFFICES ASSUME NEW i \in 1..Len(acks')
                   PROVE  /\ acks'[i].ack <= rcv'.next /\ acks'[i].wnd <= BufSize
                          /\ snd.highRxAck + snd.rWnd <= acks'[i].ack + acks'[i].wnd
                          /\ acks'[i].ack + acks'[i].wnd <= rcv'.read + BufSize
        OBVIOUS
      <3>1. CASE i \in 1..Len(acks)
        BY <1>14, <2>4, <3>1
      <3>2. CASE i = Len(acks) + 1
        <4>1. acks'[i] = a
          BY <1>14, <3>2
        <4>2. rcv'.read + BufSize <= rcv'.read + BufSize /\ rcv'.next <= rcv'.next
          BY <1>b, <2>1
        <4> QED  BY <1>13, <2>3, <4>1, <4>2
      <3> QED  BY <1>14, <3>1, <3>2
    <2>6. \A i, j \in 1..Len(acks') :
            i <= j => acks'[i].ack + acks'[i].wnd <= acks'[j].ack + acks'[j].wnd
      <3> SUFFICES ASSUME NEW i \in 1..Len(acks'), NEW j \in 1..Len(acks'), i <= j
                   PROVE  acks'[i].ack + acks'[i].wnd <= acks'[j].ack + acks'[j].wnd
        OBVIOUS
      <3>1. CASE j = Len(acks) + 1
        BY <1>13, <1>14, <2>5, <3>1
      <3>2. CASE j \in 1..Len(acks)
        <4>1. i \in 1..Len(acks)
          BY <1>14, <3>2
        <4> QED  BY <1>0, <1>14, <3>2, <4>1 DEF Edges
      <3> QED  BY <1>14, <3>1, <3>2
    <2> QED  BY <1>0, <1>1, <2>3, <2>5, <2>6 DEF Edges
  <1>18. Probes'
    <2>1. CASE d.probe
      <3>1. data' = <<>> /\ snd.persist /\ Len(data') = 0 /\ Len(acks') = 1
        BY <1>4, <1>7, <1>14, <2>1
      <3>2. snd.una = snd.highTx
        BY <1>0, <3>1 DEF Timers
      <3>3. \A i \in 1..Len(data') : FALSE
        BY <3>1
      <3> QED  BY <1>1, <3>1, <3>2, <3>3 DEF Probes
    <2>2. CASE ~d.probe
      <3>1. ~(rcv'.next > snd.highTx)
        BY <1>b, <1>5, <1>7, <1>9, <1>11, <2>2
      <3>2. \A i \in 1..Len(data) : ~data[i].probe
        <4>1. \A i \in 1..Len(data) : data[i].probe => Len(data) = 1
          BY <1>0 DEF Probes
        <4> QED  BY <1>4, <2>2, <4>1
      <3>3. \A i \in 1..Len(data') : /\ ~data'[i].probe
                                     /\ data'[i].seq + data'[i].len <= snd.wrote
                                     /\ data'[i].seq + data'[i].len <= snd.highTx
        BY <1>0, <1>4, <3>2 DEF Probes
      <3>4. \A i \in 1..Len(acks') : ~(acks'[i].ack > snd.highTx)
        <4> SUFFICES ASSUME NEW i \in 1..Len(acks') PROVE ~(acks'[i].ack > snd.highTx)
          OBVIOUS
        <4>1. CASE i \in 1..Len(acks)
          BY <1>0, <1>1, <1>14, <4>1 DEF Probes
        <4>2. CASE i = Len(acks) + 1
          BY <1>13, <1>14, <3>1, <4>2
        <4> QED  BY <1>14, <4>1, <4>2
      <3> QED  BY <1>1, <3>1, <3>3, <3>4 DEF Probes
    <2> QED  BY <2>1, <2>2
  <1>19. Timers'
    BY <1>0, <1>1 DEF Timers, HeldBack, NagleWaits
  <1> QED  BY <1>15, <1>16, <1>17, <1>18, <1>19 DEF IndInv

\* A read only moves the buffer's end to the right.
LEMMA RecvInv == IndInv /\ Recv => IndInv'
  <1> SUFFICES ASSUME IndInv, Recv PROVE IndInv'
    OBVIOUS
  <1>0. Types /\ Order /\ Edges /\ Probes /\ Timers
    BY DEF IndInv
  <1>1. snd' = snd /\ data' = data /\ acks' = acks /\ losses' = losses
    BY DEF Recv
  <1>2. PICK n \in {0} \cup Reads(rcv) : rcv' = [rcv EXCEPT !.read = @ + n]
    BY DEF Recv
  <1>3. /\ rcv.next \in Nat /\ rcv.read \in Nat /\ rcv.read <= rcv.next
        /\ rcv.next <= rcv.read + BufSize
    BY <1>0 DEF Types, Order
  <1>4. n \in Nat /\ n <= rcv.next - rcv.read
    BY <1>3, ReadsBounded
  <1>5. /\ rcv' \in [next : Nat, read : Nat] /\ rcv'.next = rcv.next
        /\ rcv'.read = rcv.read + n
    BY <1>0, <1>2, <1>3, <1>4 DEF Types
  <1>6. /\ rcv'.read \in Nat /\ rcv.read <= rcv'.read /\ rcv'.read <= rcv'.next
        /\ rcv'.next <= rcv'.read + BufSize
    BY <1>3, <1>4, <1>5, FlowAssumption
  <1>7. Types'
    BY <1>0, <1>1, <1>5 DEF Types
  <1>8. Order'
    BY <1>0, <1>1, <1>5, <1>6 DEF Order
  <1>9. Edges'
    <2>1. snd.highRxAck + snd.rWnd <= rcv'.read + BufSize
      <3>1. snd.highRxAck \in Nat /\ snd.rWnd \in Nat
        BY <1>0, SenderFields DEF Types, Fields
      <3>2. snd.highRxAck + snd.rWnd <= rcv.read + BufSize
        BY <1>0 DEF Edges
      <3> QED  BY <1>3, <1>6, <3>1, <3>2, EdgeMoves
    <2>2. ASSUME NEW i \in 1..Len(acks)
          PROVE  acks[i].ack + acks[i].wnd <= rcv'.read + BufSize
      <3>1. acks[i].ack \in Nat /\ acks[i].wnd \in Nat
        BY <1>0, QueueFields
      <3>2. acks[i].ack + acks[i].wnd <= rcv.read + BufSize
        BY <1>0 DEF Edges
      <3> QED  BY <1>3, <1>6, <3>1, <3>2, EdgeMoves
    <2> QED  BY <1>0, <1>1, <1>5, <2>1, <2>2 DEF Edges
  <1>10. Probes'
    BY <1>0, <1>1, <1>5 DEF Probes
  <1>11. Timers'
    BY <1>0, <1>1 DEF Timers, HeldBack, NagleWaits
  <1> QED  BY <1>7, <1>8, <1>9, <1>10, <1>11 DEF IndInv

\* Losing an ACK or a probe keeps the invariant.
LEMMA LoseInv == IndInv /\ Lose => IndInv'
  <1> SUFFICES ASSUME IndInv, Lose PROVE IndInv'
    OBVIOUS
  <1>0. Types /\ Order /\ Edges /\ Probes /\ Timers
    BY DEF IndInv
  <1>1. snd' = snd /\ rcv' = rcv /\ losses' \in 0..MaxLoss
    BY <1>0, FlowAssumption DEF Lose, Types
  <1>2. Order' /\ Timers'
    BY <1>0, <1>1 DEF Order, Timers, HeldBack, NagleWaits
  <1>3. CASE acks # <<>> /\ acks' = Tail(acks) /\ data' = data
    <2>1. /\ acks' \in Seq(AckType) /\ Len(acks) \in Nat \ {0}
          /\ Len(acks') = Len(acks) - 1
          /\ \A i \in 1..Len(acks') : acks'[i] = acks[i + 1] /\ i + 1 \in 1..Len(acks)
      BY <1>0, <1>3, TailFacts DEF Types
    <2>2. Types'
      BY <1>0, <1>1, <1>3, <2>1 DEF Types
    <2>3. Edges'
      <3>1. \A i \in 1..Len(acks') :
              /\ acks'[i].ack <= rcv.next /\ acks'[i].wnd <= BufSize
              /\ snd.highRxAck + snd.rWnd <= acks'[i].ack + acks'[i].wnd
              /\ acks'[i].ack + acks'[i].wnd <= rcv.read + BufSize
        BY <1>0, <2>1 DEF Edges
      <3>2. ASSUME NEW i \in 1..Len(acks'), NEW j \in 1..Len(acks'), i <= j
            PROVE  acks'[i].ack + acks'[i].wnd <= acks'[j].ack + acks'[j].wnd
        <4>1. /\ acks'[i] = acks[i + 1] /\ i + 1 \in 1..Len(acks)
              /\ acks'[j] = acks[j + 1] /\ j + 1 \in 1..Len(acks)
          BY <2>1
        <4>2. i + 1 <= j + 1
          BY <2>1, <3>2
        <4>3. acks[i + 1].ack + acks[i + 1].wnd <= acks[j + 1].ack + acks[j + 1].wnd
          BY <1>0, <4>1, <4>2 DEF Edges
        <4> QED  BY <4>1, <4>3
      <3> QED  BY <1>0, <1>1, <3>1, <3>2 DEF Edges
    <2>4. Probes'
      <3>1. \A i \in 1..Len(data) : ~data[i].probe
        BY <1>0, <1>3 DEF Probes
      <3>2. \A i \in 1..Len(acks') : ~(acks'[i].ack > snd.highTx)
        <4> SUFFICES ASSUME NEW i \in 1..Len(acks'), acks'[i].ack > snd.highTx PROVE FALSE
          OBVIOUS
        <4>1. Len(acks) = 1
          BY <1>0, <2>1 DEF Probes
        <4> QED  BY <2>1, <4>1
      <3> QED  BY <1>0, <1>1, <1>3, <3>1, <3>2 DEF Probes
    <2> QED  BY <1>2, <2>2, <2>3, <2>4 DEF IndInv
  <1>4. CASE data # <<>> /\ Head(data).probe /\ data' = Tail(data) /\ acks' = acks
    <2>1. /\ data' \in Seq(SegmentType) /\ Head(data) = data[1] /\ Len(data) \in Nat \ {0}
          /\ Len(data') = Len(data) - 1
      BY <1>0, <1>4, TailFacts DEF Types
    <2>2. 1 \in 1..Len(data) /\ data[1].probe
      BY <1>4, <2>1
    <2>3. Len(data) = 1 /\ acks = <<>>
      BY <1>0, <2>2 DEF Probes
    <2>4. Types' /\ Edges'
      <3>1. Types'
        BY <1>0, <1>1, <1>4, <2>1 DEF Types
      <3>2. Edges'
        BY <1>0, <1>1, <1>4 DEF Edges
      <3> QED  BY <3>1, <3>2
    <2>5. Probes'
      <3>1. /\ \A i \in 1..Len(data') : FALSE
            /\ \A i \in 1..Len(acks') : FALSE
        BY <1>4, <2>1, <2>3
      <3> QED  BY <1>0, <1>1, <3>1 DEF Probes
    <2> QED  BY <1>2, <2>4, <2>5 DEF IndInv
  <1> QED  BY <1>3, <1>4 DEF Lose

----------------------------------------------------------------------------
(* The theorems.                                                           *)

LEMMA NextInv == IndInv /\ [Next]_vars => IndInv'
  <1> SUFFICES ASSUME IndInv, [Next]_vars PROVE IndInv'
    OBVIOUS
  <1>1. CASE UNCHANGED vars
    BY <1>1 DEF vars, IndInv, Types, Order, Edges, Probes, Timers, HeldBack, NagleWaits
  <1>2. CASE Next
    BY <1>2, SendInv, SendDataPacketInv, StopSendingInv, ReceiveAckInv, ReTxTimeoutInv,
       PersistTimeoutInv, ReceiveDataInv, RecvInv, LoseInv DEF Next
  <1> QED  BY <1>1, <1>2

\* The inductive invariant holds in every state of sender, receiver and network.
THEOREM Invariance == Spec => []IndInv
  BY InitInv, NextInv, PTL DEF Spec

\* Every number the two sockets keep stays within the bounds its member has in the
\* code: in particular HeadSequence, m_nextTxSequence and m_highTxMark stay ordered.
THEOREM TypeCorrect == Spec => []TypeOK
  <1>1. IndInv => TypeOK
    <2> SUFFICES ASSUME IndInv PROVE TypeOK
      OBVIOUS
    <2>0. Types /\ Order /\ Edges
      BY DEF IndInv
    <2>1. Fields(snd) /\ rcv.next \in Nat /\ rcv.read \in Nat
      BY <2>0, SenderFields DEF Types
    <2>2. /\ snd.retx \in BOOLEAN /\ snd.persist \in BOOLEAN /\ snd.sending \in BOOLEAN
          /\ snd.noDelay \in NoDelays /\ snd.lost \in BOOLEAN /\ snd.crashed \in BOOLEAN
          /\ losses \in 0..MaxLoss
      BY <2>0, <2>1 DEF Fields, Types, Order
    <2>3. /\ snd.wrote \in Nat /\ snd.una \in Nat /\ snd.highTx \in Nat
          /\ snd.nextTx \in Nat /\ snd.rWnd \in Nat /\ snd.highRxAck \in Nat
          /\ snd.resent \in Nat
      BY <2>1 DEF Fields
    <2>4. /\ snd.una <= snd.nextTx /\ snd.nextTx <= snd.highTx /\ snd.una <= snd.highTx
          /\ snd.highTx <= snd.wrote /\ snd.wrote <= Total
          /\ snd.una <= snd.highRxAck /\ snd.highRxAck <= snd.wrote
          /\ snd.resent <= snd.highTx - snd.una
          /\ rcv.read <= rcv.next /\ rcv.next <= snd.wrote
      BY <2>0 DEF Order
    <2>5. snd.rWnd <= BufSize
      BY <2>0 DEF Edges
    <2>6. /\ snd.wrote \in 0..Total /\ snd.una \in 0..snd.highTx
          /\ snd.highTx \in 0..snd.wrote /\ snd.nextTx \in snd.una..snd.wrote
          /\ snd.rWnd \in 0..BufSize /\ snd.highRxAck \in snd.una..Total
      BY <2>3, <2>4, <2>5, FlowAssumption
    <2>7. /\ snd.resent \in 0..(snd.highTx - snd.una)
          /\ rcv.next \in 0..Total /\ rcv.read \in 0..rcv.next
      BY <2>1, <2>3, <2>4, FlowAssumption
    <2> QED  BY <2>2, <2>6, <2>7 DEF TypeOK
  <1> QED  BY <1>1, Invariance, PTL

\* Data the sender puts on the network always fits the receive buffer, whatever the
\* application read and whatever was lost in between.
THEOREM DataAlwaysFits == Spec => []DataFits
  <1>1. IndInv => DataFits
    <2> SUFFICES ASSUME IndInv, NEW i \in 1..Len(data), ~data[i].probe
                 PROVE  data[i].seq + data[i].len <= rcv.read + BufSize
      BY DEF DataFits, MaxRxSequence
    <2>0. Types /\ Order /\ Edges /\ Probes
      BY DEF IndInv
    <2>1. data[i].seq \in Nat /\ data[i].len \in Nat
      BY <2>0, QueueFields
    <2>2. snd.highTx \in Nat /\ snd.highRxAck \in Nat /\ snd.rWnd \in Nat /\ rcv.read \in Nat
      BY <2>0, SenderFields DEF Types, Fields
    <2>3. data[i].seq + data[i].len <= snd.highTx
      BY <2>0 DEF Probes
    <2>4. /\ snd.highTx <= snd.highRxAck + snd.rWnd
          /\ snd.highRxAck + snd.rWnd <= rcv.read + BufSize
      BY <2>0 DEF Edges
    <2>5. BufSize \in Nat
      BY FlowAssumption
    <2> QED  BY <2>1, <2>2, <2>3, <2>4, <2>5, EdgeChain
  <1> QED  BY <1>1, Invariance, PTL

\* The receiver is ahead of the sender by the one probe byte at most, and
\* PersistTimeout never probes with a byte that was sent before.
THEOREM ProbeOneAhead == Spec => []ProbeAhead
  <1>1. IndInv => ProbeAhead
    BY SenderFields DEF IndInv, Types, Order, Timers, ProbeAhead, Fields
  <1> QED  BY <1>1, Invariance, PTL

\* With data that waits and nothing in the network, a sender without a timer is held
\* back by silly window avoidance or by Nagle's algorithm, and by nothing else.
THEOREM NoOtherStall == Spec => []StuckOnlyHeldBack
  <1>1. IndInv => StuckOnlyHeldBack
    <2> SUFFICES ASSUME IndInv, snd.una < snd.wrote, Quiet, ~snd.crashed,
                        ~snd.retx, ~snd.persist
                 PROVE  HeldBack
      BY DEF StuckOnlyHeldBack
    <2>1. snd.una \in Nat /\ snd.una # snd.wrote
      BY SenderFields DEF IndInv, Types, Fields
    <2>2. ~snd.sending
      BY DEF Quiet
    <2>3. snd.una = snd.wrote \/ HeldBack
      BY <2>2, Zenon DEF IndInv, Timers
    <2> QED  BY <2>1, <2>3
  <1> QED  BY <1>1, Invariance, PTL
=============================================================================
