--------------------------- MODULE TcpConnection ---------------------------
(***************************************************************************)
(* Opening and closing a TcpSocketBase connection: a client socket, the    *)
(* socket a listener forks for it (or a second caller, once the listener   *)
(* is gone), and a network that loses, repeats, delays and reorders their  *)
(* segments.  No data is sent, so a segment is its flags and the sequence  *)
(* and acknowledgment numbers that count the SYN and the FIN.              *)
(***************************************************************************)
EXTENDS Integers, FiniteSetsExt

CONSTANTS
    SynRetries,    \* m_synRetries
    DataRetries,   \* m_dataRetries
    MaxForks       \* bound: sockets the listener forks for the client's port

ASSUME ConnectionAssumption ==
    SynRetries \in Nat \ {0} /\ DataRetries \in Nat /\ MaxForks \in Nat

VARIABLES
    socks,       \* the socket of each side
    listening,   \* the server's listening socket is open
    net          \* every segment sent: it may arrive never, once or many times

vars == <<socks, listening, net>>

Sides == {"client", "server"}
Peer(i) == CHOOSE j \in Sides : j # i

NoFin == -1

States == {"CLOSED", "SYN_SENT", "SYN_RCVD", "ESTABLISHED", "FIN_WAIT_1", "FIN_WAIT_2",
           "CLOSE_WAIT", "CLOSING", "LAST_ACK", "TIME_WAIT"}

\* A socket: m_state, whether it has an endpoint, m_nextTxSequence, m_highTxMark,
\* HeadSequence of the transmit buffer, m_nextRxSeq and m_finSeq of the receive
\* buffer, what m_retxEvent will run ("RTO" is ReTxTimeout, a flag SendEmptyPacket),
\* m_synCount, m_dataRetrCount, whether m_lastAckEvent and m_timewaitEvent are
\* scheduled, m_shutdownSend, m_closeNotified; made counts Connect and Fork.
NewSocket ==
    [st |-> "CLOSED", ep |-> FALSE, nextTx |-> 0, highTx |-> 0, head |-> 0, rcvNxt |-> 0,
     fin |-> NoFin, retx |-> "none", synCount |-> 0, retries |-> 0, lastAck |-> FALSE,
     timewait |-> FALSE, shutdown |-> FALSE, notified |-> FALSE, made |-> 0]

\* A handler maps a result, the socket and what it has sent so far, to a result.
Handling(k) == [k |-> k, out |-> {}]

----------------------------------------------------------------------------
(***************************************************************************)
(* What the handlers share.                                                *)
(***************************************************************************)

CancelAllTimers(k) == [k EXCEPT !.retx = "none", !.lastAck = FALSE, !.timewait = FALSE]

\* Mutant: the timers outlive the endpoint.
DeallocateEndPointRunning(r) == [r EXCEPT !.k.ep = FALSE]

DeallocateEndPoint(r) ==
    IF r.k.ep THEN [r EXCEPT !.k = [CancelAllTimers(r.k) EXCEPT !.ep = FALSE]] ELSE r

CloseAndNotify(r) ==
    DeallocateEndPoint([r EXCEPT !.k = [@ EXCEPT !.notified = TRUE, !.lastAck = FALSE,
                                                 !.st = "CLOSED"]])

\* A bare segment; in the states that have sent a FIN its number counts the FIN.
Segment(k, f) ==
    [f |-> f, ack |-> k.rcvNxt,
     seq |-> k.nextTx + (IF f # "FINACK" /\ k.st \in {"FIN_WAIT_1", "LAST_ACK", "CLOSING"}
                         THEN 1 ELSE 0)]

\* Mutants: a repeated SYN costs no retry; a FIN is sent without a timer.
SendEmptyPacketFree(r, f) ==
    IF ~r.k.ep THEN r
    ELSE [k |-> [r.k EXCEPT !.retx = IF @ = "none" /\ f \in {"SYN", "SYNACK", "FINACK"}
                                     THEN f ELSE @],
          out |-> r.out \cup {Segment(r.k, f)}]

SendEmptyPacketFinOnce(r, f) ==
    IF ~r.k.ep THEN r
    ELSE IF f \in {"SYN", "SYNACK"} /\ r.k.synCount = 0
         THEN DeallocateEndPoint([r EXCEPT !.k.st = "CLOSED"])
    ELSE [k |-> [r.k EXCEPT !.synCount = IF f \in {"SYN", "SYNACK"} THEN @ - 1 ELSE @,
                            !.retx = IF @ = "none" /\ f \in {"SYN", "SYNACK"} THEN f ELSE @],
          out |-> r.out \cup {Segment(r.k, f)}]

\* SYN and FIN schedule their own repetition when no retransmission is pending;
\* a SYN that has no retries left closes the socket instead.
SendEmptyPacket(r, f) ==
    IF ~r.k.ep THEN r
    ELSE IF f \in {"SYN", "SYNACK"} /\ r.k.synCount = 0
         THEN DeallocateEndPoint([r EXCEPT !.k.st = "CLOSED"])
    ELSE [k |-> [r.k EXCEPT !.synCount = IF f \in {"SYN", "SYNACK"} THEN @ - 1 ELSE @,
                            !.retx = IF @ = "none" /\ f \in {"SYN", "SYNACK", "FINACK"}
                                     THEN f ELSE @],
          out |-> r.out \cup {Segment(r.k, f)}]

SendRST(r) == DeallocateEndPoint(SendEmptyPacket(r, "RST"))

Reset(r) == CloseAndNotify(SendRST(r))

Enter(r, st) == [r EXCEPT !.k.st = st]

\* TIME_WAIT keeps no timer but its own.
TimeWait(r) ==
    [r EXCEPT !.k = [CancelAllTimers(@) EXCEPT !.st = "TIME_WAIT", !.notified = TRUE,
                                               !.timewait = TRUE]]

\* Close with nothing unread and nothing unsent.
DoClose(r) ==
    CASE r.k.st \in {"SYN_RCVD", "ESTABLISHED"} ->
              Enter(SendEmptyPacket(r, "FINACK"), "FIN_WAIT_1")
      [] r.k.st = "CLOSE_WAIT" -> Enter(SendEmptyPacket(r, "FINACK"), "LAST_ACK")
      [] r.k.st \in {"SYN_SENT", "CLOSING"} -> Reset(r)
      [] OTHER -> r

ShutdownSend(r) ==
    LET shut == [r EXCEPT !.k.shutdown = TRUE]
    IN  IF r.k.st \in {"ESTABLISHED", "CLOSE_WAIT"} THEN DoClose(shut) ELSE shut

\* What the application does when a notification calls it.
React(r, reaction) ==
    CASE reaction = "close" -> DoClose(r)
      [] reaction = "shutdown" -> ShutdownSend(r)
      [] OTHER -> r

\* Mutant: the FIN is counted each time it comes.
SetFinSequenceAgain(k, s) == [k EXCEPT !.fin = s, !.rcvNxt = @ + 1]

SetFinSequence(k, s) ==
    [k EXCEPT !.fin = s, !.rcvNxt = IF @ = s THEN @ + 1 ELSE @]

Finished(k) == k.fin # NoFin /\ k.fin < k.rcvNxt

\* ReceivedAck, ProcessAck and NewAck with an empty transmit buffer: the only
\* thing left to acknowledge is the FIN.
ReceivedAck(r, ack) ==
    LET k == r.k
        timer == IF k.st \in {"FIN_WAIT_1", "CLOSING"} THEN "RTO" ELSE "none"
    IN  IF ack > k.head
        THEN [r EXCEPT !.k = [k EXCEPT !.head = ack, !.retries = DataRetries, !.retx = timer,
                                       !.nextTx = IF ack > @ THEN ack ELSE @]]
        ELSE IF ack = k.head /\ ack > k.highTx THEN [r EXCEPT !.k.nextTx = ack]
        ELSE r

DoPeerClose(r, reaction) ==
    LET waits == Enter(r, "CLOSE_WAIT")
        told == IF r.k.notified THEN waits
                ELSE [React(waits, reaction) EXCEPT !.k.notified = TRUE]
        done == IF told.k.shutdown THEN DoClose(told) ELSE SendEmptyPacket(told, "ACK")
    IN  IF done.k.st = "LAST_ACK"
        THEN [done EXCEPT !.k = [@ EXCEPT !.retries = DataRetries, !.lastAck = TRUE]]
        ELSE done

\* A FIN below the receive window is ignored, and not acknowledged.
PeerClose(r, m, reaction) ==
    LET fin == [r EXCEPT !.k = SetFinSequence(@, m.seq)]
    IN  IF m.seq < r.k.rcvNxt \/ ~Finished(fin.k) THEN r
        ELSE IF fin.k.st = "FIN_WAIT_1" THEN Enter(fin, "CLOSING")
        ELSE DoPeerClose(fin, reaction)

\* The three-way handshake is complete: the SYN counts as acknowledged.
Connected(r) ==
    LET n == r.k.nextTx + 1
    IN  [r EXCEPT !.k = [@ EXCEPT !.retx = "none", !.nextTx = n, !.highTx = n, !.head = n]]

----------------------------------------------------------------------------
(***************************************************************************)
(* DoForwardUp: one handler per state.                                     *)
(***************************************************************************)

ProcessSynSent(r, m) ==
    CASE m.f \in {"ACK", "FINACK", "RSTACK"} -> r
      [] m.f = "SYN" ->
            SendEmptyPacket([r EXCEPT !.k = [@ EXCEPT !.st = "SYN_RCVD", !.synCount = SynRetries,
                                                      !.rcvNxt = m.seq + 1]], "SYNACK")
      [] m.f = "SYNACK" /\ m.ack = r.k.nextTx + 1 ->
            SendEmptyPacket(Enter(Connected([r EXCEPT !.k.rcvNxt = m.seq + 1]), "ESTABLISHED"),
                            "ACK")
      [] m.f = "RST" -> CloseAndNotify(r)
      [] OTHER -> Reset(r)

\* A FIN that arrives before the handshake's last ACK completes the handshake.
ProcessSynRcvd(r, m, reaction) ==
    CASE m.f = "ACK" /\ m.ack = r.k.nextTx + 1 ->
            ReceivedAck(Enter(Connected(r), "ESTABLISHED"), m.ack)
      [] m.f = "SYN" -> SendEmptyPacket([r EXCEPT !.k.rcvNxt = m.seq + 1], "SYNACK")
      [] m.f = "FINACK" ->
            IF m.seq = r.k.rcvNxt
            THEN PeerClose(React(Connected(r), IF reaction = "closeAccepted" THEN "close"
                                               ELSE "none"), m, reaction)
            ELSE r
      [] m.f = "RST" -> CloseAndNotify(r)
      [] OTHER -> Reset(r)

ProcessEstablished(r, m, reaction) ==
    CASE m.f = "ACK" -> IF m.ack < r.k.head THEN r
                        ELSE IF m.ack > r.k.highTx THEN SendEmptyPacket(r, "ACK")
                        ELSE ReceivedAck(r, m.ack)
      [] m.f \in {"SYN", "SYNACK"} -> r
      [] m.f = "FINACK" -> PeerClose(r, m, reaction)
      [] m.f = "RST" -> CloseAndNotify(r)
      [] OTHER -> Reset(r)

FinAcked(k, m) == m.ack = k.highTx + 1

\* The tail of ProcessWait: an in-sequence FIN is acknowledged.
AnswerFin(r, m) ==
    IF r.k.st \in {"FIN_WAIT_1", "FIN_WAIT_2"} /\ Finished(r.k)
    THEN SendEmptyPacket(IF r.k.st = "FIN_WAIT_2" \/ FinAcked(r.k, m) THEN TimeWait(r)
                         ELSE Enter(r, "CLOSING"), "ACK")
    ELSE r

\* Mutant: any ACK moves FIN_WAIT_1 on.
ProcessWaitAnyAck(r, m) ==
    CASE m.f = "ACK" ->
            LET acked == ReceivedAck(r, m.ack)
            IN  AnswerFin(IF acked.k.st = "FIN_WAIT_1" THEN Enter(acked, "FIN_WAIT_2")
                          ELSE acked, m)
      [] m.f = "FINACK" ->
            AnswerFin([ReceivedAck(r, m.ack) EXCEPT !.k = SetFinSequence(@, m.seq)], m)
      [] m.f \in {"SYN", "SYNACK"} -> r
      [] m.f = "RST" -> CloseAndNotify(r)
      [] OTHER -> Reset(r)

\* FIN_WAIT_1, FIN_WAIT_2 and CLOSE_WAIT.
ProcessWait(r, m) ==
    CASE m.f = "ACK" ->
            LET acked == ReceivedAck(r, m.ack)
            IN  AnswerFin(IF acked.k.st = "FIN_WAIT_1" /\ FinAcked(acked.k, m)
                          THEN Enter(acked, "FIN_WAIT_2") ELSE acked, m)
      [] m.f = "FINACK" ->
            AnswerFin([ReceivedAck(r, m.ack) EXCEPT !.k = SetFinSequence(@, m.seq)], m)
      [] m.f \in {"SYN", "SYNACK"} -> r
      [] m.f = "RST" -> CloseAndNotify(r)
      [] OTHER -> Reset(r)

\* The ACK is recognised by its sequence number, not by what it acknowledges.
ProcessClosing(r, m) ==
    CASE m.f = "ACK" -> IF m.seq = r.k.rcvNxt THEN TimeWait(r) ELSE r
      [] m.f = "FINACK" -> CloseAndNotify(SendEmptyPacket(r, "ACK"))
      [] m.f = "RST" -> CloseAndNotify(r)
      [] OTHER -> Reset(r)

\* Every FIN carries an ACK, so the branch for a bare FIN is never taken.
ProcessLastAck(r, m) ==
    CASE m.f = "ACK" -> IF m.seq = r.k.rcvNxt THEN CloseAndNotify(r) ELSE r
      [] m.f \in {"FINACK", "RST"} -> CloseAndNotify(r)
      [] OTHER -> Reset(r)

DoForwardUp(r, m, reaction) ==
    CASE r.k.st = "SYN_SENT" -> ProcessSynSent(r, m)
      [] r.k.st = "SYN_RCVD" -> ProcessSynRcvd(r, m, reaction)
      [] r.k.st = "ESTABLISHED" -> ProcessEstablished(r, m, reaction)
      [] r.k.st \in {"FIN_WAIT_1", "FIN_WAIT_2", "CLOSE_WAIT"} -> ProcessWait(r, m)
      [] r.k.st = "CLOSING" -> ProcessClosing(r, m)
      [] r.k.st = "LAST_ACK" -> ProcessLastAck(r, m)
      [] OTHER -> r

----------------------------------------------------------------------------
(***************************************************************************)
(* Timers.                                                                 *)
(***************************************************************************)

ReTxTimeout(r) ==
    CASE r.k.st = "SYN_SENT" -> SendEmptyPacket(r, "SYN")
      [] r.k.st \in {"FIN_WAIT_1", "CLOSING"} -> SendEmptyPacket(r, "FINACK")
      [] OTHER -> r

RetxEvent(k) ==
    LET r == Handling([k EXCEPT !.retx = "none"])
    IN  IF k.retx = "RTO" THEN ReTxTimeout(r) ELSE SendEmptyPacket(r, k.retx)

\* Mutant: the timeout in LAST_ACK is not counted.
LastAckTimeoutForever(r) ==
    [SendEmptyPacket(r, "FINACK") EXCEPT !.k.lastAck = TRUE]

LastAckTimeout(r) ==
    IF r.k.st # "LAST_ACK" THEN [r EXCEPT !.k.lastAck = FALSE]
    ELSE IF r.k.retries = 0 THEN DeallocateEndPoint(r)
    ELSE [SendEmptyPacket([r EXCEPT !.k.retries = @ - 1], "FINACK") EXCEPT !.k.lastAck = TRUE]

----------------------------------------------------------------------------
(***************************************************************************)
(* The specification.                                                      *)
(***************************************************************************)

Init ==
    /\ socks = [i \in Sides |-> NewSocket]
    /\ listening = TRUE
    /\ net = {}

\* No handler reads the numbers of a reset.
Message(i, m) == [to |-> Peer(i), f |-> m.f,
                  seq |-> IF m.f \in {"RST", "RSTACK"} THEN 0 ELSE m.seq,
                  ack |-> IF m.f \in {"RST", "RSTACK"} THEN 0 ELSE m.ack]

\* Side i has handled an event with the result r.
Handled(i, r) ==
    /\ socks' = [socks EXCEPT ![i] = r.k]
    /\ net' = net \cup {Message(i, m) : m \in r.out}
    /\ UNCHANGED listening

Connection(i) == socks[i].ep /\ socks[i].st # "CLOSED"

\* The application calls Connect on a new socket.  The server does so only when
\* it no longer listens: a simultaneous open.
Connect(i) ==
    /\ socks[i].made = 0 /\ (i = "server" => ~listening)
    /\ Handled(i, Enter(SendEmptyPacket(
                      Handling([socks[i] EXCEPT !.ep = TRUE, !.synCount = SynRetries,
                                                !.retries = DataRetries, !.made = 1]), "SYN"),
                    "SYN_SENT"))

\* Connect on a socket that has a connection resets it.
ConnectAgain(i) ==
    /\ socks[i].st \in {"ESTABLISHED", "FIN_WAIT_1", "FIN_WAIT_2", "CLOSING"}
    /\ Connection(i)
    /\ Handled(i, Reset(Handling(socks[i])))

\* The application has the socket from Connect or from NotifyNewConnectionCreated,
\* which is called when a forked socket leaves SYN_RCVD.  That a caller in a
\* simultaneous open may close in SYN_RCVD is left out.
Owned(i) == Connection(i) /\ socks[i].st # "SYN_RCVD"

Close(i) == Owned(i) /\ Handled(i, DoClose(Handling(socks[i])))

Shutdown(i) ==
    /\ Owned(i) /\ ~socks[i].shutdown
    /\ Handled(i, ShutdownSend(Handling(socks[i])))

\* The server closes its listening socket.
CloseListener ==
    /\ listening
    /\ listening' = FALSE
    /\ UNCHANGED <<socks, net>>

Reactions == {"none", "close", "shutdown", "closeAccepted"}

\* A segment reaches the socket of its connection.
Receive(i) ==
    /\ Connection(i)
    /\ \E m \in net, reaction \in Reactions :
         m.to = i /\ Handled(i, DoForwardUp(Handling(socks[i]), m, reaction))

\* ProcessListen and CompleteFork: a SYN for which there is no connection.
Fork ==
    /\ ~Connection("server") /\ listening /\ socks["server"].made < MaxForks
    /\ \E m \in net :
         /\ m.to = "server" /\ m.f = "SYN"
         /\ Handled("server", SendEmptyPacket(
                Handling([NewSocket EXCEPT !.st = "SYN_RCVD", !.ep = TRUE,
                                           !.synCount = SynRetries, !.retries = DataRetries,
                                           !.rcvNxt = m.seq + 1,
                                           !.made = socks["server"].made + 1]), "SYNACK"))

\* TcpL4Protocol: no endpoint matches, not even a listening one.
NoEndPointsFound(i) ==
    /\ ~socks[i].ep /\ (i = "server" => ~listening)
    /\ \E m \in net :
         /\ m.to = i /\ m.f \notin {"RST", "RSTACK"}
         /\ Handled(i, [k |-> socks[i],
                        out |-> {[f |-> IF m.f = "SYN" THEN "RSTACK" ELSE "RST",
                                  seq |-> m.ack, ack |-> m.seq + 1]}])

Retransmit(i) == socks[i].retx # "none" /\ Handled(i, RetxEvent(socks[i]))

LastAckExpires(i) == socks[i].lastAck /\ Handled(i, LastAckTimeout(Handling(socks[i])))

TimeWaitExpires(i) == socks[i].timewait /\ Handled(i, CloseAndNotify(Handling(socks[i])))

Timers(i) == Retransmit(i) \/ LastAckExpires(i) \/ TimeWaitExpires(i)

Next ==
    \/ \E i \in Sides : Connect(i) \/ ConnectAgain(i) \/ Close(i) \/ Shutdown(i)
    \/ \E i \in Sides : Receive(i) \/ NoEndPointsFound(i) \/ Timers(i)
    \/ Fork \/ CloseListener

Spec == Init /\ [][Next]_vars

\* The simulator runs every scheduled event; nothing obliges the network to
\* deliver or the application to close.
FairSpec ==
    Spec /\ \A i \in Sides : WF_vars(Retransmit(i)) /\ WF_vars(LastAckExpires(i))
                             /\ WF_vars(TimeWaitExpires(i))

----------------------------------------------------------------------------
(***************************************************************************)
(* Properties.                                                             *)
(***************************************************************************)

SocketType ==
    [st : States, ep : BOOLEAN, nextTx : 0..2, highTx : 0..1, head : 0..2, rcvNxt : 0..2,
     fin : {NoFin, 1}, retx : {"none", "SYN", "SYNACK", "FINACK", "RTO"},
     synCount : 0..SynRetries, retries : 0..DataRetries, lastAck : BOOLEAN,
     timewait : BOOLEAN, shutdown : BOOLEAN, notified : BOOLEAN, made : 0..(MaxForks + 1)]

\* The sequence numbers of a connection without data never leave the room of
\* the SYN and the FIN, whatever was repeated or came late.
TypeOK ==
    /\ \A i \in Sides : socks[i] \in SocketType
    /\ listening \in BOOLEAN
    /\ \A m \in net : m.seq \in 0..2 /\ m.ack \in 0..2

\* A socket that waits for an answer of the peer has a timer that will repeat
\* its question: no loss of a SYN, SYN+ACK or FIN can silence it (m_retxEvent,
\* tcp-socket-base.cc:2918).  TIME_WAIT has its own timer and no other.
WaitingHasTimer ==
    \A i \in Sides : socks[i].ep =>
        /\ socks[i].st \in {"SYN_SENT", "SYN_RCVD", "FIN_WAIT_1", "CLOSING", "LAST_ACK"}
              => socks[i].retx # "none"
        /\ socks[i].st = "TIME_WAIT" => socks[i].timewait /\ socks[i].retx = "none"

\* A socket without an endpoint has no event left that would send a segment
\* through it or change its state (CancelAllTimers in DeallocateEndPoint).
DeadSocketSilent ==
    \A i \in Sides : ~socks[i].ep =>
        socks[i].retx = "none" /\ ~socks[i].lastAck /\ ~socks[i].timewait

\* Every state change is an arrow of the TCP state diagram, and a state that
\* claims something of the peer (it has my SYN, it has sent or received a FIN)
\* is entered only when the peer has done it.
SentBy(i) == {m \in net : m.to # i /\ m.f \notin {"RST", "RSTACK"}}

Said(i) == IF \E m \in SentBy(i) : m.f = "FINACK" THEN 2
           ELSE IF \E m \in SentBy(i) : m.f \in {"SYN", "SYNACK"} THEN 1 ELSE 0

Heard(i) == Max({socks[i].rcvNxt} \cup {m.ack : m \in SentBy(i)})

Lifecycle == INSTANCE ConnectionLifecycle
                WITH life <- [i \in Sides |-> IF socks[i].ep THEN socks[i].st ELSE "CLOSED"],
                     said <- [i \in Sides |-> Said(i)],
                     heard <- [i \in Sides |-> Heard(i)]

FollowsLifecycle == Lifecycle!Spec

\* A handshake ends, in a connection or in CLOSED, whatever the network does: the
\* number of SYNs is bounded (m_synCount), the timers that count it run.
HandshakeEnds ==
    \A i \in Sides : socks[i].st \in {"SYN_SENT", "SYN_RCVD"}
                       ~> socks[i].st \notin {"SYN_SENT", "SYN_RCVD"}

\* A socket that went to LAST_ACK from the notification of the peer's FIN gives
\* up after m_dataRetries repetitions ("prevent endless FINs",
\* tcp-socket-base.cc:2758), and TIME_WAIT ends.
ClosingEnds ==
    \A i \in Sides : socks[i].lastAck \/ socks[i].timewait ~> ~socks[i].ep

\* doc/tcp.rst:339, on the close of a socket: "Received an ACK for the FIN sent,
\* with or without the FIN bit set (we are in LAST_ACK)".  When no reset was sent,
\* LAST_ACK ends in CLOSED only if the peer has sent an ACK that covers the FIN.
LastAckWaitsForAck ==
    [][ \A i \in Sides :
          /\ socks[i].st = "LAST_ACK" /\ socks'[i].st = "CLOSED"
          /\ \A m \in net' : m.f \notin {"RST", "RSTACK"}
          => \E m \in net : m.to = i /\ m.ack = socks[i].highTx + 1 ]_vars
=============================================================================
