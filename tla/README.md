# TLA+ models of the TCP of this repository

The repository is ns-3.40 with a changed TCP: two adaptive delayed-ACK policies
(TCP-AAD, *aggregation-aware delay*, and TCP-ADW, *adaptive delay window*) inside
`TcpSocketBase`, a TCP option that carries the sender's congestion window, and the
congestion controls TcpCerl, TcpCerlPlus and TcpCerlX. This directory models that TCP,
model-checks it with TLC and proves part of it with TLAPS. All source paths below are
relative to `src/src/internet/model/` unless they say otherwise.

## 1. Inventory

| part | state | operations | calls, is called by |
|---|---|---|---|
| Delayed ACK policy (`tcp-socket-base.cc`) | `m_delAckCount`, `m_delAckEvent`, `m_lastPacketTime`, `m_lastUpdate`, `m_iat`, `m_baseIat`, `m_dwnd` | `ReceivedData`, `DelAckTimeout`, `GetDelayTimeout`, `DelayWindow`, `UpdateDelayWindow`, `GetTimeRatio` | called for each data segment; every segment sent with an ACK cancels the timer |
| CWND option (`tcp-option-cwnd.cc`) | `m_rcvCwndValue`, `m_cwndDiff` | `ProcessOptionCongestionWindow`, `AddOptionCongestionWindow` | the peer's window moves `m_dwnd` under ADW |
| ECN | `m_ecnState`, `m_ecnCESeq`, `m_ecnEchoSeq`, `m_ecnCWRSeq` | `ForwardUp`, `DoForwardUp`, `ReceivedAck`, `SendEmptyPacket`, `SendDataPacket` | one state for both directions |
| Receive buffer (`tcp-rx-buffer.cc`) | `m_data`, `m_nextRxSeq`, `m_finSeq`, `m_size`, `m_availBytes`, `m_sackList` | `Add`, `Extract`, `SetFinSequence`, `UpdateSackList`, `ClearSackList` | `ReceivedData`, `PeerClose`, `Recv`; its limits are the advertised window |
| Segment validation, window | the offered window | `OutOfRange`, `IsValidTcpSegment`, `AdvertisedWindowSize` | in front of every handler |
| Transmit buffer (`tcp-tx-buffer.cc`) | sent and application lists, SACK, lost and retransmitted marks and their counters | `NextSeg`, `Update`, `DiscardUpTo`, `MarkHeadAsLost`, ... | the sender |
| Loss recovery, retransmission timer | `m_congState`, `m_recover`, `m_dupAckCount`, `m_cWnd`, `m_ssThresh`, `m_retxEvent`, `m_rto` | `ReceivedAck`, `ProcessAck`, `DupAck`, `EnterRecovery`, `EnterCwr`, `NewAck`, `ReTxTimeout` | congestion control and recovery objects through callbacks |
| TcpCerl family (`tcp-cerl.cc`) | minimum RTT, longest queue, `m_oldCwnd`, RTT samples | `PktsAcked`, `GetSsThresh`, `EnterRecovery`, `ExitRecovery`, `IncreaseWindow` | called by the sender at state changes |
| Connection state machine | `m_state`, retry counters, `m_lastAckEvent`, `m_timewaitEvent` | `Connect`, `Listen`, `Process*`, `Close`, `PeerClose`, `LastAckTimeout`, ... | the application, the peer |
| Persist timer | `m_persistEvent`, `m_persistTimeout` | `PersistTimeout`, the persist branches of `DoForwardUp`, `UpdateWindowSize` | zero windows; competes with the retransmission timer |
| RTT and timestamps | `m_history`, estimator, `m_timestampToEcho` | `EstimateRtt`, `UpdateRttHistory`, `ProcessOptionTimestamp` | every ACK |

Everything runs in one thread of a discrete-event simulator: there is no preemption, the
concurrency is in the order of *events* (segments of the peer in any order and any number,
timers, application calls), and in *callbacks* that re-enter the socket (`NotifyDataRecv`
lets the application read in the middle of `ReceivedData`).

What is hard here:

* a timer that three policies start, keep, replace and cancel in different places, and that
  any segment sent in the other direction cancels as well;
* delays computed in floating point from infinities, and converted to integer times;
* a window offered now and used by the peer later;
* overlapping segments of different sizes, the FIN before, with or after its data;
* one ECN state shared by the two directions;
* a scoreboard, five congestion states, a recovery point and one timer, changed by duplicate,
  selective, partial and late ACKs, ECN echoes and timeouts in any order;
* recovery state of the congestion control that survives a path which skips the exit hook;
* opening and closing handshakes with lost, repeated and late segments, and an application that
  closes from inside a callback;
* two timers (persist and retransmission), two ways of holding data back (silly window avoidance
  and Nagle's algorithm) and a receiver that sends no window update.

What makes the parts correct: an ACK that is owed is always on its way, and within a bounded
delay; a window that was offered is honoured; no accepted byte is lost, repeated or reordered;
the SACK list reports what is held; CE marks reach the sender; the counters agree with the
contents; the sender's scoreboard is true, what is lost is sent again, and a connection that waits
for something always has a timer that will end the wait; a connection state says nothing about
the peer that is not so. `PROJECT.json` lists the hazards one by one, with the line where each bites and the
properties that cover it.

## 2. Modules

| module | what it is |
|---|---|
| `TcpDelayedAck` | receiving half of `TcpSocketBase` in ESTABLISHED, with the three ACK policies, ECN and the CWND option; counts segments |
| `MCTcpDelayedAck` | the values of the undefined conversion, for TLC |
| `TcpDelayedAck_proofs` | the TLAPS proofs about `TcpDelayedAck` |
| `ByteStream` | abstract specification: what the application of a TCP receiver is promised |
| `TcpRxBuffer` | `TcpRxBuffer` and the socket handlers that drive it in ESTABLISHED, CLOSE_WAIT and FIN_WAIT; counts bytes; implements `ByteStream` |
| `TcpRxBuffer_proofs` | the TLAPS proofs about `TcpRxBuffer`, with its refinement |
| `TcpSender` | sending half of `TcpSocketBase` in ESTABLISHED: `TcpTxBuffer`'s scoreboard, loss recovery, retransmission timer, ECN reductions, with TcpCerl, Classic recovery and PRR, over a lossy network |
| `TcpSender_proofs` | the TLAPS proofs about `TcpSender` |
| `TcpSenderWindow_proofs` | the TLAPS proofs about its windows with `TcpClassicRecovery`, and what follows from them |
| `TcpFlowControl` | a sender and a receiver around the offered window: persist timer, probes, silly window avoidance, Nagle's algorithm |
| `TcpFlowControl_proofs` | the TLAPS proofs about `TcpFlowControl` |
| `ConnectionLifecycle` | abstract specification: what the connection state of one side says about the other |
| `TcpConnection` | opening and closing between a client, a listener and its forked socket; implements `ConnectionLifecycle` |
| `TcpConnection_proofs` | the TLAPS proofs about `TcpConnection`, with its refinement |
| `NumberFacts` | least and greatest elements, sizes of intervals, induction: what the proofs about sender and receive buffer share |

`TcpDelayedAck` and `TcpRxBuffer` look at the same handlers from two sides. `TcpDelayedAck` keeps the
decision of *when* to acknowledge exact and abstracts the buffer to whole segments;
`TcpRxBuffer` keeps the buffer exact, byte by byte, and leaves *when* to acknowledge open
wherever `ReceivedData` may delay. `TcpSender` is the other end of such a connection, with a peer
that acknowledges every segment; `TcpFlowControl` composes a sender with a receiver, in order and
with windows in bytes, because its questions need both ends. Operators that a comment calls *Mutant*
are variants of the definition below them with a plausible bug. No specification uses them; each
shows that some property notices the bug.

### TcpDelayedAck

Time is a count of ticks and all times are relative to now; sequence numbers are offsets from
RCV.NXT in segments. An endless stream therefore has finitely many states and no counter has
to stop.

| variable | code |
|---|---|
| `ooo`, `avail` | what is in `m_rxBuffer`: offsets beyond a gap, in-sequence segments not read |
| `edge` | right edge of the window last offered (`AdvertisedWindowSize` in the last ACK) |
| `unacked` | in-sequence segments above the last ACK number sent |
| `highTxAck` | RCV.NXT - `m_highTxAck` |
| `delAckCount`, `delAckEvent` | the members; the timer as ticks left, `Never` when expired or cancelled |
| `lastPacket`, `lastUpdate`, `iat`, `baseIat` | the members, as ticks |
| `dwnd` | `m_dwnd` in 1/`Scale` bytes; `Scale` is a common denominator of every value of 1 - theta, so no rounding takes place |
| `rcvCwnd`, `cwndDiff` | `m_rcvCwndValue`, sign of `m_cwndDiff` |
| `ecnState`, `ecnCESeq`, `echoAhead` | `m_ecnState`, `m_ecnCESeq`, `m_ecnEchoSeq > m_ecnCWRSeq` |
| `inFlight`, `aborted` | own data is outstanding; an assertion fired |
| `waited`, `out` | history |

Actions: `ReceivedDuplicate`, `ReceivedOutOfOrder`, `ReceivedGapSegment`, `ReceivedWindowFull`
and `ReceivedDelayed` are the five outcomes of `ReceivedData`, each with the whole path from
`ForwardUp` (CE), `DoForwardUp` (options, CWR) and the inter-arrival measurement to the ACK;
`ForwardUpOutOfRange` is the answer of `IsValidTcpSegment`; `SendDataPacket` and `ReceivedAck`
are the other direction as far as it touches the receiver's state; `DelAckTimeout`, `Recv` and
`Tick` are the timer, the application and the clock. The application may read inside
`NotifyDataRecv`: `NextSegment` chooses any amount.

`Seconds(INFINITY)` is a conversion of an infinite floating-point value to an integer, undefined
in C++. `GetDelayTimeout` chooses from the constant `SecondsOfInfinity`: zero (what gcc's
runtime yields) in the runs.

### TcpRxBuffer

`rx` is a record of the members of class `TcpRxBuffer`; `m_data` is a set of chunks, a chunk
being the range of stream positions it holds, so that losing, repeating or shifting a byte shows. The loops over
`m_data` are `InOrder`: one turn (`RemoveOverlapped`, `Advance`, `TakeFrom`) for each chunk, in the order of the keys.
`Add`, `Extract`, `UpdateSackList`, `ClearSackList`, `MaxRxSequence` and `SetFinSequence` are
operators on that record. The handlers are `ReceivedData`, `DiscardOutOfRange`, `PeerClose`,
`FinInWait`, `FinWithDataInFinWait`, `ShutdownSend`, `Recv`, `SetRcvBufSize` and `SendAck`. `state` is
`m_state` as far as these handlers tell states apart: FIN_WAIT_1 and FIN_WAIT_2 are one, TIME_WAIT
includes CLOSING, and neither of these takes data. The peer sends any piece of its stream
within the largest window it was offered, in any order, any number of times, and probes a closed
window with one byte. `edge` is that window, `answer` records whether the last step sent an ACK,
left it to the delayed-ACK timer, or sent nothing. `GapReported` ties that decision to the buffer:
`ReceivedData` decides from `Size()` and `Available()`, after the application has read, whether the
ACK may wait, and must not leave a peer with an open gap to the timer.

### ByteStream

`got` (positions accepted), `delivered` (bytes read, in order) and `eof`. A step accepts more
bytes, hands over the next accepted ones, or reaches the end once all are accepted. Nothing
accepted is forgotten and what is delivered is always a prefix of the stream.
`TcpRxBuffer` is shown to implement it with `got <- Held(rx) \cup ToSet(delivered)`.

### TcpSender

The application writes whole segments, so an item of the sent list is one segment and is named by
its number; windows are in bytes, in words of `Word` values where the code's unsigned arithmetic
can wrap.

| member of `snd` | code |
|---|---|
| `una`, `nxt`, `written` | `m_firstByteSeq`, end of the sent list, end of the application list |
| `sacked`, `lost`, `retrans`, `highSack` | the marks of `TcpTxItem`, `m_highestSack` |
| `cwnd`, `cwndInfl`, `ssThresh`, `congState`, `bytesInFlight` | `TcpSocketState` |
| `recover`, `recoverActive`, `dupAckCount`, `isFirstPartialAck` | the members of `TcpSocketBase` |
| `retxEvent`, `retries` | `m_retxEvent` is running, `m_dataRetrCount` |
| `oldCwnd`, `maxSentSeq`, `ackSeen` | TcpCerl: `m_oldCwnd`, `m_maxSentSeqno`; `m_lastAckedSeq > 0` |
| `prrDelivered`, `prrOut`, `recoveryFlight` | `TcpPrrRecovery` |
| `build`, `failed`, `alive` | assertions are compiled in, which one failed; the socket has not given up |

`ReceivedAck` is the whole path from the SACK option through `DiscardUpTo`, `EnterCwr` and
`ProcessAck` (`DupAck`, `PartialAck`, `FullAck`) up to `SendPendingData`; `SendSegment` and
`StopSending` are the turns of that function's loop, during which `phase` keeps other events out;
`ReTxTimeout` is the timer. `Deliver` and `Lose` are the network. Which losses TcpCerl attributes to
congestion (its round-trip times) is left open: both answers are tried for every ACK.

### TcpConnection

A socket is a record (`socks[i]`) of the members that opening and closing use; the comment of
`NewSocket` names each. No data is sent, so the only sequence numbers are those of SYN and FIN. `net` is the set of all segments ever sent: each may arrive never, once or
many times, in any order, at any later time. A handler maps the socket and what it has sent to the
same after the handler, so that a handler that calls another (`PeerClose`, `DoPeerClose`, `DoClose`,
`CloseAndNotify`) is written as it is in the code; `Receive` applies `DoForwardUp`, the timers are
`Retransmit` (whatever `m_retxEvent` was scheduled with), `LastAckExpires` and `TimeWaitExpires`.
The application calls `Connect`, `Close` and `ShutdownSend` at any time and from the callbacks of the
peer's FIN and of acceptance (`Reactions`).

`ConnectionLifecycle` is the state diagram with its meaning: a step follows an arrow, and a state such as
FIN_WAIT_2 is entered only when the peer has really received the FIN. `Said` and `Heard` are the
refinement mapping, from the segments in the network and from RCV.NXT.

### TcpFlowControl

`snd.una`, `highTx`, `nextTx`, `wrote` are `HeadSequence`, `m_highTxMark`, `m_nextTxSequence` and the
end of the transmit buffer; `rWnd`, `highRxAck` what `UpdateWindowSize` keeps; `retx` and `persist` the two
timers; `lost` and `resent` say that a timeout marked the sent list and how much of it went out again.
`rcv.next` and `rcv.read` are RCV.NXT and the application's position, so that the window is
`read + BufSize - next`. `ReceiveAck` is `DoForwardUp` from `UpdateWindowSize` to the end: entering the
persist state, `ProcessEstablished`, leaving it. A probe byte that the receiver accepts is
not counted as sent by the sender, and the ACK for it is dropped by `ProcessEstablished`, but its window
counts. Both timers are taken to be longer than a round trip (`Quiet`).

## 3. Runs

`tlc -config <cfg> <module>`; the module is `MCTcpDelayedAck` for `DelAck_*.cfg`, otherwise the one with
the name of the cfg (`TcpRxBuffer`, `TcpSender`, `TcpConnection`, `TcpFlowControl`).

| cfg | question | result |
|---|---|---|
| `DelAck_classic` | classic policy, ECN: is an ACK ever forgotten or late; is an offered window kept; is a CE mark lost | holds |
| `DelAck_aad` | AAD on a socket that also sends: is an ACK ever forgotten, late, or never sent; does the base inter-arrival time forget a value that has become too small, and come back to the smallest still measured | holds |
| `DelAck_adw` | ADW with the CWND option: do the delayed segments stay below a window that stays below its caps | holds |
| `RxBuffer_reassembly` | segments of 1 to 5 bytes, every overlap, FIN anywhere, `SetRcvBufSize` at any time, more islands than SACK blocks: counters, offered windows, a SACK list that is truthful, complete until a block is dropped and newest first, gaps reported at once, refinement of `ByteStream` | holds |
| `RxBuffer_delivery` | is the stream delivered and its end reached when the peer keeps retransmitting, with its FIN alone or on the last bytes, also when this side closed first | holds, with one named exception |
| `Sender_recovery` | lost, repeated, reordered segments and ACKs, ECN echoes, timeouts, Classic and PRR, debug and optimized builds: with the default initial threshold, does the scoreboard stay true and consistent, does the timer run, is the recovery point valid, the window usable, the head and nothing SACKed sent again, do the socket's assertions hold | holds, with one named exception |
| `Sender_progress` | is everything acknowledged or the connection given up, whatever is lost, with the default initial threshold | holds, with the same exception |
| `Connection_faults` | opening, simultaneous open, closing, simultaneous close, resets, with every loss, repetition and delay: refinement of `ConnectionLifecycle`, timers of waiting and of dead sockets, handshakes and closes that end | holds |
| `FlowControl_zero_window` | a slow reader, lost ACKs and probes, with and without Nagle: does data always fit, do probes stay one byte ahead, can the sender wait without a timer, is everything read | holds, with two named exceptions |
| `Sender_cerl_assertion` | the assertion of `TcpCerl::GetSsThresh` that an ACK was seen | violated by a timeout before the first ACK |
| `Connection_last_ack` | LAST_ACK is left for CLOSED when the FIN is acknowledged | violated by a repeated FIN+ACK |
| `Sender_window_wrap` | the ACK that ends fast recovery leaves a window of the threshold or more | violated with the default threshold: the window wraps to 0 |

The three `DelAck` runs share out the properties of `TcpDelayedAck`, each where it is hardest; section 4
proves the safety ones for all three policies.

A violated run states what a comment, a document or an assertion of the repository says; the
finding in `PROJECT.json` quotes it.

The exceptions are ends that the code really has. Each is named in the property, so that the run shows that
there is no other:

* `EventuallyDelivered`: in ESTABLISHED, a segment with the FIN whose first byte lies below RCV.NXT is dropped every time it
  comes (divergences, receive buffer);
* `WindowUsable`, `TimerRuns`, `Settles`: before the first reduction of the slow start threshold the congestion window can wrap
  to 0. With everything sent acknowledged the sender is then `Stranded`: later data is not sent and no timer runs. This is what
  `Sender_window_wrap` shows. Without `Stranded` TLC violates `Settles` (a `Send` after the wrap);
* `StuckOnlyHeldBack`, `EventuallyRead`: silly window avoidance and Nagle's algorithm (`HeldBack`).

### Divergences without a run

Met while modelling, reached by the models where they are of a modelled part, and not kept as runs:

* delayed ACK: `m_highTxAck`, "Highest ack sent" (`tcp-socket-base.h:1382`), is not updated by ACKs on
  data segments (`tcp-socket-base.cc:3225`); the default timer serves one packet fewer than
  `m_delAckMaxCount` (4866); the threshold that "all considered IAT values" must pass (181) does not apply
  to the smoothed delay (4872); until an inter-arrival time was measured the delay is
  converted from infinity, undefined and possibly negative (4875);
* ECN: an echo received overwrites an echo owed, since both directions share `m_ecnState` (1947, against
  `doc/tcp.rst:1235`); the ACK to an out-of-window segment never carries ECE (1349);
* receive buffer: `SetRcvBufSize` below what is held fails the assertion of `AdvertisedWindowSize` (4156,
  3562); a FIN whose segment starts below RCV.NXT is neither recorded nor answered (2693, against the comment at 1348): a peer that calls
  `ShutdownSend` while its last data is received but not yet acknowledged, or after a probe byte of it was accepted, retransmits that
  data with the FIN on it (3243), and the receiver in ESTABLISHED drops it for ever (the exception of `EventuallyDelivered`);
  a chunk embedded in a new segment leaves its SACK block behind (`tcp-rx-buffer.cc:183`); a segment
  that fills a gap and also covers the island behind it may be acknowledged late, against "filled a gap"
  (3671); in FIN_WAIT a FIN that carries data is recorded at the segment's first byte (2573), so that
  the FIN itself is not acknowledged, and after `SetRcvBufSize` to less than was offered the end of the stream is
  taken for reached with bytes missing (the reassembly run with `ClosesFirst = TRUE` shows it); when
  data fills the gap before a recorded FIN, `ReceivedData` calls `DoPeerClose` in FIN_WAIT too, and a
  socket that has sent its FIN goes to CLOSE_WAIT (3656);
* sender: `NextSeg` offers a segment of no bytes when the peer's window is filled to the byte
  (`tcp-tx-buffer.cc:1019`); `ssThresh` is lowered at every repeated timeout, against the comment at
  3933, because `IsHeadRetransmitted` is asked after the marks were cleared (3936); a timeout in fast
  recovery leaves TcpCerl's `m_oldCwnd` for a later recovery (3938);
* assertion of `DupAck` in CA_OPEN (1792, "From OPEN->DISORDER but with ... dup ACKs"): duplicate ACKs are counted in CA_CWR, and
  the ACK that ends CA_CWR (1925) does not reset the count. If that ACK also reports new data beyond a gap, `DupAck` finds CA_OPEN with a
  count above one. `failed = "DupAckCount"` is therefore not among `SocketAssertions`. The bounds of `Sender_recovery` do
  not reach it, because it takes data sent in CA_CWR with a gap beyond the recovery point; a search with eleven segments, narrowed to
  the case, finds it in 40 steps (ACK of 2 with ECE while 2 is missing, SACKs of 3 to 8, and an ACK of 9 with a SACK of 10);
* windows of the sender: `InitialSlowStartThreshold` is `UINT32_MAX` by default (`tcp-socket.cc:80`). With `TcpClassicRecovery` and
  TcpCerl, the pair that `scratch/delay-change.cc:153` configures, a first fast recovery that CERL does not attribute to congestion, or that falls into
  the first window, keeps the threshold; `ExitRecovery` then sets the window to it (`tcp-recovery-ops.cc:125`, where the comment says that
  `m_cWnd` "is reset to ssThresh immediately before", while TcpCerl has just restored `m_oldCwnd`), and the next step
  of congestion avoidance wraps to 0: `Sender_window_wrap`. With PRR
  the conversion of `ssThresh - bytesInFlight` to `int` is negative (`tcp-prr-recovery.cc:115`), so that nothing
  is sent beyond what is in flight until recovery ends (`WindowUsable` says so). And PRR with `ReductionBound` CRB, which is not the default, reaches a window of 0 for any threshold
  (eight segments, found by simulation): in CA_CWR duplicate ACKs are not counted in `m_prrDelivered`;
* flow control: a window that is not zero but below a segment, with more data waiting, stalls the connection for ever: `SendPendingData` breaks (3424), the
  persist timer starts only at zero (1475) and `Recv` sends no window update (947), against `doc/tcp.rst:1733`, "The sender has a timer to periodically check the
  receiver's window" (9 bytes in writes of 3, segments of 2 and a buffer of 4, without any loss; `HeldBack`); `PersistTimeout` goes through a null pointer when there is nothing to probe with (4015);
  `NewAck` starts the retransmission timer again after the persist state has cancelled it (3810 against 1481); Nagle's
  check (3430) also stops retransmissions, so that with `TcpNoDelay` off a tail smaller than a segment
  whose ACK was lost is never sent again and no timer runs; a persist timeout shorter than the
  round trip can stall in the same way (two probes under way), which the model excludes;
* connection: TIME_WAIT never acknowledges a repeated FIN; in CLOSING and LAST_ACK the ACK is recognised by
  its sequence number and not by what it acknowledges; in CLOSE_WAIT a repeated FIN is not answered
  (2573); `ShutdownSend` with all data in flight sends no FIN when the buffer empties, only on a
  retransmission (3243, against the comment at 855 and `doc/tcp.rst:257`); an application that closes from the close callback
  re-enters `CloseAndNotify` before `m_closeNotified` is set (1183).

### Bounds, and why they are enough

`TcpDelayedAck` has no bound on the length of a behaviour. `MaxGap` caps measured gaps: it must
reach `DelAckTime` (beyond it no delay changes) and leave room above the reset period's effect;
`MaxWait` and `MaxLag` cap history only. `RcvBuf = 4` segments lets two separate gaps exist
and lets the window close; `DelAckMaxCount` 2 or 3 distinguishes the first, a middle and the
last delayed segment; `UpdatePeriod > DelAckTime` lets a timer run across a reset. The CWND
values of the ADW run (2, 5, 12 bytes, segments of 2 and an advertised window of at most 7)
include one below a segment, one below and one above the advertised window, so that each
argument of the nested minimum is the effective one somewhere.

`TcpRxBuffer` is bounded by the stream. Eight bytes, a buffer of six (shrunk to three and
back) and segments up to five bytes contain a chunk strictly inside a segment with bytes on either
side, a segment that covers two chunks, window limits in the middle of a segment, and three islands
for a SACK list of two blocks (the code keeps four: the constant `SackBlocks` scales it down).
With a buffer of constant size the same properties hold when this side closes first (`ClosesFirst = TRUE`). Sequence numbers do not wrap in either module: the source's `SequenceNumber32`
comparisons are modelled for differences below 2^31, which windows below 2^30 guarantee.

`TcpSender`: four segments with a duplicate-ACK threshold of two give recovery by count, by `IsLost` and
after a partial ACK, and leave a segment beyond the recovery point; two ACKs in the network, with copies of
segments staying behind, reorder and repeat them. `DataRetries` of two allows a timeout
during recovery and one more after it. `RWnd` is never the limit (see the empty segment above).
`InitialSsThresh = Word - 1` is the code's default. `Word = 1024` is far above any other window reached, so that a wrap-around
comes from that threshold or from a subtraction and not from the bound; the product of PRR does not overflow. Three segments are written at first, so that the fourth
can come after a wrap. `Sender_progress` has one ACK in the network and no ECN, to
keep the liveness check small; `Sender_window_wrap` has three segments.

`TcpConnection` bounds only the retries and the number of forked sockets; the set of segments is
finite by itself because numbers stay in 0..2 (`TypeOK`).

`TcpFlowControl`: nine bytes in writes of four, segments of three and a buffer of five: writes do not
divide into segments, the buffer not into segments, and the window ends inside a segment. Two
losses allow the loss of an ACK that opens the window and of the probe that follows, and of two
successive probes. `MaxLoss` below the retry limit keeps the model from
giving up. The same invariants hold with 2/5, 3/7, 2/4 and 3/2 bytes for segment and buffer, and are proved
for every size.

`CHECK_DEADLOCK FALSE` is said where the system may stop: a shrunk buffer can make the assertion of
`AdvertisedWindowSize` fail (`RxBuffer_reassembly`); a sender ends when all is acknowledged or it
has given up; a connection ends closed; a transfer ends when all is read or the sender is stuck.

### Fairness

`TcpDelayedAck!FairSpec`: weak fairness of `Tick` and of `DelAckTimeout`, because
`DefaultSimulatorImpl::Run` always takes the earliest event and a due event is executed before
time advances. Nothing is assumed about the peer or the application.

`TcpRxBuffer!FairSpec`: the application reads, and an ACK is sent again and again (delayed-ACK timer, answers to probes).
What is assumed of the peer is in the property, `PeerRetransmits(first)`, for every place `first` where its segment with the FIN may
start: a missing byte below `first` that would be accepted now is retransmitted until it is, and so is the segment of all from `first` on with the FIN, as
`SendDataPacket` builds it (3243): never the FIN without those bytes. The network does not lose every copy. So `EventuallyDelivered` does not assume a
bare FIN of a peer that would not send one, and the segments that `PeerClose` drops are its exception.

`TcpSender!FairSpec`: weak fairness of the sending loop, which no event interrupts, and strong fairness of
`ReTxTimeout`: its event is scheduled at a finite time; the model has no clock, so ACKs of no
news could otherwise keep it waiting for ever by interrupting it with sending phases. Nothing is assumed about the network: it may
lose everything, and then the socket gives up. `Settles` has one more end, `Stranded` (above): there no event is left, under any fairness.

`TcpConnection!FairSpec`: weak fairness of the three timers of each socket, scheduled events again.
Nothing obliges the network to deliver or the application to close.

`TcpFlowControl!FairSpec`: weak fairness of the application's writes and reads, of the sending loop, of the
timers, and of arrival: there are no more losses than `MaxLoss`, and what is not lost arrives.

## 4. Proofs

`TcpDelayedAck_proofs` proves, for all policies and all values of the constants that satisfy the
named assumptions of `TcpDelayedAck`:

| theorem | statement |
|---|---|
| `Invariance` | `Spec => []IndInv` |
| `TypeCorrect` | `Spec => []TypeOK` |
| `AckNeverForgotten` | `Spec => []NoForgottenAck` |
| `AckLatencyBounded` | `Spec => []AckLatency` |
| `ReceiveWindowSafe` | `Spec => []WindowRespected` |
| `DelayedSegments` | `Spec => []DelayedSegmentsBounded` |
| `MarkEchoed` | `~Bidirectional` gives `Spec => CeEchoed` |

`IndInv` is `TypeOK /\ WindowRespected /\ NoForgottenAck /\ AckLatency /\ Bookkeeping`.
`Bookkeeping` is what the others lack to be inductive: `m_delAckCount` is at least the number of
unacknowledged segments (it starts at `m_delAckMaxCount` and every ACK resets it), while any is
unacknowledged the counter is below the window it was compared with, and `m_dwnd` stays below
lambda segments or what buffer and 16-bit window allow. The latency bound needs
`lastPacket + delAckEvent <= DelAckTime`: the adaptive policies restart the timer, so the first
unacknowledged segment waits up to `DelAckTime` per segment; the classic policy keeps its timer,
so the sum of time waited and time left stays equal to `DelAckTime`.

Assumptions: `ModeAssumption` (switches are Boolean), `SizeAssumption` (sizes and times are
natural, timer, count, threshold, segment and buffer positive, the caps on gaps and waits at least
`DelAckTime`), `ParameterAssumption` (alpha is a fraction of one, lambda positive, the
sentinels are no numbers) and the type of `Scale`. TLC evaluates all of them in every run of the module.

One lemma per action (`DelayedInv`, `TickInv`, ...) shows that the action keeps `IndInv`. The
steps that send an ACK share `AckRestores`: after an ACK nothing is owed, whatever the state was.

`TcpFlowControl_proofs` proves, for every segment size, buffer size, amount written, number of losses,
with and without Nagle (`FlowAssumption`: sizes are positive naturals):

| theorem | statement |
|---|---|
| `Invariance` | `Spec => []IndInv` |
| `TypeCorrect` | `Spec => []TypeOK` |
| `DataAlwaysFits` | `Spec => []DataFits` |
| `ProbeOneAhead` | `Spec => []ProbeAhead` |
| `NoOtherStall` | `Spec => []StuckOnlyHeldBack` |

`IndInv` is `Types /\ Order /\ Edges /\ Probes /\ Timers`.

* `Order` orders the sender's and the receiver's numbers.
* `Edges` is about right edges of the window: what was sent is left of the edge the sender knows
  (`highRxAck + rWnd`), that one is left of the edge of every ACK under way, those are ordered
  among themselves, and the last one is left of the buffer's end. An ACK that is lost or late therefore
  never takes room away, and `DataFits` follows.
* `Probes` says that a probe is alone in the network, and so is the ACK it causes. It is needed because this ACK is the
  only one above `m_highTxMark`: its window counts, its number does not.
* `Timers` says that the persist state is exactly the closed window with nothing in flight, that without
  a retransmission timer nothing that was sent is unacknowledged except after a timeout, and that an
  idle sender without a timer has nothing to send or is held back. The last needs the sending loop: when it stops
  with window and data left, one of the two checks stopped it (`NothingToSend`).

There is one lemma per action; `ReceiveAck` is split into one per step of `DoForwardUp`
(`UpdateWindowSizeFields`, `EnterPersistFields`, `ProcessEstablishedFields`, `LeavePersistFields`).

`TcpConnection_proofs` proves, for any number of SYN and data retries and of forked sockets
(`ConnectionAssumption`):

| theorem | statement |
|---|---|
| `Invariance` | `Spec => []Inv` |
| `TypeCorrect` | `Spec => []TypeOK` |
| `QuestionsRepeated` | `Spec => []WaitingHasTimer` |
| `SilentOnceDead` | `Spec => []DeadSocketSilent` |
| `ImplementsLifecycle` | `Spec => FollowsLifecycle` |

`Inv` says, of each socket, what its state says of its numbers and its retransmission timer
(`SockOK`: `Numbers` and `Shape`), and of sockets and segments together:

* `SegmentsOK`: which numbers a segment with given flags may carry. The network keeps every segment for
  ever, so this is about everything that was ever sent.
* `Truthful`: no acknowledgment, in a socket or under way, is above what its receiver has sent.
* `Claims`: what a state says of the peer (ESTABLISHED: it has the SYN; FIN_WAIT_2 and TIME_WAIT: it has the
  FIN) some segment to this socket acknowledges.
* `ClientOnce`: the client's side has one socket, while forked sockets follow each other on the server's.
  It is needed for the one oddity of the handlers: a socket whose FIN was acknowledged in CLOSE_WAIT
  or LAST_ACK sends it again with the number 2, which is no number of this connection. Only a server's socket that
  inherited the acknowledgment of an earlier one gets there, and the client it sends to has already
  counted a FIN, so the segment is old to it. Without this conjunct the client's numbers could leave the room of SYN and FIN.

The argument has three layers. Each helper and handler has a lemma that says what it makes of the socket
(`EnterFacts`, `SendFacts`, ...). `Legal(k, r, ack, said)` says that a socket may turn into the result `r` when the segment
handled acknowledges `ack` and shows that the peer has said `said`; each handler, timer and call of the application is
shown legal, without any mention of the network. `StepOf` then gives, once for all of them, that a legal
result of one socket keeps `Inv` and is a step of `ConnectionLifecycle` or a stutter. The refinement is therefore
proved from the same lemmas as the invariant, step by step: each state change is an arrow of the
diagram, and its guard about the peer follows from `Truthful` and `Claims`.

`TcpSender_proofs` proves, for any number and size of segments, initial window, threshold, word width, number
of retries, both recovery algorithms and both builds (`SenderAssumption`):

| theorem | statement |
|---|---|
| `Invariance` | `Spec => []Inv` |
| `Reported` | `Spec => []ScoreboardTruthful` |
| `MarksAgree` | `Spec => []ScoreboardConsistent` |
| `NoAssertionFails` | `Spec => []SocketAssertions` |
| `SackedStay` | `Spec => NeverResendSacked` |
| `TimerKept` | `Spec /\ []TypeOK => []TimerRuns` |
| `PointKept` | `Spec /\ []TypeOK /\ []WindowHolds => []RecoveryPoint` |
| `HeadFirst` | `Spec /\ []TypeOK /\ []WindowHolds => HeadResent` |

`Inv` is `Socket(snd) /\ Truthful /\ Timer` and the phase. Its parts, and why the properties are not inductive without them:

* `Truthful` adds to `ScoreboardTruthful` that an ACK under way reports only what the peer has (`AckOK`), and that the
  number of an ACK is in no SACK list, of any ACK or of the scoreboard. The second half is what keeps
  the head of the sent list from being SACKed when a late ACK meets an early SACK.
* `Board` adds to `ScoreboardConsistent` that all between the highest SACK and a SACKed segment beyond it is SACKed
  (`HighOK`; `Update` can leave the highest SACK below the last SACKed segment), and that below a lost
  segment everything outstanding is lost or SACKed (`LostBelow`).
* `LossOK` describes CA_LOSS: all that was sent before the timeout is lost or SACKed and is sent again from the first on;
  new data only after that. From it follows that a sending loop which ends without having resent the head had no window for it.
* `CountOK` bounds `m_dupAckCount` in CA_DISORDER, for the assertion of `DupAck`.
* `Timer` says that after a timeout the window is one segment and at most one is in flight until the loop of `SendPendingData`
  ends (the assertion of `ReTxTimeout` on what was sent), that otherwise unacknowledged data has a timer, and that an idle socket which
  has something to send and nothing in flight is `Blocked` by its window.

`ReceivedAck` runs through half a dozen helpers that each leave the scoreboard in a state in which `Socket` does not
hold yet; the lemmas (`UpdateFacts`, `DiscardFacts`, `DupAckFacts`, `PartialAckFacts`, `FullAckFacts`, `ProcessAckFacts`)
carry what does hold from one stage to the next. What a step does, as opposed to what it leaves, is collected in `Moves`, from
which the two action properties follow. Windows occur in none of these proofs, except that after a timeout
`cwnd` is one segment: the congestion control is shown to touch nothing else (`CerlSame`, `PrrSame`, ...), so the first five theorems hold for any
arithmetic of the windows.

The last three do depend on it. `TimerKept` needs only the types: an idle socket without a timer has nothing in flight and a window below
a segment, which is what `TimerRuns` excepts. `PointKept` and `HeadFirst` are stated from `[]WindowHolds` (`cwnd` holds a segment between events),
and the hypothesis is needed: with a window below a segment, an idle
socket with nothing outstanding cannot send, a timeout then finds an empty sent list and sets a recovery point that is
already acknowledged (TLC shows it for `Word` = 13, `SegSize` = 4). `Inv` itself holds there as well (`una <= recover` after a
timeout, not `<`).

`TcpSenderWindow_proofs` proves the types, and says how far the windows hold, for `TcpClassicRecovery` (`Classic`), any number and size of segments and any
initial threshold of at least a segment, the default `Word - 1` included (`Ample`):

| theorem | statement, for `Classic` and `Ample` |
|---|---|
| `WindowsBounded` | `Spec => []Windows` |
| `SenderTyped` | `Spec => []TypeOK` |
| `WindowsUsable` | `Spec => []WindowUsable` |
| `TimerAlways` | `Spec => []TimerRuns` |
| `PointAlways` | `Spec /\ []UsableAtFirst => []RecoveryPoint` |
| `HeadAlways` | `Spec /\ []UsableAtFirst => HeadResent` |

`Ample` bounds the amount of data and not the threshold: initial window and four times the data, and two segments more, stay below `Word`, which for
2^32 is a gigabyte. `UsableAtFirst` says that the window holds a segment while the threshold is still an initial one above `Base`; an
initial threshold up to `Base` makes it vacuous. It is needed: it is false for the default threshold after the wrap of `Sender_window_wrap`,
and from then on a timeout may find nothing sent. The other four need nothing of the kind: even when the window has
wrapped, types, the meaning of an empty window and the timer are as stated. TLC finds `Windows` true with `Recoveries = {"Classic"}`
for thresholds at the end of the type, next to it, and small.

The invariant `Windows` describes two regimes. A threshold is `InitialSsThresh` or one that a reduction set, and a reduced one is at most `Base` (`Threshold`). While the threshold
is above `Base` the windows are any unsigned numbers. From a threshold of at most `Base` on they are bounded by the number of segments the peer has reported, `Heard`: `una` plus the
SACKed segments. An ACK that moves a
window is a new cumulative ACK or reports a segment for the first time, so `Heard` grows, and no helper adds more than two
segments (`DoRecovery` and then `IncreaseWindow` in one ACK): `cwnd <= Base + 2 * Span(Heard)`. Entering recovery or CWR
adds the duplicate ACKs counted so far, which `Count` bounds by `Heard` as well; leaving it sets the window to the threshold,
which is at most `Base`, so this part (`Extra`) is counted once. No remainder modulo `Word` then differs from its operand
(`NoWrap`), and a window never falls below a segment, because thresholds never do. The lemmas follow the stages of
`ReceivedAck` as those of `TcpSender_proofs` do, from which they take the scoreboard.

`TcpRxBuffer_proofs` proves, for streams, segments, buffers and SACK lists of any size (`RxAssumption`):

| theorem | statement |
|---|---|
| `Invariance` | `Spec => []Inv` |
| `TypeCorrect` | `Spec => []TypeOK` |
| `CountersAgree` | `Spec => []Accounting` |
| `OffersHonoured` | `Spec => []OfferHonoured` |
| `SacksTruthful` | `Spec => []SackTruthful` |
| `SacksComplete` | `Spec => []SackComplete` |
| `NewestReportedFirst` | `Spec => SackNewestFirst` |
| `GapsReported` | `Spec => GapReported` |
| `ImplementsStream` | `Spec => StreamImplemented`, the refinement of `ByteStream` |

All are stated under `SizeKept`: where this side may close first (`ClosesFirst`), the buffer keeps its size; where it does not,
`SetRcvBufSize` may be called with any size at any time. The hypothesis is needed: `ProcessWait` records a FIN that came with data
at the first byte of that data, and a buffer that shrank after the window was offered stores only part of it, so that
the end is taken for reached with bytes missing (section 3, divergences). Both runs satisfy it.

`Inv` says that what was delivered is the beginning of the stream, and of the buffer when `n` bytes have been read:

* `StoredOnce`: the chunks are not empty and do not overlap, so their keys differ. Without it a loop over `m_data` has no order.
* `Counted`: `Accounting`, with every chunk beyond what was read.
* `FinRecorded`: wherever the FIN was recorded, everything from there to the end of the stream has arrived. This is the claim that `ProcessWait`
  puts at risk, and what makes `Finished` mean the end.
* `Sacked`: the blocks of the SACK list are held and beyond RCV.NXT, and until one was dropped they cover all that is held beyond it.
* `Limits`: for every `M` that the buffer never exceeded, nothing beyond `n + M` was offered, is stored or is
  needed to reach the FIN. It is about the largest size and not the present one, because windows offered by a larger buffer stay valid.
* the assertion of `AdvertisedWindowSize` has failed only if more is in sequence than fits, so that a buffer as large as it
  ever was has not failed it.

What a loop leaves is proved by induction over the keys. The library's induction theorems take an operator, so `NumberFacts`
states induction over a set of numbers (`Induction`), and each loop is first shown to exist as a function on the sets of chunks (`LoopExists`), to be computed by
turns in the order of the keys (`LoopStep`) and then to keep an invariant of its own: `RemovalInv` for the overlaps `Add` cuts off,
`AdvanceInv` for RCV.NXT and `m_availBytes`, `TakeInv` for `Extract`. `ClearFacts` and `MergeFacts` do the same for the SACK list.
`AddFacts` and `ExtractFacts` put these together into what the two operations make of a `Buffer`; above them there is one lemma per action, and
each shows `Inv'` together with `Progressed`, what the step did to the bytes that have arrived. The action properties and the refinement
follow from `Progressed`.

Only model-checked:

* all liveness (`EventuallyAcked`, `BaseIatTracks`, `EventuallyDelivered`, `Settles`, `HandshakeEnds`, `ClosingEnds`, `EventuallyRead`);
* `TypeOK` and `WindowUsable` of `TcpSender` with PRR: its window is what is in flight and a
  quotient of products modulo `Word`, and whether it stays usable depends on the reduction bound; the other types are part of `Inv`;
* `RecoveryPoint` and `HeadResent` with the default threshold and without `UsableAtFirst`: they hold within the bounds of `Sender_recovery`;
* what the three runs with a counterexample refute.

## 5. Not modelled

* Sending data while closing (the FIN on the last data segment), `Close` with unread data, ECN bits of the SYN, a closed
  socket used again, `Connect` in SYN_SENT, CLOSE_WAIT or LAST_ACK, closing in SYN_RCVD of a
  simultaneous open, initial sequence numbers (always 0 in this code) that tell two connections apart.
* Splitting and merging of transmit items, guessed marks without SACK (`AddRenoSack`), limited transmit,
  SACK reneging.
* Pacing, rate sampling, RTT filters, timestamps, the statistics of TcpCerlPlus and TcpCerlX, the other
  congestion controls: numeric, and upstream ns-3 but for the CERL statistics.
  Two hazards of the CERL statistics stay unexamined: TcpCerlX uses a reference to the front sample after `pop_front`
  (`tcp-cerl.cc:311`), and TcpCerlPlus divides by a sum of samples that may be empty (250).
* Window scaling, wire formats of headers and options, IPv6 variants of the same handlers.
* `tcp-socket-adw.cc`: commented out of the build (`src/src/internet/CMakeLists.txt`).
* `scratch/`, `main.py`, `pylib/`: experiments and plots.
* All other modules of ns-3 (wifi, lte, routing, core): more than 700 000 lines of an upstream simulator
  that this repository uses and, but for TCP, does not develop.

## 6. Plan

1. `WindowUsable` with PRR in SSRB mode: an invariant that relates `m_prrDelivered`, `m_prrOut` and what is in flight.
2. The assertion of `DupAck` in CA_OPEN as a run of its own, on an abstraction of CA_CWR small enough for TLC.
3. `TcpRxBuffer` without `SizeKept`: which of its results survive a shrinking buffer when this side closes first.
4. Composition of `TcpConnection` with data that is sent while closing: `m_closeOnEmpty`, and FIN retransmission
   with unacknowledged data.
