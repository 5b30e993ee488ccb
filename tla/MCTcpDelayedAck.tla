--------------------------- MODULE MCTcpDelayedAck ---------------------------
(***************************************************************************)
(* Small instances of TcpDelayedAck.                                       *)
(***************************************************************************)
EXTENDS TcpDelayedAck

\* Seconds(INFINITY): 0 where the runtime's conversion to a 128-bit integer
\* yields 0 (libgcc), negative where it saturates (compiler-rt) or where
\* int64x64_t is a long double.
ConvertsToZero == {0}
ConvertsToAny  == {-1, 0}
=============================================================================
