----------------------------- MODULE ByteStream -----------------------------
(***************************************************************************)
(* What the receiving half of a TCP connection promises its application:   *)
(* bytes that were accepted are kept until they are handed over, they are  *)
(* handed over in stream order and exactly once, and the end of the stream *)
(* is reported only when every byte before it has been accepted.           *)
(***************************************************************************)
EXTENDS Integers, Sequences

CONSTANT StreamLen    \* bytes in the stream, numbered from 0

VARIABLES
    got,         \* the bytes accepted so far
    delivered,   \* the bytes handed to the application, in that order
    eof          \* the end of the stream has been reached

streamVars == <<got, delivered, eof>>

Stream == 0..(StreamLen - 1)

Init == got = {} /\ delivered = <<>> /\ eof = FALSE

\* One segment may accept bytes, and its arrival may let the application read
\* and complete the stream, all in one step of the receiver.
Progress ==
    /\ got \subseteq got' /\ got' \subseteq Stream
    /\ \E n \in 0..(StreamLen - Len(delivered)) :
         /\ \A b \in Len(delivered)..(Len(delivered) + n - 1) : b \in got'
         /\ delivered' = delivered \o [i \in 1..n |-> Len(delivered) + i - 1]
    /\ eof => eof'
    /\ eof' => got' = Stream
    /\ eof' \in BOOLEAN

Spec == Init /\ [][Progress]_streamVars
=============================================================================
