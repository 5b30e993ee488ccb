------------------------ MODULE ConnectionLifecycle ------------------------
(***************************************************************************)
(* What the connection state of one side says about the other side,        *)
(* whatever the network loses, repeats or delays: the state diagram of RFC *)
(* 793, with every state that claims something about the peer allowed only *)
(* when the peer has really done it.  What is said and heard is counted in *)
(* control bits: 0 nothing, 1 the SYN, 2 the SYN and the FIN.              *)
(***************************************************************************)
EXTENDS Integers

CONSTANT Sides       \* the two ends

VARIABLES
    life,    \* the state of each side
    said,    \* the control bits each side has sent
    heard    \* the control bits each side has received

lifeVars == <<life, said, heard>>

Peer(i) == CHOOSE j \in Sides : j # i

\* States that a side enters only after both SYNs were received, after it sent
\* its FIN, after it received the peer's, and after its own was received.
Synchronised == {"ESTABLISHED", "FIN_WAIT_1", "FIN_WAIT_2", "CLOSE_WAIT",
                 "CLOSING", "LAST_ACK", "TIME_WAIT"}
FinSaid  == {"FIN_WAIT_1", "FIN_WAIT_2", "CLOSING", "LAST_ACK", "TIME_WAIT"}
FinHeard == {"CLOSE_WAIT", "CLOSING", "LAST_ACK", "TIME_WAIT"}
FinKnown == {"FIN_WAIT_2", "TIME_WAIT"}

\* The arrows of the diagram.  A segment can carry an ACK and a FIN, and the
\* application may close from the notification of the peer's FIN, so one step
\* may follow two or three of them.
Arrows ==
    { <<"CLOSED", "SYN_SENT">>, <<"CLOSED", "SYN_RCVD">>, <<"SYN_SENT", "SYN_RCVD">>,
      <<"SYN_SENT", "ESTABLISHED">>, <<"SYN_RCVD", "ESTABLISHED">>,
      <<"SYN_RCVD", "CLOSE_WAIT">>, <<"SYN_RCVD", "LAST_ACK">>, <<"SYN_RCVD", "CLOSING">>,
      <<"ESTABLISHED", "FIN_WAIT_1">>, <<"ESTABLISHED", "CLOSE_WAIT">>,
      <<"ESTABLISHED", "LAST_ACK">>, <<"FIN_WAIT_1", "FIN_WAIT_2">>,
      <<"FIN_WAIT_1", "CLOSING">>, <<"FIN_WAIT_1", "TIME_WAIT">>,
      <<"FIN_WAIT_2", "TIME_WAIT">>, <<"CLOSING", "TIME_WAIT">>,
      <<"CLOSE_WAIT", "LAST_ACK">> }

Init ==
    /\ life = [i \in Sides |-> "CLOSED"]
    /\ said = [i \in Sides |-> 0]
    /\ heard = [i \in Sides |-> 0]

\* Any state may end in CLOSED: by the last ACK, a reset, or giving up.
Step(i) ==
    /\ \A j \in Sides \ {i} : life'[j] = life[j] /\ said'[j] = said[j] /\ heard'[j] = heard[j]
    /\ life'[i] \in {life[i], "CLOSED"} \/ <<life[i], life'[i]>> \in Arrows
    /\ said'[i] >= said[i]
    /\ heard'[i] <= said[Peer(i)]
    /\ life'[i] \in Synchronised => heard'[i] >= 1 /\ heard[Peer(i)] >= 1
    /\ life'[i] \in FinSaid => said'[i] = 2
    /\ life'[i] \in FinHeard => heard'[i] = 2
    /\ life'[i] \in FinKnown => heard[Peer(i)] = 2

Spec == Init /\ [][\E i \in Sides : Step(i)]_lifeVars
=============================================================================
