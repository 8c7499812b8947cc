--------------------------- MODULE WebSocketEnds ---------------------------
(* The two ends of a WebSocket, of which only the chosen one takes steps:  *)
(* the server's session, WsServerSession, and the client's stream,         *)
(* WsStream.  Each sees of the other only that the socket closes.          *)
EXTENDS WsServerSession

CONSTANT MaxSends       \* bound on the messages the client queues

ASSUME MaxSendsAssumption == MaxSends \in Nat

VARIABLES
    end,
    socket, tellsState, clientClosed, openPromise, readable, writable, sendQueue,
    sender, queued, sent, sentBefore

clientVars ==
    <<socket, tellsState, clientClosed, openPromise, readable, writable, sendQueue,
      sender, queued, sent, sentBefore>>

Client == INSTANCE WsStream WITH isClosed <- clientClosed

(* What differs between the starts of an end is fixed for the other one. *)
EndsInit ==
    /\ end \in {"server", "client"}
    /\ Init /\ Client!Init
    /\ IF end = "client" THEN ~shutdown ELSE tellsState

ServerNext == end = "server" /\ Next /\ UNCHANGED <<end, clientVars>>
ClientNext == end = "client" /\ Client!Next /\ UNCHANGED <<end, vars>>

(* The fairness of both: in an end that has not begun nothing is under way.*)
EndsSpec ==
    /\ EndsInit /\ [][ServerNext \/ ClientNext]_<<end, vars, clientVars>>
    /\ Fairness /\ Client!Fairness

(* The client's messages go out in the order in which they were queued:    *)
(* WsStream says more.                                                     *)
SentInOrder == Client!SentInOrder

(* No send of the client waits for a socket that opened or is gone:        *)
(* WsStream says more.                                                     *)
SendsSettle == Client!SendsSettle
=============================================================================
