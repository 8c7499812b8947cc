--------------------------- MODULE MCRpcDispatch ---------------------------
(* RpcDispatch with two requests that share an id and a notification, or   *)
(* with one request, and one or two static handlers.                       *)
EXTENDS RpcDispatch, TLC

CONSTANTS r1, r2, s1, s2, id1

OwnId      == r1 :> id1
SharedId   == (r1 :> id1) @@ (r2 :> id1)
OneStatic  == <<s1>>
TwoStatics == <<s1, s2>>

(* Two messages: a request and a notification with all dynamic handlers,   *)
(* or both requests, of which r1 comes first, with one of them.  This      *)
(* stops no step that HandlersSettle is about: those neither receive a     *)
(* message nor add a handler.                                              *)
Bounded ==
    LET received == {m \in Messages : attempts[m] > 0}
        added == Range(dynamicHandlers) \cup disposed
    IN  /\ Cardinality(received) <= 2
        /\ r2 \in received => r1 \in received /\ Cardinality(added) <= 1

MCSpec == Init /\ [][Next /\ Bounded']_vars /\ HandlersSettle
=============================================================================
