-------------------------- MODULE MCHttpConnection --------------------------
(* HttpConnection with two sessions, or with one and up to two requests,   *)
(* for the session and for the connection.                                 *)
EXTENDS HttpConnection, TLC

CONSTANTS s1, s2, r1, r2

MCRouteOf == (r1 :> s1) @@ (r2 :> Connection)

(* Two sessions without requests, a request with one session, or two       *)
(* requests, of which r1 comes first, with one session and two messages:   *)
(* a request waits for messages, whichever streams they are on.            *)
(* This stops no step that Fairness is about: those neither post a request *)
(* nor write a message, and what is written for s2 is here counted.        *)
Bounded ==
    /\ post[r1] # "none" =>
           /\ s2 \notin sessionStreams /\ routed[s2] = <<>>
           /\ \A i \in 1 .. Len(outbound) : outbound[i].to # s2
    /\ post[r2] # "none" => post[r1] # "none" /\ written <= 2

MCSpec == Init /\ [][Next /\ Bounded']_vars /\ Fairness
=============================================================================
