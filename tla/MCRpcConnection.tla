-------------------------- MODULE MCRpcConnection --------------------------
(* RpcConnection with two requests in all: both from one side, or one from *)
(* each.                                                                   *)
EXTENDS RpcConnection, TLC

TwoEach == (Client :> 2) @@ (Agent :> 2)

(* The client, which is not different from the agent here, issues as many. *)
(* This stops SendRequest only, which Fairness is not about.               *)
Bounded ==
    /\ nextRequestId[Client] + nextRequestId[Agent] <= 2
    /\ nextRequestId[Agent] <= 1

MCSpec == Init /\ [][Next /\ Bounded']_vars /\ Fairness
=============================================================================
