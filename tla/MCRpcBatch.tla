----------------------------- MODULE MCRpcBatch -----------------------------
(* The batches of RpcMessages: one of two requests and a notification, one *)
(* with a malformed member, as only a peer other than this SDK sends, and  *)
(* one that wants no reply.                                                *)
EXTENDS RpcMessages, TLC

CONSTANTS b1, b2, b3

MCKindsOf == (b1 :> <<"request", "notification", "request">>)
                 @@ (b2 :> <<"invalid", "request", "notification">>)
                 @@ (b3 :> <<"notification", "notification">>)

(* No message but batches. *)
NoIds      == <<>>
NoHandlers == <<>>
=============================================================================
