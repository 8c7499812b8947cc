---------------------------- MODULE RpcMessages ----------------------------
(* What receive() of jsonrpc.ts tells apart in a message that arrives: one *)
(* call, which RpcDispatch takes through the handlers, or a batch of them, *)
(* of which RpcBatch collects the responses.                               *)
EXTENDS RpcDispatch

CONSTANTS
    Batches,    \* the batches that may be sent
    KindsOf     \* the kinds of the members of each

VARIABLES
    callerAborted, sent, promise, calleeAborted, cursor, remaining,
    remainingNotifications, responses, responseSent, open, processing, answer, reply

batchVars ==
    <<callerAborted, sent, promise, calleeAborted, cursor, remaining,
      remainingNotifications, responses, responseSent, open, processing, answer, reply>>

Batch == INSTANCE RpcBatch

ASSUME MembersAssumption == Batch!KindsAreSequences

BatchNext == Batch!Next /\ UNCHANGED vars

(* Only batches arrive; Spec has what becomes of a call. *)
BatchesSpec ==
    /\ Init /\ Batch!Init
    /\ [][BatchNext]_<<vars, batchVars>>
    /\ Batch!Fairness

(* The reply to a batch is sent once, complete, and not forgotten:         *)
(* RpcBatch says more.                                                     *)
RepliedWhenComplete == Batch!RepliedWhenComplete

(* When every request of a batch has been answered the caller learns it:   *)
(* RpcBatch says more.                                                     *)
BatchReturns == Batch!BatchReturns
=============================================================================
