------------------------------ MODULE RpcCalls ------------------------------
(***************************************************************************)
(* What a pair of connections promises its applications about requests,    *)
(* with no messages in it: a call is issued, answered at most once by the  *)
(* other side, and settles at most once, with that answer or because its   *)
(* own connection closed.  RpcConnection implements this.                  *)
(***************************************************************************)
CONSTANTS
    Peers,      \* the ends of the connection
    Ids,        \* request ids
    Results     \* what a handler can answer

VARIABLES
    open,       \* whether a peer's connection is open
    call,       \* [Peers -> [Ids -> ...]]: a peer's calls as its caller sees them
    answer      \* [Peers -> [Ids -> ...]]: what the other side answered them

vars == <<open, call, answer>>

TypeOK ==
    /\ open   \in [Peers -> BOOLEAN]
    /\ call   \in [Peers -> [Ids -> {"none", "pending", "closed"} \cup Results]]
    /\ answer \in [Peers -> [Ids -> {"none"} \cup Results]]

Init ==
    /\ open   = [p \in Peers |-> TRUE]
    /\ call   = [p \in Peers |-> [id \in Ids |-> "none"]]
    /\ answer = [p \in Peers |-> [id \in Ids |-> "none"]]

Issue(p, id) ==
    /\ open[p]
    /\ call[p][id] = "none"
    /\ call' = [call EXCEPT ![p][id] = "pending"]
    /\ UNCHANGED <<open, answer>>

Answer(p, id, r) ==
    /\ call[p][id] # "none"
    /\ answer[p][id] = "none"
    /\ answer' = [answer EXCEPT ![p][id] = r]
    /\ UNCHANGED <<open, call>>

Return(p, id) ==
    /\ open[p]
    /\ call[p][id] = "pending"
    /\ answer[p][id] # "none"
    /\ call' = [call EXCEPT ![p][id] = answer[p][id]]
    /\ UNCHANGED <<open, answer>>

(* Closing rejects every pending call in the same step. *)
Close(p) ==
    /\ open[p]
    /\ open' = [open EXCEPT ![p] = FALSE]
    /\ call' = [call EXCEPT ![p] =
                   [id \in Ids |-> IF @[id] = "pending" THEN "closed" ELSE @[id]]]
    /\ UNCHANGED answer

Next ==
    \E p \in Peers :
        \/ \E id \in Ids : Issue(p, id) \/ Return(p, id)
        \/ \E id \in Ids, r \in Results : Answer(p, id, r)
        \/ Close(p)

Spec == Init /\ [][Next]_vars
=============================================================================
