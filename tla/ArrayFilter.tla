----------------------------- MODULE ArrayFilter -----------------------------
(* Array.prototype.filter, as the queues of acp.ts and v2/acp.ts use it.   *)
EXTENDS Integers, Sequences

(* The elements of s which are in T, in their order. *)
Filter(s, T) ==
    LET kept[i \in 0 .. Len(s)] ==
            IF i = 0 THEN <<>>
            ELSE IF s[i] \in T THEN Append(kept[i - 1], s[i])
            ELSE kept[i - 1]
    IN  kept[Len(s)]
=============================================================================
