----------------------------- MODULE Selections -----------------------------
(* The loop "for each element, append it to the result if it is wanted", as   *)
(* FileStore.Query and the filters of the commands and the dashboard have it. *)
EXTENDS Naturals, Sequences

(* The elements of s that are in A, in their order.                           *)
Keep(s, A) ==
    LET kept[n \in 0 .. Len(s)] ==
          IF n = 0 THEN <<>>
          ELSE IF s[n] \in A THEN Append(kept[n - 1], s[n]) ELSE kept[n - 1]
    IN  kept[Len(s)]
=============================================================================
