--------------------------- MODULE MCSyncResolver ----------------------------
(* Two patches of one node on file f, a new file n in a directory scope, a  *)
(* deletion of g, and a patch on the protected file p.                      *)
EXTENDS SyncResolver

CONSTANTS a1, a2, c, d, x, f, n, g, p

MCQueue == <<a1, a2, c, d, x>>
MCPathOf == [q \in {a1, a2, c, d, x} |->
               CASE q = c -> n [] q = d -> g [] q = x -> p [] OTHER -> f]
MCOpOf == [q \in {a1, a2, c, d, x} |->
             CASE q = c -> "create" [] q = d -> "delete" [] OTHER -> "modify"]
MCBase == [q \in {a1, a2, c, d, x} |-> IF q = c THEN None ELSE "old"]
MCFiles == [y \in {f, n, g, p} |-> IF y = n THEN None ELSE "old"]
=============================================================================
