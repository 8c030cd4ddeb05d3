---- MODULE MCDesktop ----
(* A task in each of two projects. *)
EXTENDS Desktop

MCProjectOf == [t \in Tasks |-> IF t = "t1" THEN "p1" ELSE "p2"]
MCScope == [t \in Tasks |-> IF t = "t1" THEN "owned" ELSE "repairable"]
MCPresets == [t \in Tasks |-> {"economy"}]
====
