---------------------------- MODULE MCCodexGraph -----------------------------
(* Two writers in one wave, a read-only node behind them; one file of the  *)
(* project belongs to nobody.                                              *)
EXTENDS CodexGraph

CONSTANTS a, b, q, pa, pb, pc

MCWaves == <<<<a, b>>, <<q>>>>
MCDependsOn == [n \in {a, b, q} |-> IF n = q THEN {a, b} ELSE {}]
MCLimit == [n \in {a, b, q} |-> 1]
MCExact == [n \in {a, b, q} |-> IF n = a THEN {pa} ELSE {}]
MCCreation == [n \in {a, b, q} |-> IF n = b THEN {pb} ELSE {}]

\* A provider that reports nothing fresh, and one over its allocation.
MCUsages == [source : {"provider"}, fresh : {0, 2}]
=============================================================================
