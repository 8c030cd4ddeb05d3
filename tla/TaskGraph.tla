------------------------------ MODULE TaskGraph ------------------------------
(***************************************************************************)
(* What a runtime promises to a task graph, whatever its waves, threads,   *)
(* budgets and audits: a node starts only after its dependencies completed *)
(* and stays the last word on them, no node is given up once it started,   *)
(* a node that did not complete fails the run, and the verdict is final.   *)
(***************************************************************************)
CONSTANTS Nodes, DependsOn

VARIABLES
  node,      \* per node: "waiting", "running", "completed", "failed" or "skipped"
  verdict    \* "open", "completed" or "stopped"

graphVars == <<node, verdict>>

Init ==
  /\ node = [n \in Nodes |-> "waiting"]
  /\ verdict = "open"

Ready(n) ==
  /\ verdict = "open" /\ node[n] = "waiting"
  /\ \A d \in DependsOn[n] : node[d] = "completed"

Begin(n) == Ready(n) /\ node' = [node EXCEPT ![n] = "running"] /\ UNCHANGED verdict

\* Refused before anything was run for it.
Refuse(n) == Ready(n) /\ node' = [node EXCEPT ![n] = "failed"] /\ UNCHANGED verdict

End(n) ==
  /\ verdict = "open" /\ node[n] = "running"
  /\ \E s \in {"completed", "failed"} : node' = [node EXCEPT ![n] = s]
  /\ UNCHANGED verdict

Idle == \A n \in Nodes : node[n] # "running"

Complete ==
  /\ verdict = "open"
  /\ \A n \in Nodes : node[n] = "completed"
  /\ verdict' = "completed"
  /\ UNCHANGED node

\* A completed node may be failed by the decision that stops the run, as long
\* as nothing has been built on it.
Stop ==
  /\ verdict = "open" /\ Idle
  /\ verdict' = "stopped"
  /\ \E revoked \in SUBSET {n \in Nodes : node[n] = "completed"} :
       /\ \A n \in Nodes : node[n] # "waiting" => DependsOn[n] \cap revoked = {}
       /\ node' = [n \in Nodes |-> IF n \in revoked THEN "failed"
                                   ELSE IF node[n] = "waiting" THEN "skipped"
                                   ELSE node[n]]

Next == Complete \/ Stop \/ \E n \in Nodes : Begin(n) \/ Refuse(n) \/ End(n)

Spec == Init /\ [][Next]_graphVars

(* A node that was started has all its dependencies completed, also after
   the run was stopped and results were revised.                           *)
BuiltOnCompleted ==
  \A n \in Nodes : node[n] \in {"running", "completed"} =>
    \A d \in DependsOn[n] : node[d] = "completed"
=============================================================================
