---- MODULE MCAgentRuntime ----
(* Two tasks for the same agent and one for nobody, a task of their wave-mate's kind behind the first,
   and two more behind that, of which one may go to an agent without an adapter. *)
EXTENDS AgentRuntime

MCDependsOn == [t \in Tasks |-> CASE t = 4 -> {1} [] t = 5 -> {2, 4} [] t = 6 -> {4} [] OTHER -> {}]
MCCapable == [t \in Tasks |-> CASE t \in {1, 2} -> {"a1"} [] t = 3 -> {} [] t = 4 -> {"a1", "a2"}
                                [] t = 5 -> {"a2"} [] t = 6 -> {"a2", "a3"}]
MCPreferred == [t \in Tasks |-> IF t = 4 THEN "a2" ELSE None]
MCCapacity == [a \in Agents |-> IF a = "a2" THEN 2 ELSE 1]
MCMaxAttempts == [a \in Agents |-> IF a = "a1" THEN 2 ELSE 1]
====
