------------------------------ MODULE MCRouter -------------------------------
(* Processes under supervision: a node of a wave on a router with three     *)
(* routes, or the verification of a copy.  One run takes one side.          *)
EXTENDS Router, Verification

CONSTANTS n, p, q, first, second, unread, test, lint

MCChecksOf == [v \in {first, second} |-> IF v = first THEN <<test, lint>> ELSE <<lint>>]

VARIABLE side

MCInit ==
  /\ side \in {"router", "verification"}
  /\ RouterInit /\ VerificationInit
  /\ IF side = "router"
     THEN project = [kind |-> "php", version |-> first, missing |-> {}, entry |-> "sound",
                     links |-> "sound"]
     ELSE tree = {}

MCNext ==
  \/ side = "router" /\ RouterNext /\ UNCHANGED <<side, verificationVars>>
  \/ side = "verification" /\ VerificationNext /\ UNCHANGED <<side, routerVars>>

\* As in Fairness and VerificationFairness, for the side that runs.
MCFairness ==
  /\ \A m \in Nodes : WF_routerVars(side = "router" /\ Thread(m))
  /\ WF_verificationVars(side = "verification" /\ Verifier)

MCSpec == MCInit /\ [][MCNext]_<<side, routerVars, verificationVars>> /\ MCFairness
=============================================================================
