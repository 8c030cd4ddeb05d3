---- MODULE MCDelivery ----
(* One imported file and one the tickets may add. *)
EXTENDS Delivery, TLC

MCBaseline == [f \in Files |-> IF f = "f1" THEN "a" ELSE Absent]

TicketsAlike == Permutations(Tickets)

\* Every property but TypeOK says nothing of a behaviour once it is damaged, and it stays damaged.
Undamaged == damage = {}
====
