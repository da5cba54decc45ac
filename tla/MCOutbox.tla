------------------------------ MODULE MCOutbox ------------------------------
(* Instances of Outbox for TLC.                                             *)
EXTENDS Outbox, TLC

CONSTANTS p1, p2

\* Two people on email, one on the webhook, nobody on Zalo.
Team == [c \in Channels |-> CASE c = "email" -> {p1, p2} [] c = "webhook" -> {p1} [] OTHER -> {}]
\* One person, on email and Zalo.
Alone == [c \in Channels |-> IF c = "webhook" THEN {} ELSE {p1}]

NoCap == [p \in People |-> 0]
CapOne == [p \in People |-> 1]

Symmetry == Permutations(Dispatchers)

=============================================================================
