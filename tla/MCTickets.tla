----------------------------- MODULE MCTickets ------------------------------
(* Three requests over two tickets, of which one may outlive the other.     *)
EXTENDS Tickets, TLC

CONSTANTS v1, v2, alice, desk1, desk2, w1, w2, w3

MCValues      == {v1, v2}
MCUsers       == {alice}
MCConnections == {desk1, desk2}
MCClients     == {w1, w2, w3}

Symmetry == Permutations(MCValues) \cup Permutations(MCClients)
                \cup Permutations(MCConnections)
=============================================================================
