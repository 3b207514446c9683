------------------------------- MODULE MCGate -------------------------------
(* One key; a signed message that may arrive twice, an unsigned one with   *)
(* the same nonce, and a second signed message.                            *)
EXTENDS RequestGate, TLC

CONSTANTS k1, n1, n2

MCMessages ==
    { [key |-> k1, ts |-> 2, nonce |-> n1, genuine |-> TRUE],
      [key |-> k1, ts |-> 2, nonce |-> n1, genuine |-> FALSE],
      [key |-> k1, ts |-> 3, nonce |-> n2, genuine |-> TRUE] }

Symmetry == Permutations(Deliveries)

=============================================================================
