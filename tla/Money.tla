------------------------------- MODULE Money --------------------------------
(***************************************************************************)
(* Amounts in cents, as toCents parses them, and their sums.               *)
(***************************************************************************)
EXTENDS Integers, FiniteSets

CONSTANTS
    Decisions,    \* decision ids, one authorize request each
    MaxAmount,    \* bound on the amount of a request, in cents
    Amount        \* the requested amount of each decision, in cents

(* The sum of the amounts of a set of decisions, counted cent by cent. *)
Coins(S) == { dc \in Decisions \X (1..MaxAmount) :
                 dc[1] \in S /\ dc[2] <= Amount[dc[1]] }
Cents(S) == Cardinality(Coins(S))
=============================================================================
