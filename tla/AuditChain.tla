----------------------------- MODULE AuditChain ------------------------------
(***************************************************************************)
(* What audit.Store promises of Append: each org's log is one sequence     *)
(* that only grows at its end, one record at a time, each record once.     *)
(***************************************************************************)
EXTENDS Sequences

CONSTANTS Orgs, Records, Org

VARIABLE chain    \* the records of each org, oldest first

Init == chain = [o \in Orgs |-> <<>>]

Logged(r) == \E i \in DOMAIN chain[Org[r]] : chain[Org[r]][i] = r

Add(r) ==
    /\ ~Logged(r)
    /\ chain' = [chain EXCEPT ![Org[r]] = Append(@, r)]

Next == \E r \in Records : Add(r)
Spec == Init /\ [][Next]_chain
=============================================================================
