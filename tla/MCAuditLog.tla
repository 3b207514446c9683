----------------------------- MODULE MCAuditLog ------------------------------
(***************************************************************************)
(* AuditLog for TLC: two orgs, one of them with two records in flight.     *)
(***************************************************************************)
EXTENDS AuditLog, TLC

CONSTANTS a1, a2, a3, d1, d2, d3, o1, o2

Two    == {a1, a2}
Three  == {a1, a2, a3}
TheRecords == {d1, d2, d3}
TheOrg == (d1 :> o1) @@ (d2 :> o1) @@ (d3 :> o2)
=============================================================================
