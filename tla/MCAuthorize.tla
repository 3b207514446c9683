---------------------------- MODULE MCAuthorize ------------------------------
(***************************************************************************)
(* Authorize instantiated for TLC.                                         *)
(***************************************************************************)
EXTENDS Authorize, TLC

CONSTANTS r1, r2, r3, r4, k1, k2

Clear  == [outcome |-> "SATISFIED", failMode |-> ""]
Blocked == [outcome |-> "DENIED", failMode |-> ""]

(* a client and its retry, once with a shadow key, and another client's    *)
(* transaction that the local rules deny                                   *)
Three       == {r1, r2, r3}
MixedKey    == (r1 :> k1) @@ (r2 :> k1) @@ (r3 :> k2)
MixedShadow == {r2}
MixedLocal  == (k1 :> <<Clear>>) @@ (k2 :> <<Clear, Blocked>>)

(* a client that retries twice and a rival for the same budget, all        *)
(* approved by the local rules                                             *)
Four        == {r1, r2, r3, r4}
RivalKey    == (r1 :> k1) @@ (r2 :> k1) @@ (r3 :> k1) @@ (r4 :> k2)
RivalLocal  == (k1 :> <<Clear>>) @@ (k2 :> <<Clear>>)

BothKeys    == {k1, k2}
NoShadow    == {}
=============================================================================
