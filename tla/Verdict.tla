------------------------------- MODULE Verdict -------------------------------
(***************************************************************************)
(* The verdict algebra of the engine (verdict.go): what a list of          *)
(* predicate results comes to.  Combine states it over the set of results; *)
(* CombineLoop is the loop of the code, which returns at the first deny.   *)
(***************************************************************************)
EXTENDS Naturals, Sequences

PredicateOutcomes == {"SATISFIED", "DENIED", "REVIEW", "UNAVAILABLE"}
FailModes == {"", "FAIL_CLOSED_REVIEW", "FAIL_CLOSED_DENY", "FAIL_OPEN"}
Verdicts  == {"APPROVE", "DENY", "REVIEW"}

PredicateResults == [outcome : PredicateOutcomes, failMode : FailModes]

(* mutant: an unspecified fail mode is taken for an opt-in to fail open *)
EffectiveOutcomeOptimistic(r) ==
    IF r.outcome # "UNAVAILABLE" THEN r.outcome
    ELSE CASE r.failMode = "FAIL_CLOSED_DENY"   -> "DENIED"
           [] r.failMode = "FAIL_CLOSED_REVIEW" -> "REVIEW"
           [] OTHER                             -> "SATISFIED"

(* effectiveOutcome: an unavailable predicate is resolved by its fail mode *)
EffectiveOutcome(r) ==
    IF r.outcome # "UNAVAILABLE" THEN r.outcome
    ELSE CASE r.failMode = "FAIL_CLOSED_DENY" -> "DENIED"
           [] r.failMode = "FAIL_OPEN"        -> "SATISFIED"
           [] OTHER                           -> "REVIEW"

(* mutant: a flag ends the loop, as a deny does *)
CombineLoopEager(results) ==
    LET saw[i \in 0..Len(results)] ==
            IF i = 0 THEN "SATISFIED"
            ELSE IF saw[i - 1] # "SATISFIED" THEN saw[i - 1]
            ELSE EffectiveOutcome(results[i])
    IN  CASE results = <<>>               -> "DENY"
          [] saw[Len(results)] = "DENIED" -> "DENY"
          [] saw[Len(results)] = "REVIEW" -> "REVIEW"
          [] OTHER                        -> "APPROVE"

(* mutant: the flag is overwritten by every result *)
CombineLoopForgets(results) ==
    LET saw[i \in 0..Len(results)] ==
            IF i = 0 THEN "SATISFIED"
            ELSE IF saw[i - 1] = "DENIED" THEN "DENIED"
            ELSE EffectiveOutcome(results[i])
    IN  CASE results = <<>>               -> "DENY"
          [] saw[Len(results)] = "DENIED" -> "DENY"
          [] saw[Len(results)] = "REVIEW" -> "REVIEW"
          [] OTHER                        -> "APPROVE"

(* Combine's loop: saw[i] is what results 1..i have come to; a deny is the *)
(* early return, a flag is kept, a satisfied result changes nothing.       *)
CombineLoop(results) ==
    LET saw[i \in 0..Len(results)] ==
            IF i = 0 THEN "SATISFIED"
            ELSE IF saw[i - 1] = "DENIED" \/ EffectiveOutcome(results[i]) = "SATISFIED"
                 THEN saw[i - 1]
            ELSE EffectiveOutcome(results[i])
    IN  CASE results = <<>>               -> "DENY"
          [] saw[Len(results)] = "DENIED" -> "DENY"
          [] saw[Len(results)] = "REVIEW" -> "REVIEW"
          [] OTHER                        -> "APPROVE"

(* The same by precedence: deny by default, then deny, then review. *)
Some(results, o) == \E i \in 1..Len(results) : EffectiveOutcome(results[i]) = o

Combine(results) ==
    IF results = <<>> \/ Some(results, "DENIED") THEN "DENY"
    ELSE IF Some(results, "REVIEW") THEN "REVIEW"
    ELSE "APPROVE"
=============================================================================
