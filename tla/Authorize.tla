------------------------------ MODULE Authorize ------------------------------
(***************************************************************************)
(* POST /v1/authorize: handleAuthorize, the idempotency cache and          *)
(* Engine.Authorize, composed with the budget as BudgetGate promises it    *)
(* (Budget implements BudgetGate; see BudgetGateProof).                    *)
(*                                                                         *)
(* Each HTTP request is a process that looks its idempotency key up,       *)
(* resolves and evaluates the policy, reserves, signs, saves, answers and  *)
(* hands the decision to the audit writer.  Requests with the same key are *)
(* a client and its retries.  A request names the decision it mints: the   *)
(* ULID is fresh in every attempt.                                         *)
(***************************************************************************)
EXTENDS Verdict, Integers, FiniteSets

CONSTANTS
    Requests,    \* HTTP requests, each also the decision id it would mint
    Key,         \* the idempotency key of each request
    Shadow,      \* requests made with a shadow API key
    Local,       \* what the local predicates say of the transaction of a key
    Budgeted,    \* keys whose agent has an applicable budget
    Limit,       \* the cap; every request asks for one unit
    Retries,     \* "sequential": a client retries only what has ended
    Faults       \* what may go wrong, a subset of AllFaults

Keys == { Key[r] : r \in Requests }

AllFaults ==
    { "disconnect",   \* the client goes away: the request's context is cancelled
      "cacheError",   \* a Redis error, or the expiry of an idempotency entry
      "policyError",  \* no servable bundle
      "signError",    \* Signer.Sign fails
      "crash" }       \* the process serving the request dies

ASSUME AuthorizeAssumption ==
    /\ IsFiniteSet(Requests)
    /\ Shadow \subseteq Requests
    /\ Local \in [Keys -> Seq(PredicateResults)]
    /\ Budgeted \subseteq Keys
    /\ Limit \in Nat
    /\ Retries \in {"sequential", "concurrent"}
    /\ Faults \subseteq AllFaults

VARIABLES
    pc,        \* where each request's handler is
    gone,      \* requests whose client has disconnected
    cache,     \* the idempotency cache: the decision saved for each key
    results,   \* the predicate results of each decision so far
    verdict,   \* the signed verdict of each decision
    told,      \* the decision in the 200 answer each request got
    audited,   \* decisions handed to the audit writer
    answer, hold, window   \* the budget (BudgetGate)

vars == <<pc, gone, cache, results, verdict, told, audited, answer, hold, window>>

Gate == INSTANCE BudgetGate WITH
            Decisions <- Requests, Cents <- Cardinality, Windows <- {0}

None      == "none"
Working   == {"lookup", "policy", "reserve", "sign", "save", "respond", "audit"}
Ended     == {"done", "failed"}

ASSUME NoneAssumption == None \notin Requests

Init ==
    /\ pc = [r \in Requests |-> "new"]
    /\ gone = {}
    /\ cache = [k \in Keys |-> None]
    /\ results = [r \in Requests |-> <<>>]
    /\ verdict = [r \in Requests |-> None]
    /\ told = [r \in Requests |-> None]
    /\ audited = {}
    /\ Gate!Init

budgetUnchanged == UNCHANGED <<answer, hold, window>>

Goto(r, step) == pc' = [pc EXCEPT ![r] = step]

-----------------------------------------------------------------------------
(* handleAuthorize, up to the engine.                                      *)

(* a request arrives; a malformed one is answered 400 *)
Receive(r) ==
    /\ pc[r] = "new"
    /\ Retries = "sequential" =>
          \A q \in Requests : Key[q] = Key[r] => pc[q] \notin Working
    /\ Goto(r, "lookup") \/ Goto(r, "failed")
    /\ UNCHANGED <<gone, cache, results, verdict, told, audited>> /\ budgetUnchanged

(* mutant: the cached decision is looked up but evaluated anew all the same *)
LookupIgnored(r) ==
    /\ pc[r] = "lookup"
    /\ Goto(r, "policy")
    /\ UNCHANGED <<gone, cache, results, verdict, told, audited>> /\ budgetUnchanged

(* idempotentReplay: a hit is the answer; a miss, or an error, goes on *)
Lookup(r) ==
    /\ pc[r] = "lookup"
    /\ \/ /\ cache[Key[r]] # None /\ r \notin gone
          /\ told' = [told EXCEPT ![r] = cache[Key[r]]]
          /\ Goto(r, "done")
       \/ /\ \/ cache[Key[r]] = None
             \/ r \in gone
             \/ "cacheError" \in Faults
          /\ Goto(r, "policy")
          /\ UNCHANGED told
    /\ UNCHANGED <<gone, cache, results, verdict, audited>> /\ budgetUnchanged

-----------------------------------------------------------------------------
(* Engine.Authorize.                                                       *)

(* mutant: the reserve is not gated by the local verdict *)
MustReserveAlways(r) == r \notin Shadow /\ Key[r] \in Budgeted

(* the budget is consulted only for an enforcing request that the local    *)
(* rules approve and whose agent has a budget                              *)
MustReserve(r) ==
    /\ r \notin Shadow
    /\ Combine(Local[Key[r]]) = "APPROVE"
    /\ Key[r] \in Budgeted

(* the active policy is resolved and evalLocal run over it; without a      *)
(* policy the answer is 503                                                *)
EvalLocal(r) ==
    /\ pc[r] = "policy"
    /\ \/ /\ results' = [results EXCEPT ![r] = Local[Key[r]]]
          /\ Goto(r, IF MustReserve(r) THEN "reserve" ELSE "sign")
       \/ /\ r \in gone \/ "policyError" \in Faults
          /\ Goto(r, "failed")
          /\ UNCHANGED results
    /\ UNCHANGED <<gone, cache, verdict, told, audited>> /\ budgetUnchanged

(* mutant: an unreachable counter fails open *)
BudgetPredicateResultOpen(o) ==
    CASE o = "WITHIN_LIMIT" -> [outcome |-> "SATISFIED", failMode |-> ""]
      [] o = "EXCEEDED"     -> [outcome |-> "DENIED", failMode |-> ""]
      [] OTHER              -> [outcome |-> "UNAVAILABLE", failMode |-> "FAIL_OPEN"]

(* budgetPredicateResult *)
BudgetPredicateResult(o) ==
    CASE o = "WITHIN_LIMIT" -> [outcome |-> "SATISFIED", failMode |-> ""]
      [] o = "EXCEEDED"     -> [outcome |-> "DENIED", failMode |-> ""]
      [] OTHER              -> [outcome |-> "UNAVAILABLE", failMode |-> "FAIL_CLOSED_REVIEW"]

(* Reserver.Reserve answers, and its answer is one more predicate result *)
Reserve(r) ==
    /\ pc[r] = "reserve"
    /\ Gate!Grant(r, 0) \/ Gate!Refuse(r)
    /\ results' = [results EXCEPT ![r] = Append(@, BudgetPredicateResult(answer'[r]))]
    /\ Goto(r, "sign")
    /\ UNCHANGED <<gone, cache, verdict, told, audited>>

(* mutant: the outcome of the last predicate is signed for a verdict *)
SignUncombined(r) ==
    /\ pc[r] = "sign"
    /\ verdict' = [verdict EXCEPT ![r] = results[r][Len(results[r])].outcome]
    /\ Goto(r, "save")
    /\ UNCHANGED <<gone, cache, results, told, audited>> /\ budgetUnchanged

(* the results are combined and the decision is signed *)
Sign(r) ==
    /\ pc[r] = "sign"
    /\ \/ verdict' = [verdict EXCEPT ![r] = Combine(results[r])] /\ Goto(r, "save")
       \/ "signError" \in Faults /\ Goto(r, "failed") /\ UNCHANGED verdict
    /\ UNCHANGED <<gone, cache, results, told, audited>> /\ budgetUnchanged

-----------------------------------------------------------------------------
(* handleAuthorize, after the engine.                                      *)

(* mutant: the decision is not recorded under its key *)
SaveSkipped(r) ==
    /\ pc[r] = "save"
    /\ Goto(r, "respond")
    /\ UNCHANGED <<gone, cache, results, verdict, told, audited>> /\ budgetUnchanged

(* saveIdempotent: best effort, on the request's context, overwriting *)
Save(r) ==
    /\ pc[r] = "save"
    /\ \/ r \notin gone /\ cache' = [cache EXCEPT ![Key[r]] = r]
       \/ (r \in gone \/ "cacheError" \in Faults) /\ UNCHANGED cache
    /\ Goto(r, "respond")
    /\ UNCHANGED <<gone, results, verdict, told, audited>> /\ budgetUnchanged

(* the decision is written to whoever is still there *)
Respond(r) ==
    /\ pc[r] = "respond"
    /\ \/ r \in gone /\ UNCHANGED told
       \/ /\ r \notin gone
          /\ told' = [told EXCEPT ![r] = r]
    /\ Goto(r, "audit")
    /\ UNCHANGED <<gone, cache, results, verdict, audited>> /\ budgetUnchanged

(* mutant: shadow decisions are not worth an audit record *)
EnqueueAuditEnforced(r) ==
    /\ pc[r] = "audit"
    /\ audited' = IF r \in Shadow THEN audited ELSE audited \cup {r}
    /\ Goto(r, "done")
    /\ UNCHANGED <<gone, cache, results, verdict, told>> /\ budgetUnchanged

(* enqueueAudit, after the response *)
EnqueueAudit(r) ==
    /\ pc[r] = "audit"
    /\ audited' = audited \cup {r}
    /\ Goto(r, "done")
    /\ UNCHANGED <<gone, cache, results, verdict, told>> /\ budgetUnchanged

-----------------------------------------------------------------------------
(* The environment.                                                        *)

Disconnect(r) ==
    /\ "disconnect" \in Faults
    /\ pc[r] \in Working /\ r \notin gone
    /\ gone' = gone \cup {r}
    /\ UNCHANGED <<pc, cache, results, verdict, told, audited>> /\ budgetUnchanged

Crash(r) ==
    /\ "crash" \in Faults
    /\ pc[r] \in Working
    /\ Goto(r, "failed")
    /\ UNCHANGED <<gone, cache, results, verdict, told, audited>> /\ budgetUnchanged

(* an entry's TTL (24h) ends *)
CacheExpires(k) ==
    /\ "cacheError" \in Faults
    /\ cache[k] # None
    /\ cache' = [cache EXCEPT ![k] = None]
    /\ UNCHANGED <<pc, gone, results, verdict, told, audited>> /\ budgetUnchanged

(* the caller settles the hold it was told of, or its TTL ends *)
HoldEnds(r) ==
    /\ \/ (\E q \in Requests : told[q] = r) /\ Gate!Settle(r)
       \/ hold[r] = "held" /\ Gate!Expire({r})
    /\ UNCHANGED <<pc, gone, cache, results, verdict, told, audited>>

Handle(r) ==
    \/ Lookup(r) \/ EvalLocal(r) \/ Reserve(r) \/ Sign(r)
    \/ Save(r) \/ Respond(r) \/ EnqueueAudit(r)

Next ==
    \/ \E r \in Requests :
          Receive(r) \/ Handle(r) \/ Disconnect(r) \/ Crash(r) \/ HoldEnds(r)
    \/ \E k \in Keys : CacheExpires(k)

Spec == Init /\ [][Next]_vars

(* A goroutine that serves a request runs on; nobody need send one. *)
FairSpec == Spec /\ \A r \in Requests : WF_vars(Handle(r))

-----------------------------------------------------------------------------
(* Properties.                                                             *)

(* Every variable has its type.                                            *)
TypeOK ==
    /\ pc \in [Requests -> {"new"} \cup Working \cup Ended]
    /\ gone \subseteq Requests
    /\ cache \in [Keys -> Requests \cup {None}]
    /\ results \in [Requests -> Seq(PredicateResults)]
    /\ verdict \in [Requests -> Verdicts \cup {None}]
    /\ told \in [Requests -> Requests \cup {None}]
    /\ audited \subseteq Requests
    /\ answer \in [Requests -> {"pending", "WITHIN_LIMIT", "EXCEEDED", "UNAVAILABLE"}]
    /\ hold \in [Requests -> {"none", "held", "captured", "voided", "expired"}]
    /\ window \in [Requests -> {0, -1}]

(* Engine.Authorize: an approval that a caller was given, fresh or         *)
(* replayed, and that is enforceable and subject to a budget, is one the   *)
(* budget granted.  An exceeded or unreachable budget never turns into an  *)
(* approval.                                                               *)
ApproveIsBacked ==
    \A r \in Requests : LET d == told[r] IN
        (d # None /\ d \notin Shadow /\ Key[d] \in Budgeted)
            => (verdict[d] = "APPROVE" => answer[d] = "WITHIN_LIMIT")

(* Engine.Authorize: nothing is reserved for a transaction whose decision  *)
(* is anything but an enforceable approval.  There may be no decision at   *)
(* all: when signing fails after the reserve, the hold stays until its TTL *)
(* (DueHoldResolved of Budget).                                            *)
HoldsAreApproved ==
    \A r \in Requests : answer[r] = "WITHIN_LIMIT" =>
        r \notin Shadow /\ verdict[r] \in {None, "APPROVE"}

(* handleAuthorize: "a client retry never produces a second, divergent     *)
(* one" - all answers for a key name the same decision.                    *)
OneDecisionPerKey ==
    \A q, r \in Requests :
        (Key[q] = Key[r] /\ told[q] # None /\ told[r] # None)
            => told[q] = told[r]

(* handleAuthorize: "a retry never double-reserves" - one hold per key.    *)
OneHoldPerKey ==
    \A q, r \in Requests :
        (Key[q] = Key[r] /\ answer[q] = "WITHIN_LIMIT" /\ answer[r] = "WITHIN_LIMIT")
            => q = r

(* enqueueAudit: every decision a caller acts on reaches the audit writer, *)
(* also when it was answered by a replay - unless the process that made it *)
(* died with the response on the wire.                                     *)
AnswersAreAudited ==
    \A r \in Requests : (told[r] # None) ~>
        (told[r] \in audited \cup { q \in Requests : pc[q] = "failed" })
=============================================================================
