--------------------------- MODULE AuthorizeProof ----------------------------
(***************************************************************************)
(* What an answer of /v1/authorize rests on, for any number of requests,   *)
(* keys, retries and budgets, under every fault of Authorize; and what a   *)
(* client that retries one attempt after the other can rely on.            *)
(***************************************************************************)
EXTENDS Authorize, TLAPS

-----------------------------------------------------------------------------
(* The algebra: what one more result does to a verdict.                    *)

(* A result that does not come to SATISFIED rules an approval out.         *)
LEMMA LastResultCounts ==
  ASSUME NEW L \in Seq(PredicateResults), NEW x \in PredicateResults,
         EffectiveOutcome(x) \in {"DENIED", "REVIEW"}
  PROVE  Combine(Append(L, x)) # "APPROVE"
<1>. DEFINE A == Append(L, x)
<1>1. Len(A) \in Nat /\ Len(A) = Len(L) + 1 /\ A[Len(A)] = x
  OBVIOUS
<1>2. Len(A) \in 1..Len(A)
  BY <1>1
<1>3. Some(A, "DENIED") \/ Some(A, "REVIEW")
  BY <1>1, <1>2 DEF Some
<1>. QED  BY <1>3 DEF Combine

(* A satisfied result leaves an approval as it is.                         *)
LEMMA SatisfiedChangesNothing ==
  ASSUME NEW L \in Seq(PredicateResults), NEW x \in PredicateResults,
         EffectiveOutcome(x) = "SATISFIED", Combine(L) = "APPROVE"
  PROVE  Combine(Append(L, x)) = "APPROVE"
<1>. DEFINE A == Append(L, x)
<1>1. ~Some(L, "DENIED") /\ ~Some(L, "REVIEW")
  BY DEF Combine
<1>2. \A i \in 1..Len(A) : A[i] = x \/ \E j \in 1..Len(L) : A[i] = L[j]
  OBVIOUS
<1>3. ~Some(A, "DENIED") /\ ~Some(A, "REVIEW")
  BY <1>1, <1>2 DEF Some
<1>4. A # <<>>
  OBVIOUS
<1>. QED  BY <1>3, <1>4 DEF Combine

(* What each answer of the budget comes to.                                *)
LEMMA BudgetResult ==
  ASSUME NEW o \in {"WITHIN_LIMIT", "EXCEEDED", "UNAVAILABLE"}
  PROVE  /\ BudgetPredicateResult(o) \in PredicateResults
         /\ o = "WITHIN_LIMIT" => EffectiveOutcome(BudgetPredicateResult(o)) = "SATISFIED"
         /\ o # "WITHIN_LIMIT" =>
               EffectiveOutcome(BudgetPredicateResult(o)) \in {"DENIED", "REVIEW"}
BY DEF BudgetPredicateResult, EffectiveOutcome, PredicateResults, PredicateOutcomes,
       FailModes

LEMMA CombineType ==
  ASSUME NEW L
  PROVE  Combine(L) \in Verdicts
BY DEF Combine, Verdicts

-----------------------------------------------------------------------------
(* Type correctness.                                                       *)

LEMMA LocalType ==
  ASSUME NEW r \in Requests
  PROVE  Key[r] \in Keys /\ Local[Key[r]] \in Seq(PredicateResults)
BY AuthorizeAssumption DEF Keys

LEMMA HandleType ==
  ASSUME TypeOK, NEW r \in Requests, Receive(r) \/ Handle(r)
  PROVE  TypeOK'
<1>. USE DEF TypeOK, Goto, budgetUnchanged, Working, Ended
<1>1. CASE Receive(r)
  BY <1>1 DEF Receive
<1>2. CASE Lookup(r)
  <2>1. cache[Key[r]] \in Requests \cup {None}
    BY LocalType
  <2>2. told' \in [Requests -> Requests \cup {None}]
    BY <1>2, <2>1 DEF Lookup
  <2>3. pc' = [pc EXCEPT ![r] = "done"] \/ pc' = [pc EXCEPT ![r] = "policy"]
    BY <1>2 DEF Lookup
  <2>. QED  BY <1>2, <2>2, <2>3 DEF Lookup
<1>3. CASE EvalLocal(r)
  BY <1>3, LocalType DEF EvalLocal
<1>4. CASE Reserve(r)
  <2>1. /\ answer' \in [Requests -> {"pending", "WITHIN_LIMIT", "EXCEEDED", "UNAVAILABLE"}]
        /\ hold' \in [Requests -> {"none", "held", "captured", "voided", "expired"}]
        /\ window' \in [Requests -> {0, -1}]
        /\ answer'[r] \in {"WITHIN_LIMIT", "EXCEEDED", "UNAVAILABLE"}
    BY <1>4 DEF Reserve, Gate!Grant, Gate!Refuse
  <2>2. BudgetPredicateResult(answer'[r]) \in PredicateResults
    BY <2>1, BudgetResult
  <2>3. results' \in [Requests -> Seq(PredicateResults)]
    BY <1>4, <2>2 DEF Reserve
  <2>. QED  BY <1>4, <2>1, <2>3 DEF Reserve
<1>5. CASE Sign(r)
  <2>1. Combine(results[r]) \in Verdicts
    BY CombineType
  <2>2. verdict' \in [Requests -> Verdicts \cup {None}]
    BY <1>5, <2>1 DEF Sign
  <2>3. pc' = [pc EXCEPT ![r] = "save"] \/ pc' = [pc EXCEPT ![r] = "failed"]
    BY <1>5 DEF Sign
  <2>. QED  BY <1>5, <2>2, <2>3 DEF Sign
<1>6. CASE Save(r)
  BY <1>6, LocalType DEF Save
<1>7. CASE Respond(r)
  <2>1. told' \in [Requests -> Requests \cup {None}]
    BY <1>7 DEF Respond
  <2>2. pc' = [pc EXCEPT ![r] = "audit"]
    BY <1>7 DEF Respond
  <2>. QED  BY <1>7, <2>1, <2>2 DEF Respond
<1>8. CASE EnqueueAudit(r)
  BY <1>8 DEF EnqueueAudit
<1>. QED  BY <1>1, <1>2, <1>3, <1>4, <1>5, <1>6, <1>7, <1>8 DEF Handle

LEMMA EnvironmentType ==
  ASSUME TypeOK,
         \/ \E r \in Requests : Disconnect(r) \/ Crash(r) \/ HoldEnds(r)
         \/ \E k \in Keys : CacheExpires(k)
  PROVE  TypeOK'
<1>. USE DEF TypeOK, Goto, budgetUnchanged, Working, Ended
<1>1. ASSUME NEW r \in Requests, Disconnect(r)  PROVE TypeOK'
  BY <1>1 DEF Disconnect
<1>2. ASSUME NEW r \in Requests, Crash(r)  PROVE TypeOK'
  BY <1>2 DEF Crash
<1>3. ASSUME NEW r \in Requests, HoldEnds(r)  PROVE TypeOK'
  BY <1>3 DEF HoldEnds, Gate!Settle, Gate!Expire
<1>4. ASSUME NEW k \in Keys, CacheExpires(k)  PROVE TypeOK'
  BY <1>4 DEF CacheExpires
<1>. QED  BY <1>1, <1>2, <1>3, <1>4

-----------------------------------------------------------------------------
(* The inductive invariant.                                                *)

(* What the engine has put together once it comes to sign: the local       *)
(* results, and, when the budget had to be asked, its answer to this very  *)
(* decision.                                                               *)
Evaluated(r) ==
    \/ /\ ~MustReserve(r)
       /\ answer[r] = "pending"
       /\ results[r] = Local[Key[r]]
    \/ /\ MustReserve(r)
       /\ answer[r] # "pending"
       /\ results[r] = Append(Local[Key[r]], BudgetPredicateResult(answer[r]))

(* Each request, by the stage it has reached.                              *)
Stages ==
    \A r \in Requests :
        /\ pc[r] \in {"new", "lookup", "policy"} =>
              answer[r] = "pending" /\ verdict[r] = None
        /\ pc[r] = "reserve" =>
              /\ MustReserve(r) /\ results[r] = Local[Key[r]]
              /\ answer[r] = "pending" /\ verdict[r] = None
        /\ pc[r] = "sign" => Evaluated(r) /\ verdict[r] = None
        /\ answer[r] # "pending" => Evaluated(r)
        /\ verdict[r] # None => Evaluated(r) /\ verdict[r] = Combine(results[r])

(* Only signed decisions are saved or answered.                            *)
OnlySigned ==
    /\ \A r \in Requests : pc[r] \in {"save", "respond"} => verdict[r] # None
    /\ \A k \in Keys : cache[k] # None => verdict[cache[k]] # None
    /\ \A r \in Requests : told[r] # None => verdict[told[r]] # None

IInv == TypeOK /\ Stages /\ OnlySigned

LEMMA InvInit == Init => IInv
<1>. SUFFICES ASSUME Init PROVE IInv
  OBVIOUS
<1>1. TypeOK
  BY DEF Init, Gate!Init, Gate!NoWindow, TypeOK
<1>2. Stages /\ OnlySigned
  BY DEF Init, Gate!Init, Stages, OnlySigned
<1>. QED  BY <1>1, <1>2 DEF IInv

(* A step that leaves results, answers, verdicts and the records of them   *)
(* alone, and takes no request back or past its signature.                 *)
LEMMA QuietStep ==
  ASSUME IInv, TypeOK', UNCHANGED <<results, answer, verdict>>,
         \A r \in Requests :
            \/ pc'[r] = pc[r]
            \/ pc'[r] \in {"done", "failed", "audit"}
            \/ pc[r] = "new" /\ pc'[r] = "lookup"
            \/ pc[r] = "lookup" /\ pc'[r] = "policy"
            \/ pc[r] = "save" /\ pc'[r] = "respond",
         \A k \in Keys : cache'[k] # None => verdict[cache'[k]] # None,
         \A r \in Requests : told'[r] # None => verdict[told'[r]] # None
  PROVE  IInv'
<1>1. \A r \in Requests : Evaluated(r)' <=> Evaluated(r)
  BY DEF Evaluated, MustReserve
<1>2. Stages'
  BY <1>1 DEF IInv, Stages, MustReserve
<1>3. OnlySigned'
  BY DEF IInv, OnlySigned
<1>. QED  BY <1>2, <1>3 DEF IInv

(* The steps of the handler.                                               *)
LEMMA HandleInv ==
  ASSUME IInv, NEW r \in Requests, Receive(r) \/ Handle(r)
  PROVE  IInv'
<1>. USE DEF Goto, budgetUnchanged
<1>a. TypeOK /\ Stages /\ OnlySigned /\ TypeOK'
  BY HandleType DEF IInv
<1>b. /\ DOMAIN pc = Requests /\ DOMAIN results = Requests /\ DOMAIN verdict = Requests
      /\ DOMAIN answer = Requests /\ DOMAIN told = Requests /\ DOMAIN cache = Keys
  BY <1>a DEF TypeOK
<1>c. Key[r] \in Keys
  BY LocalType
<1>1. CASE Receive(r)
  BY <1>1, <1>a, <1>b, QuietStep DEF Receive, OnlySigned
<1>2. CASE Lookup(r)
  <2>1. \A q \in Requests : told'[q] # None => verdict[told'[q]] # None
    BY <1>2, <1>a, <1>b, <1>c DEF Lookup, OnlySigned
  <2>. QED  BY <1>2, <1>a, <1>b, <2>1, QuietStep DEF Lookup, OnlySigned
<1>3. CASE EvalLocal(r)
  <2>1. answer[r] = "pending" /\ verdict[r] = None
    BY <1>3, <1>a DEF EvalLocal, Stages
  <2>2. \A q \in Requests \ {r} : Evaluated(q)' <=> Evaluated(q)
    BY <1>3, <1>b DEF EvalLocal, Evaluated, MustReserve
  <2>3. pc'[r] = "sign" => Evaluated(r)'
    BY <1>3, <1>b, <2>1 DEF EvalLocal, Evaluated, MustReserve
  <2>4. Stages'
    BY <1>3, <1>a, <1>b, <2>1, <2>2, <2>3 DEF EvalLocal, Stages, MustReserve
  <2>5. OnlySigned'
    BY <1>3, <1>a, <1>b DEF EvalLocal, OnlySigned
  <2>. QED  BY <1>a, <2>4, <2>5 DEF IInv
<1>4. CASE Reserve(r)
  <2>1. /\ answer'[r] # "pending"
        /\ \A q \in Requests \ {r} : answer'[q] = answer[q]
    BY <1>4, <1>b DEF Reserve, Gate!Grant, Gate!Refuse
  <2>2. /\ MustReserve(r) /\ results[r] = Local[Key[r]] /\ verdict[r] = None
        /\ pc[r] = "reserve"
    BY <1>4, <1>a DEF Reserve, Stages
  <2>3. /\ results'[r] = Append(Local[Key[r]], BudgetPredicateResult(answer'[r]))
        /\ \A q \in Requests \ {r} : results'[q] = results[q]
        /\ pc'[r] = "sign"
        /\ \A q \in Requests \ {r} : pc'[q] = pc[q]
        /\ UNCHANGED <<verdict, cache, told>>
    BY <1>4, <1>b, <2>2 DEF Reserve
  <2>4. Evaluated(r)'
    BY <2>1, <2>2, <2>3 DEF Evaluated, MustReserve
  <2>5. \A q \in Requests \ {r} : Evaluated(q)' <=> Evaluated(q)
    BY <2>1, <2>3 DEF Evaluated, MustReserve
  <2>6. Stages'
    BY <1>a, <2>1, <2>2, <2>3, <2>4, <2>5 DEF Stages, MustReserve
  <2>7. OnlySigned'
    BY <1>a, <2>2, <2>3 DEF OnlySigned
  <2>. QED  BY <1>a, <2>6, <2>7 DEF IInv
<1>5. CASE Sign(r)
  <2>0. pc[r] = "sign" /\ Evaluated(r) /\ verdict[r] = None
    BY <1>5, <1>a DEF Sign, Stages
  <2>1. \A q \in Requests : Evaluated(q)' <=> Evaluated(q)
    BY <1>5 DEF Sign, Evaluated, MustReserve
  <2>2. CASE UNCHANGED verdict
    <3>1. pc' = [pc EXCEPT ![r] = "failed"]
      BY <1>5, <2>0, <2>2, CombineType, <1>b DEF Sign, Verdicts, None
    <3>. QED  BY <1>5, <1>a, <1>b, <2>2, <3>1, QuietStep DEF Sign, OnlySigned
  <2>3. CASE verdict' = [verdict EXCEPT ![r] = Combine(results[r])] /\ pc' = [pc EXCEPT ![r] = "save"]
    <3>1. verdict'[r] = Combine(results'[r]) /\ verdict'[r] # None
      BY <1>5, <1>b, <2>3, CombineType DEF Sign, Verdicts, None
    <3>2. \A q \in Requests \ {r} : verdict'[q] = verdict[q] /\ pc'[q] = pc[q]
      BY <1>b, <2>3
    <3>3. pc'[r] = "save" /\ UNCHANGED <<results, answer, cache, told>>
      BY <1>5, <1>b, <2>3 DEF Sign
    <3>4. Stages'
      BY <1>a, <2>0, <2>1, <3>1, <3>2, <3>3 DEF Stages, MustReserve
    <3>5. \A q \in Requests : verdict[q] # None => verdict'[q] # None
      BY <3>1, <3>2
    <3>6. \A q \in Requests : told[q] \in Requests \cup {None}
      BY <1>a DEF TypeOK
    <3>7. \A k \in Keys : cache[k] \in Requests \cup {None}
      BY <1>a DEF TypeOK
    <3>8. \A q \in Requests : told'[q] # None => verdict'[told'[q]] # None
      BY <1>a, <3>3, <3>5, <3>6 DEF OnlySigned
    <3>9. \A k \in Keys : cache'[k] # None => verdict'[cache'[k]] # None
      BY <1>a, <3>3, <3>5, <3>7 DEF OnlySigned
    <3>10. \A q \in Requests : pc'[q] \in {"save", "respond"} => verdict'[q] # None
      BY <1>a, <3>1, <3>2 DEF OnlySigned
    <3>11. OnlySigned'
      BY <3>8, <3>9, <3>10 DEF OnlySigned
    <3>. QED  BY <1>a, <3>4, <3>11 DEF IInv
  <2>. QED  BY <1>5, <2>2, <2>3 DEF Sign
<1>6. CASE Save(r)
  <2>1. verdict[r] # None
    BY <1>6, <1>a DEF Save, OnlySigned
  <2>2. \A k \in Keys : cache'[k] # None => verdict[cache'[k]] # None
    BY <1>6, <1>a, <1>b, <2>1 DEF Save, OnlySigned
  <2>. QED  BY <1>6, <1>a, <1>b, <2>2, QuietStep DEF Save, OnlySigned
<1>7. CASE Respond(r)
  <2>1. verdict[r] # None
    BY <1>7, <1>a DEF Respond, OnlySigned
  <2>2. \A q \in Requests : told'[q] # None => verdict[told'[q]] # None
    BY <1>7, <1>a, <1>b, <2>1 DEF Respond, OnlySigned
  <2>. QED  BY <1>7, <1>a, <1>b, <2>2, QuietStep DEF Respond, OnlySigned
<1>8. CASE EnqueueAudit(r)
  BY <1>8, <1>a, <1>b, QuietStep DEF EnqueueAudit, OnlySigned
<1>. QED  BY <1>1, <1>2, <1>3, <1>4, <1>5, <1>6, <1>7, <1>8 DEF Handle

LEMMA EnvironmentInv ==
  ASSUME IInv,
         \/ \E r \in Requests : Disconnect(r) \/ Crash(r) \/ HoldEnds(r)
         \/ \E k \in Keys : CacheExpires(k)
  PROVE  IInv'
<1>a. TypeOK /\ OnlySigned /\ TypeOK'
  BY EnvironmentType DEF IInv
<1>b. DOMAIN pc = Requests /\ DOMAIN cache = Keys
  BY <1>a DEF TypeOK
<1>1. UNCHANGED <<results, answer, verdict, told>>
  BY DEF Disconnect, Crash, HoldEnds, CacheExpires, Gate!Settle, Gate!Expire,
         budgetUnchanged
<1>2. \A r \in Requests : pc'[r] = pc[r] \/ pc'[r] = "failed"
  BY <1>b DEF Disconnect, Crash, HoldEnds, CacheExpires, Goto
<1>3. \A k \in Keys : cache'[k] = cache[k] \/ cache'[k] = None
  BY <1>b DEF Disconnect, Crash, HoldEnds, CacheExpires
<1>. QED  BY <1>a, <1>1, <1>2, <1>3, QuietStep DEF OnlySigned

LEMMA InvNext == IInv /\ [Next]_vars => IInv'
<1>. SUFFICES ASSUME IInv, [Next]_vars PROVE IInv'
  OBVIOUS
<1>1. CASE Next
  BY <1>1, HandleInv, EnvironmentInv DEF Next
<1>2. CASE UNCHANGED vars
  <2>1. TypeOK'
    BY <1>2 DEF vars, IInv, TypeOK
  <2>. QED  BY <1>2, <2>1, QuietStep DEF vars, IInv, OnlySigned
<1>. QED  BY <1>1, <1>2

LEMMA Invariance == Spec => []IInv
BY InvInit, InvNext, PTL DEF Spec

-----------------------------------------------------------------------------
(* Whatever fails, and however retries interleave, a caller never holds an *)
(* enforceable approval on a budgeted transaction that the budget did not  *)
(* grant.                                                                  *)
THEOREM ApprovalsAreBacked == Spec => []ApproveIsBacked
<1>1. IInv => ApproveIsBacked
  <2>. SUFFICES ASSUME IInv, NEW r \in Requests, told[r] # None,
                      told[r] \notin Shadow, Key[told[r]] \in Budgeted,
                      verdict[told[r]] = "APPROVE"
               PROVE  answer[told[r]] = "WITHIN_LIMIT"
    BY DEF ApproveIsBacked
  <2>. DEFINE d == told[r]
  <2>1. d \in Requests
    BY DEF IInv, TypeOK
  <2>2. Evaluated(d) /\ Combine(results[d]) = "APPROVE"
    BY <2>1 DEF IInv, Stages, OnlySigned
  <2>3. MustReserve(d)
    BY <2>2 DEF Evaluated, MustReserve
  <2>4. /\ answer[d] \in {"WITHIN_LIMIT", "EXCEEDED", "UNAVAILABLE"}
        /\ results[d] = Append(Local[Key[d]], BudgetPredicateResult(answer[d]))
    BY <2>1, <2>2, <2>3 DEF Evaluated, IInv, TypeOK
  <2>5. Local[Key[d]] \in Seq(PredicateResults)
    BY <2>1, LocalType
  <2>6. /\ BudgetPredicateResult(answer[d]) \in PredicateResults
        /\ answer[d] # "WITHIN_LIMIT" =>
              EffectiveOutcome(BudgetPredicateResult(answer[d])) \in {"DENIED", "REVIEW"}
    BY <2>4, BudgetResult
  <2>. QED  BY <2>2, <2>4, <2>5, <2>6, LastResultCounts
<1>. QED  BY <1>1, Invariance, PTL

(* The budget is never charged for what was decided as anything but an     *)
(* enforceable approval.                                                   *)
THEOREM OnlyApprovalsAreCharged == Spec => []HoldsAreApproved
<1>1. IInv => HoldsAreApproved
  <2>. SUFFICES ASSUME IInv, NEW r \in Requests, answer[r] = "WITHIN_LIMIT"
               PROVE  r \notin Shadow /\ verdict[r] \in {None, "APPROVE"}
    BY DEF HoldsAreApproved
  <2>1. /\ MustReserve(r)
        /\ results[r] = Append(Local[Key[r]], BudgetPredicateResult("WITHIN_LIMIT"))
    BY DEF IInv, Stages, Evaluated
  <2>2. /\ BudgetPredicateResult("WITHIN_LIMIT") \in PredicateResults
        /\ EffectiveOutcome(BudgetPredicateResult("WITHIN_LIMIT")) = "SATISFIED"
    BY BudgetResult
  <2>3. Combine(results[r]) = "APPROVE"
    BY <2>1, <2>2, LocalType, SatisfiedChangesNothing DEF MustReserve
  <2>4. verdict[r] # None => verdict[r] = Combine(results[r])
    BY DEF IInv, Stages
  <2>. QED  BY <2>1, <2>3, <2>4 DEF MustReserve
<1>. QED  BY <1>1, Invariance, PTL

(* POST /v1/authorize: the handler's state keeps its types.                *)
THEOREM AuthorizeTypeCorrect == Spec => []TypeOK
<1>1. IInv => TypeOK
  BY DEF IInv
<1>. QED  BY <1>1, Invariance, PTL

-----------------------------------------------------------------------------
(* Retries.  A client that retries what has ended, and an idempotency      *)
(* cache that keeps what it was given.                                     *)

KeptAndInTurn == Retries = "sequential" /\ "cacheError" \notin Faults

(* One request of a key is at work; an answer is the one the cache holds;  *)
(* and who decides for a key has either found nothing saved for it, or     *)
(* lost its client, and then neither saves nor answers.                    *)
InTurn ==
    \A q, r \in Requests :
        Key[q] = Key[r] /\ pc[q] \in Working /\ pc[r] \in Working => q = r

ToldIsSaved == \A r \in Requests : told[r] # None => cache[Key[r]] = told[r]

FirstToDecide ==
    \A r \in Requests :
        /\ pc[r] \in {"policy", "reserve", "sign", "save"} => cache[Key[r]] = None \/ r \in gone
        /\ pc[r] = "respond" => cache[Key[r]] = r \/ r \in gone

RetryInv == InTurn /\ ToldIsSaved /\ FirstToDecide

(* How a step of one request moves it on: nobody but a new request starts. *)
LEMMA TurnStep ==
  ASSUME TypeOK, InTurn, NEW r \in Requests, NEW s, Goto(r, s),
         s \in Working => pc[r] \in Working
  PROVE  InTurn' /\ \A q \in Requests : pc'[q] = IF q = r THEN s ELSE pc[q]
BY DEF TypeOK, Goto, InTurn

(* A step that saves and answers nothing keeps the rest.                   *)
LEMMA SilentStep ==
  ASSUME RetryInv, UNCHANGED <<cache, told>>, gone \subseteq gone', InTurn',
         \A q \in Requests :
            \/ pc'[q] = pc[q]
            \/ pc'[q] \in {"lookup", "audit", "done", "failed"}
            \/ pc[q] = "lookup" /\ pc'[q] = "policy" /\ (cache[Key[q]] = None \/ q \in gone)
            \/ /\ pc[q] \in {"policy", "reserve", "sign"}
               /\ pc'[q] \in {"reserve", "sign", "save"}
  PROVE  RetryInv'
BY DEF RetryInv, ToldIsSaved, FirstToDecide

LEMMA RetryHandle ==
  ASSUME KeptAndInTurn, TypeOK, RetryInv, NEW r \in Requests, Receive(r) \/ Handle(r)
  PROVE  RetryInv'
<1>a. DOMAIN pc = Requests /\ DOMAIN cache = Keys /\ DOMAIN told = Requests /\ Key[r] \in Keys
  BY LocalType DEF TypeOK
<1>b. InTurn /\ ToldIsSaved /\ FirstToDecide
  BY DEF RetryInv
<1>1. CASE Receive(r)
  <2>1. \A q \in Requests : Key[q] = Key[r] => pc[q] \notin Working
    BY <1>1 DEF Receive, KeptAndInTurn
  <2>2. \A q \in Requests : pc'[q] = pc[q] \/ (q = r /\ pc'[q] \in {"lookup", "failed"})
    <3>1. PICK s \in {"lookup", "failed"} : pc' = [pc EXCEPT ![r] = s]
      BY <1>1 DEF Receive, Goto
    <3>. QED  BY <3>1, <1>a
  <2>3. InTurn'
    BY <1>b, <2>1, <2>2 DEF InTurn
  <2>. QED  BY <1>1, <2>2, <2>3, SilentStep DEF Receive
<1>2. CASE Lookup(r)
  <2>1. pc[r] = "lookup" /\ UNCHANGED <<cache, gone>>
    BY <1>2 DEF Lookup
  <2>2. CASE /\ cache[Key[r]] # None /\ told' = [told EXCEPT ![r] = cache[Key[r]]]
             /\ Goto(r, "done")
    <3>1. InTurn' /\ \A q \in Requests : pc'[q] = IF q = r THEN "done" ELSE pc[q]
      BY <1>b, <2>2, TurnStep DEF Working
    <3>2. ToldIsSaved'
      BY <1>a, <1>b, <2>1, <2>2 DEF ToldIsSaved
    <3>3. FirstToDecide'
      BY <1>b, <2>1, <3>1 DEF FirstToDecide
    <3>. QED  BY <3>1, <3>2, <3>3 DEF RetryInv
  <2>3. CASE (cache[Key[r]] = None \/ r \in gone) /\ Goto(r, "policy") /\ UNCHANGED told
    <3>1. InTurn' /\ \A q \in Requests : pc'[q] = IF q = r THEN "policy" ELSE pc[q]
      BY <1>b, <2>1, <2>3, TurnStep DEF Working
    <3>. QED  BY <2>1, <2>3, <3>1, SilentStep
  <2>. QED  BY <1>2, <2>2, <2>3 DEF Lookup, KeptAndInTurn
<1>3. CASE EvalLocal(r) \/ Reserve(r) \/ Sign(r)
  <2>1. PICK s \in {"reserve", "sign", "save", "failed"} : Goto(r, s)
    BY <1>3 DEF EvalLocal, Reserve, Sign
  <2>2. pc[r] \in {"policy", "reserve", "sign"} /\ UNCHANGED <<cache, told, gone>>
    BY <1>3 DEF EvalLocal, Reserve, Sign
  <2>3. InTurn' /\ \A q \in Requests : pc'[q] = IF q = r THEN s ELSE pc[q]
    BY <1>b, <2>1, <2>2, TurnStep DEF Working
  <2>. QED  BY <2>1, <2>2, <2>3, SilentStep
<1>4. CASE Save(r)
  <2>1. pc[r] = "save" /\ UNCHANGED <<told, gone>>
    BY <1>4 DEF Save
  <2>2. InTurn' /\ \A q \in Requests : pc'[q] = IF q = r THEN "respond" ELSE pc[q]
    BY <1>4, <1>b, <2>1, TurnStep DEF Save, Working
  <2>3. CASE r \notin gone /\ cache' = [cache EXCEPT ![Key[r]] = r]
    <3>1. cache[Key[r]] = None
      BY <1>b, <2>1, <2>3 DEF FirstToDecide
    <3>2. \A q \in Requests : Key[q] = Key[r] => told[q] = None
      BY <1>b, <3>1 DEF ToldIsSaved
    <3>3. \A q \in Requests : Key[q] = Key[r] /\ q # r => pc[q] \notin Working
      BY <1>b, <2>1 DEF InTurn, Working
    <3>4. cache'[Key[r]] = r /\ \A q \in Requests : Key[q] # Key[r] => cache'[Key[q]] = cache[Key[q]]
      BY <1>a, <2>3
    <3>5. ToldIsSaved'
      BY <1>b, <2>1, <3>2, <3>4 DEF ToldIsSaved
    <3>6. FirstToDecide'
      BY <1>b, <2>1, <2>2, <3>3, <3>4 DEF FirstToDecide, Working
    <3>. QED  BY <2>2, <3>5, <3>6 DEF RetryInv
  <2>4. CASE r \in gone /\ UNCHANGED cache
    <3>1. ToldIsSaved'
      BY <1>b, <2>1, <2>4 DEF ToldIsSaved
    <3>2. FirstToDecide'
      BY <1>b, <2>1, <2>2, <2>4 DEF FirstToDecide
    <3>. QED  BY <2>2, <3>1, <3>2 DEF RetryInv
  <2>. QED  BY <1>4, <2>3, <2>4 DEF Save, KeptAndInTurn
<1>5. CASE Respond(r)
  <2>1. pc[r] = "respond" /\ UNCHANGED <<cache, gone>>
    BY <1>5 DEF Respond
  <2>2. InTurn' /\ \A q \in Requests : pc'[q] = IF q = r THEN "audit" ELSE pc[q]
    BY <1>5, <1>b, <2>1, TurnStep DEF Respond, Working
  <2>3. ToldIsSaved'
    BY <1>5, <1>a, <1>b, <2>1 DEF Respond, ToldIsSaved, FirstToDecide
  <2>4. FirstToDecide'
    BY <1>b, <2>1, <2>2 DEF FirstToDecide
  <2>. QED  BY <2>2, <2>3, <2>4 DEF RetryInv
<1>6. CASE EnqueueAudit(r)
  <2>1. pc[r] = "audit" /\ UNCHANGED <<cache, told, gone>> /\ Goto(r, "done")
    BY <1>6 DEF EnqueueAudit
  <2>2. InTurn' /\ \A q \in Requests : pc'[q] = IF q = r THEN "done" ELSE pc[q]
    BY <1>b, <2>1, TurnStep DEF Working
  <2>. QED  BY <2>1, <2>2, SilentStep
<1>. QED  BY <1>1, <1>2, <1>3, <1>4, <1>5, <1>6 DEF Handle

LEMMA RetryNext ==
  ASSUME KeptAndInTurn, TypeOK, RetryInv, [Next]_vars
  PROVE  RetryInv'
<1>1. ASSUME NEW r \in Requests, Disconnect(r) \/ Crash(r) \/ HoldEnds(r)  PROVE RetryInv'
  <2>1. /\ UNCHANGED <<cache, told>> /\ gone \subseteq gone'
        /\ \A q \in Requests : pc'[q] = pc[q] \/ pc'[q] = "failed"
    BY <1>1 DEF Disconnect, Crash, HoldEnds, TypeOK, Goto
  <2>2. InTurn'
    BY <2>1 DEF RetryInv, InTurn, Working
  <2>. QED  BY <2>1, <2>2, SilentStep
<1>2. \A k \in Keys : ~CacheExpires(k)
  BY DEF CacheExpires, KeptAndInTurn
<1>3. CASE UNCHANGED vars
  <2>1. UNCHANGED <<cache, told, gone, pc>>
    BY <1>3 DEF vars
  <2>2. InTurn'
    BY <2>1 DEF RetryInv, InTurn
  <2>. QED  BY <2>1, <2>2, SilentStep
<1>. QED  BY <1>1, <1>2, <1>3, RetryHandle DEF Next

LEMMA RetryInit == Init => RetryInv
BY DEF Init, RetryInv, InTurn, ToldIsSaved, FirstToDecide, Working

LEMMA RetryInvariance ==
  ASSUME KeptAndInTurn
  PROVE  Spec => []RetryInv
<1>1. TypeOK /\ RetryInv /\ [Next]_vars => RetryInv'
  BY RetryNext
<1>. QED  BY <1>1, RetryInit, AuthorizeTypeCorrect, PTL DEF Spec

(* handleAuthorize, "a client retry never produces a second, divergent     *)
(* one": whatever else fails - the client, the policy, the signer, the     *)
(* process - all answers for a key name one decision, provided that the    *)
(* client retries only what has ended and the cache neither errs nor       *)
(* forgets.                                                                *)
THEOREM RetriesAgree ==
  ASSUME KeptAndInTurn
  PROVE  Spec => []OneDecisionPerKey
<1>1. RetryInv => OneDecisionPerKey
  BY DEF RetryInv, ToldIsSaved, OneDecisionPerKey
<1>. QED  BY <1>1, RetryInvariance, PTL

-----------------------------------------------------------------------------
(* Reservations take more: a decision that reserved has to reach the       *)
(* cache, so it must not lose its client, its signature or its process.    *)

RunsThrough == Retries = "sequential" /\ Faults \subseteq {"policyError"}

(* a granted reservation is on its way to the cache, or is what it holds *)
GrantIsSaved ==
    /\ gone = {}
    /\ \A r \in Requests : answer[r] = "WITHIN_LIMIT" =>
          pc[r] \in {"sign", "save"} \/ cache[Key[r]] = r

LEMMA GrantNext ==
  ASSUME RunsThrough, IInv, RetryInv, GrantIsSaved, [Next]_vars
  PROVE  GrantIsSaved'
<1>a. /\ TypeOK /\ FirstToDecide /\ gone = {}
      /\ DOMAIN pc = Requests /\ DOMAIN cache = Keys /\ DOMAIN answer = Requests
      /\ \A q \in Requests : Key[q] \in Keys
  BY LocalType DEF IInv, RetryInv, TypeOK, GrantIsSaved
<1>f. "disconnect" \notin Faults /\ "cacheError" \notin Faults /\ "signError" \notin Faults
      /\ "crash" \notin Faults
  BY DEF RunsThrough
<1>q. ASSUME UNCHANGED <<gone, answer, cache>>,
             \A q \in Requests : \/ pc'[q] = pc[q]
                                 \/ pc[q] \notin {"sign", "save"}
                                 \/ pc'[q] = "save"
      PROVE  GrantIsSaved'
  BY <1>q DEF GrantIsSaved
<1>1. ASSUME NEW r \in Requests, Receive(r) \/ Lookup(r) \/ EvalLocal(r) \/ Respond(r) \/ EnqueueAudit(r)
      PROVE  GrantIsSaved'
  <2>1. UNCHANGED <<gone, answer, cache>>
    BY <1>1 DEF Receive, Lookup, EvalLocal, Respond, EnqueueAudit, budgetUnchanged
  <2>2. pc[r] \notin {"sign", "save"} /\ \A q \in Requests \ {r} : pc'[q] = pc[q]
    BY <1>1, <1>a DEF Receive, Lookup, EvalLocal, Respond, EnqueueAudit, Goto
  <2>. QED  BY <1>q, <2>1, <2>2
<1>2. ASSUME NEW r \in Requests, Reserve(r)  PROVE GrantIsSaved'
  <2>1. /\ UNCHANGED <<gone, cache>> /\ pc'[r] = "sign"
        /\ \A q \in Requests \ {r} : pc'[q] = pc[q] /\ answer'[q] = answer[q]
    BY <1>2, <1>a DEF Reserve, Goto, Gate!Grant, Gate!Refuse
  <2>. QED  BY <2>1 DEF GrantIsSaved
<1>3. ASSUME NEW r \in Requests, Sign(r)  PROVE GrantIsSaved'
  <2>1. /\ UNCHANGED <<gone, answer, cache>> /\ pc'[r] = "save"
        /\ \A q \in Requests \ {r} : pc'[q] = pc[q]
    BY <1>3, <1>a, <1>f DEF Sign, Goto, budgetUnchanged
  <2>. QED  BY <1>q, <2>1
<1>4. ASSUME NEW r \in Requests, Save(r)  PROVE GrantIsSaved'
  <2>1. /\ UNCHANGED <<gone, answer>> /\ pc[r] = "save"
        /\ \A q \in Requests \ {r} : pc'[q] = pc[q]
        /\ cache' = [cache EXCEPT ![Key[r]] = r]
    BY <1>4, <1>a, <1>f DEF Save, Goto, budgetUnchanged
  <2>2. cache[Key[r]] = None
    BY <1>a, <2>1 DEF FirstToDecide
  <2>3. cache'[Key[r]] = r
    BY <1>a, <2>1
  <2>4. ASSUME NEW q \in Requests \ {r}, answer[q] = "WITHIN_LIMIT"
        PROVE  pc'[q] \in {"sign", "save"} \/ cache'[Key[q]] = q
    <3>1. pc[q] \in {"sign", "save"} \/ cache[Key[q]] = q
      BY <2>4 DEF GrantIsSaved
    <3>2. CASE Key[q] = Key[r]
      BY <2>1, <2>2, <3>1, <3>2, NoneAssumption
    <3>3. CASE Key[q] # Key[r]
      BY <1>a, <2>1, <3>1, <3>3
    <3>. QED  BY <3>2, <3>3
  <2>. QED  BY <1>a, <2>1, <2>3, <2>4 DEF GrantIsSaved
<1>5. ASSUME NEW r \in Requests, Disconnect(r) \/ Crash(r)  PROVE GrantIsSaved'
  BY <1>5, <1>f DEF Disconnect, Crash
<1>6. ASSUME NEW r \in Requests, HoldEnds(r)  PROVE GrantIsSaved'
  <2>1. UNCHANGED <<gone, answer, cache, pc>>
    BY <1>6 DEF HoldEnds, Gate!Settle, Gate!Expire
  <2>. QED  BY <1>q, <2>1
<1>7. ASSUME NEW k \in Keys, CacheExpires(k)  PROVE GrantIsSaved'
  BY <1>7, <1>f DEF CacheExpires
<1>8. CASE UNCHANGED vars
  BY <1>q, <1>8 DEF vars
<1>. QED  BY <1>1, <1>2, <1>3, <1>4, <1>5, <1>6, <1>7, <1>8 DEF Next, Handle

LEMMA GrantOnce ==
  ASSUME TypeOK, RetryInv, GrantIsSaved
  PROVE  OneHoldPerKey
<1>. SUFFICES ASSUME NEW q \in Requests, NEW r \in Requests, Key[q] = Key[r],
                     answer[q] = "WITHIN_LIMIT", answer[r] = "WITHIN_LIMIT"
              PROVE  q = r
  BY DEF OneHoldPerKey
<1>1. \A p \in Requests : pc[p] \in {"sign", "save"} => cache[Key[p]] = None /\ pc[p] \in Working
  BY DEF GrantIsSaved, RetryInv, FirstToDecide, Working
<1>. QED  BY <1>1, NoneAssumption DEF GrantIsSaved, RetryInv, InTurn

(* handleAuthorize, "a retry never double-reserves": at most one hold is   *)
(* ever granted for a key, provided that the client retries only what has  *)
(* ended and that a decision, once begun, is signed and saved.  (Without   *)
(* that it is false: see the run that expects the violation.)              *)
THEOREM RetriesReserveOnce ==
  ASSUME RunsThrough
  PROVE  Spec => []OneHoldPerKey
<1>1. KeptAndInTurn
  BY DEF RunsThrough, KeptAndInTurn
<1>2. Init => GrantIsSaved
  BY DEF Init, Gate!Init, GrantIsSaved
<1>3. IInv /\ RetryInv /\ GrantIsSaved /\ [Next]_vars => GrantIsSaved'
  BY GrantNext
<1>4. Spec => []RetryInv
  BY <1>1, RetryInvariance
<1>5. Spec => []GrantIsSaved
  BY <1>2, <1>3, <1>4, Invariance, PTL DEF Spec
<1>6. TypeOK /\ RetryInv /\ GrantIsSaved => OneHoldPerKey
  BY GrantOnce
<1>. QED  BY <1>4, <1>5, <1>6, AuthorizeTypeCorrect, PTL
=============================================================================
