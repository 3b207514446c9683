------------------------------ MODULE MCVerdict ------------------------------
(***************************************************************************)
(* Two enumerations.  Every list of at most MaxResults predicate results,  *)
(* as evalLocal and then the budget append them.  And every policy of at   *)
(* most MaxRules rules out of Documents, valid and invalid ones (a third   *)
(* rule is a budget), written one after the other and then asked for a     *)
(* decision: published and compiled, or loaded from a file, which no       *)
(* schema checks.                                                          *)
(***************************************************************************)
EXTENDS Rules

CONSTANTS MaxResults, MaxRules

VARIABLES results, rules, decision

vars == <<results, rules, decision>>

-----------------------------------------------------------------------------
(* The inputs.                                                             *)

Doc(t) == [id |-> "r1", type |-> t]

WithId(d, id) == [d EXCEPT !.id = id]

Documents ==
    {Doc("per_transaction_limit") @@ d : d \in
        {[max |-> "5"], [max |-> "5.125"], [max |-> "0", currency |-> ""], [max |-> "9", currency |-> "EUR"],
         [max |-> ""], [max |-> "1e1"], [max |-> "five"], [max |-> "5", limit |-> "9"]}}
    \cup {Doc("vendor_allowlist") @@ d : d \in
        {[vendors |-> {"v1"}], [vendors |-> {"v2"}, agents |-> {"a2"}], [vendors |-> {}]}}
    \cup {Doc("vendor_blocklist") @@ d : d \in
        {[vendors |-> {"v1"}, agents |-> {}], [vendors |-> {}], [vendors |-> {""}]}}
    \cup {Doc("agent_permission") @@ d : d \in
        {[allowed_actions |-> {"pay"}], [allowed_actions |-> {}, allowed_targets |-> {"v1"}],
         [allowed_actions |-> {}, agents |-> {"a1"}]}}
    \cup {Doc("time_window") @@ d : d \in
        {[start_minute |-> 60, end_minute |-> 120], [start_minute |-> 120, end_minute |-> 60],
         [start_minute |-> 0, end_minute |-> 0, weekdays |-> {1}],
         [start_minute |-> 0, end_minute |-> 1440], [start_minute |-> 0],
         [start_minute |-> 0, end_minute |-> 60, weekdays |-> {7}]}}
    \cup {Doc("jurisdiction_currency") @@ d : d \in
        {[allowed |-> ("US" :> {"USD"})], [allowed |-> ("US" :> {})], [allowed |-> <<>>]}}
    \cup {Doc("rolling_budget") @@ d : d \in
        {[window |-> "day", limit |-> "5.5"], [window |-> "day", limit |-> "5", agents |-> {"a2"}],
         [window |-> "day", limit |-> "5.125"], [window |-> "week", limit |-> "9"],
         [window |-> "day", limit |-> ""]}}
    \cup {Doc("sanctions_screen"), Doc("sanctions_screen") @@ [fail_mode |-> "fail_open"],
          Doc("vendor_risk") @@ [threshold |-> 0], Doc("vendor_risk") @@ [threshold |-> 101],
          Doc("velocity")}

Base == [agent |-> "a1", action |-> "pay", amount |-> "5", currency |-> "USD",
         targetType |-> "vendor", target |-> "v1", jurisdiction |-> "US",
         evaluatedAt |-> <<[weekday |-> 2, minute |-> 60]>>]

At(weekday, minute) == [Base EXCEPT !.evaluatedAt = <<[weekday |-> weekday, minute |-> minute]>>]

(* a base request, and what differs from it in one place or two *)
Requests ==
    {Base, At(2, 59), At(2, 119), At(2, 120), At(1, 0), At(1, 1439),
     [Base EXCEPT !.evaluatedAt = <<>>],
     [Base EXCEPT !.agent = "a2"], [Base EXCEPT !.action = "refund"],
     [Base EXCEPT !.amount = "1e1"], [Base EXCEPT !.amount = "-5"],
     [Base EXCEPT !.amount = "5.5"], [Base EXCEPT !.amount = "5.125"],
     [Base EXCEPT !.amount = "9", !.currency = "EUR"],
     [Base EXCEPT !.target = "v2"], [Base EXCEPT !.targetType = "account"],
     [Base EXCEPT !.target = "v2", !.agent = "a2"],
     [Base EXCEPT !.jurisdiction = "", !.currency = "EUR"],
     [Base EXCEPT !.jurisdiction = "DE", !.currency = "EUR"]}

-----------------------------------------------------------------------------
NoDecision == [request |-> "none"]

Init == results = <<>> /\ rules = <<>> /\ decision = NoDecision

AddResult ==
    /\ rules = <<>> /\ Len(results) < MaxResults
    /\ \E r \in PredicateResults : results' = Append(results, r)
    /\ UNCHANGED <<rules, decision>>

AddRule ==
    /\ results = <<>> /\ decision = NoDecision /\ Len(rules) < MaxRules
    /\ \E d \in Documents, id \in {"r1", "r2", "r3", ""} :
          /\ id = "r3" <=> Len(rules) = 2
          /\ id = "r3" => d.type = "rolling_budget"
          /\ id = "" => d \in {Doc("sanctions_screen"), Doc("vendor_blocklist") @@ [vendors |-> {}]}
          /\ rules' = Append(rules, WithId(d, id))
    /\ UNCHANGED <<results, decision>>

(* what the reserver may say of the agent's budget, if it is asked *)
MayAnswer(pol, req, reserved) ==
    LET b == ApplicableBudget(pol.budgets, req.agent)
    IN  \A i \in DOMAIN b : reserved \in ReserveAnswers(b[i], req)

(* a decision over the policy in force *)
Decide(pol, shadow, reserved) ==
    /\ decision = NoDecision /\ rules # <<>>
    /\ pol.ok
    /\ \E req \in Requests :
          /\ ValidRequest(req) /\ req.evaluatedAt # <<>>     \* the server stamps the time
          /\ shadow \/ MayAnswer(pol, req, reserved)
          /\ decision' = [request |-> req, shadow |-> shadow, reserved |-> reserved,
                          answer |-> Authorize(pol, req, shadow, reserved)]
    /\ UNCHANGED <<results, rules>>

DecidePublished ==
    /\ Validate(rules)
    /\ \/ \E reserved \in {"within", "exceeded", "unavailable"} :
             Decide(CompileRules(rules), FALSE, reserved)
       \/ Decide(CompileRules(rules), TRUE, "none")

DecideFromFile == Decide(Load(rules), FALSE, "none")

(* a dry run, which may bring a time of its own, of the draft or of a      *)
(* stored version: what was stored had passed Validate                     *)
DryRun ==
    /\ decision = NoDecision /\ rules # <<>>
    /\ \E req \in Requests, stored \in BOOLEAN :
          /\ stored => Validate(rules)
          /\ HandleSimulate(rules, stored, <<req>>) # <<>>
          /\ decision' = [request |-> req, shadow |-> TRUE, reserved |-> "none",
                          answer |-> HandleSimulate(rules, stored, <<req>>)[1]]
    /\ UNCHANGED <<results, rules>>

Next == AddResult \/ AddRule \/ DecidePublished \/ DecideFromFile \/ DryRun
Spec == Init /\ [][Next]_vars

-----------------------------------------------------------------------------
(* Combine ("order-independent"): the loop with its early return computes  *)
(* the precedence deny > review > approve of the set of results, whatever  *)
(* their order.                                                            *)
LoopIsPrecedence == CombineLoop(results) = Combine(results)

(* The governing invariant of verdict.go: an approval rests on at least    *)
(* one result, and on no result that did not complete, but for a           *)
(* customer's explicit opt-in to fail open.                                *)
NoFabricatedApprove ==
    CombineLoop(results) = "APPROVE" =>
        /\ results # <<>>
        /\ \A i \in 1..Len(results) :
              \/ results[i].outcome = "SATISFIED"
              \/ results[i].outcome = "UNAVAILABLE" /\ results[i].failMode = "FAIL_OPEN"

(* What Authorize relies on when it folds the budget in last: one more     *)
(* result never makes a verdict more permissive.  (The empty list is no    *)
(* such case: its default deny gives way to the first result.)             *)
Strictness == [v \in Verdicts |-> CASE v = "APPROVE" -> 0 [] v = "REVIEW" -> 1 [] v = "DENY" -> 2]

NeverMorePermissive ==
    [][results # <<>> =>
         Strictness[CombineLoop(results')] >= Strictness[CombineLoop(results)]]_results

(* The rules compile, each but the placeholders is served under its id,    *)
(* and every max that is written can be read by the predicate it is for.   *)
Servable(rs) ==
    LET pol    == CompileRules(rs)
        served == { pol.predicates[i].id : i \in DOMAIN pol.predicates }
                     \cup { pol.budgets[i].id : i \in DOMAIN pol.budgets }
    IN  /\ pol.ok
        /\ served = { rs[i].id : i \in { j \in DOMAIN rs :
                        rs[j].type \notin {"sanctions_screen", "vendor_risk"} } }
        /\ \A i \in DOMAIN rs :
              Field(rs[i], "max", "") # "" => ParseMoney(rs[i].max) # {}

(* Validate ("a policy that validates here can never be one the decision   *)
(* node rejects at load"): what may be published compiles, although        *)
(* validator, compiler and loader each have tables of their own; every     *)
(* rule is then served as a predicate or a budget, but for the enrichment  *)
(* placeholders; and the max of every per_transaction_limit can be read.   *)
(* Nothing of the kind holds of a budget's limit: the schema admits        *)
(* "5.125", toCents does not, and such a budget is served and is           *)
(* UNAVAILABLE to every request (HeldFits says that it approves none).     *)
PublishedIsServable == Validate(rules) => Servable(rules)

(* What a rule says of a request, read from its document: a list that is   *)
(* empty or absent does not constrain, but for an allowlist.               *)
Listed(d, f, v) == Field(d, f, {}) = {} \/ v \in d[f]

Permits(d, req) ==
    LET time    == BuildInput(req).time
        vendor  == req.targetType = "vendor"
        since(m) == (m - d.start_minute) % 1440     \* minutes since the window opened
    IN  CASE d.type = "per_transaction_limit" ->
               /\ Field(d, "currency", "") \in {"", req.currency}
               /\ \E m \in ParseMoney(d.max), a \in ParseMoney(req.amount) : a <= m
          [] d.type = "vendor_allowlist" -> vendor => req.target \in d.vendors
          [] d.type = "vendor_blocklist" -> vendor => req.target \notin Field(d, "vendors", {})
          [] d.type = "agent_permission" -> /\ Listed(d, "allowed_actions", req.action)
                                            /\ Listed(d, "allowed_targets", req.target)
          [] d.type = "time_window" ->
               /\ Listed(d, "weekdays", time.weekday)
               /\ since(d.end_minute) = 0 \/ since(time.minute) < since(d.end_minute)
          [] d.type = "jurisdiction_currency" ->
               \A j \in DOMAIN d.allowed \ {""} : j = req.jurisdiction => req.currency \in d.allowed[j]

(* What the rules, as documents, make of decision dec: its verdict, its    *)
(* obligation, the rule its summary names, and a dry run of the same.      *)
FollowsRules(rs, dec) ==
    LET req      == dec.request
        ans      == dec.answer
        inScope  == { i \in DOMAIN rs : Listed(rs[i], "agents", req.agent) }
        local    == { i \in inScope : rs[i].type \in LocalTypes }
        objects  == { i \in local : ~ Permits(rs[i], req) }
        budgets  == { i \in inScope : rs[i].type = "rolling_budget" }
        budgeted == ~ dec.shadow /\ budgets # {}
        dryRun   == HandleSimulate(rs, FALSE, <<req>>)
    IN  /\ ans.verdict = "APPROVE" <=>
              local # {} /\ objects = {} /\ (budgeted => dec.reserved = "within")
        /\ ans.obligations # {} <=> ans.verdict = "APPROVE" /\ budgeted
        /\ ans.summary = "" <=> ans.verdict = "APPROVE" \/ local = {}
        /\ ans.summary # "" => \E i \in objects \cup budgets : rs[i].id = ans.summary
        /\ dryRun # <<>> =>
              \/ dryRun[1].verdict = ans.verdict
              \/ dryRun[1].verdict = "APPROVE" /\ budgeted /\ dec.reserved # "within"

(* Budget is held only for an amount that is not negative and that does    *)
(* not exceed, as an exact decimal, the limit of a budget of the agent.    *)
HeldFits(rs, dec) ==
    dec.answer.obligations # {} =>
        \E i \in DOMAIN rs :
            /\ rs[i].type = "rolling_budget" /\ Listed(rs[i], "agents", dec.request.agent)
            /\ \E a \in ParseMoney(dec.request.amount), l \in ParseMoney(rs[i].limit) :
                  0 <= a /\ a <= l

(* Authorize and Simulate, against the document as it reads: an enforced   *)
(* decision approves exactly when some local rule is in scope of the       *)
(* agent, each of them permits the request and the agent's budget, if it   *)
(* has one, had room; an approval carries the obligation to capture        *)
(* exactly when it holds budget; a refusal names a rule of the policy that *)
(* objects, or is the default deny; and a dry run of the same draft        *)
(* decided the same, but for the budget.  No hold is placed for a negative *)
(* amount or one above the limit, though reserver and predicates read      *)
(* decimals each in their own way.                                         *)
DecisionFollowsRules ==
    decision # NoDecision => FollowsRules(rules, decision) /\ HeldFits(rules, decision)
=============================================================================
