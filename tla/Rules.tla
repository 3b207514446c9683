------------------------------- MODULE Rules -------------------------------
(***************************************************************************)
(* From a policy document to a decision: validation at publish             *)
(* (policyctl/validate.go), compilation for serving (bundle.go), the       *)
(* loader (policy.go), the six local predicates (predicates.go) and the    *)
(* decision the engine assembles (engine.go).                              *)
(*                                                                         *)
(* A rule document is a record whose DOMAIN is the fields that are present *)
(* in the JSON; lists are sets, an amount is the string it is written as.  *)
(***************************************************************************)
EXTENDS Verdict, Integers, TLC

(* The loop that appends to a list, in order, the elements of s at the     *)
(* positions in keep.                                                      *)
Kept(s, keep) ==
    LET out[n \in 0..Len(s)] ==
            IF n = 0 THEN <<>>
            ELSE IF n \in keep THEN Append(out[n - 1], s[n])
            ELSE out[n - 1]
    IN  out[Len(s)]

-----------------------------------------------------------------------------
(* Documents.                                                              *)

LocalTypes == {"per_transaction_limit", "vendor_allowlist", "vendor_blocklist",
               "agent_permission", "time_window", "jurisdiction_currency"}
EnrichedTypes == {"rolling_budget", "sanctions_screen", "vendor_risk"}

(* mutant: the placeholder added last is missing from the compiler's list *)
DroppedTypesOld == {"sanctions_screen"}

(* Compile knows its own list of the types it leaves out *)
DroppedTypes == {"sanctions_screen", "vendor_risk"}

ListFields   == {"agents", "vendors", "allowed_actions", "allowed_targets", "weekdays"}
StringFields == {"max", "currency", "window", "limit", "provider", "fail_mode"}

(* predicateDoc: every field the loader knows; any other is an error *)
PredicateDocFields ==
    {"id", "type", "max", "currency", "start_minute", "end_minute", "allowed"} \cup ListFields

(* rulesToWire: the JSON of a Rule, whose omitempty drops what is empty;   *)
(* id and type are always written, and a pointer to a zero is not empty    *)
Wire(r) ==
    LET omitted(f) == \/ f \in ListFields /\ r[f] = {}
                      \/ f \in StringFields /\ r[f] = ""
                      \/ f = "allowed" /\ DOMAIN r[f] = {}
    IN  [f \in { g \in DOMAIN r : ~ omitted(g) } |-> r[f]]

WireAll(rules) == [i \in DOMAIN rules |-> Wire(rules[i])]

(* The pattern of the schema: any number of decimals, no sign, no exponent *)
Canonical == {"0", "5", "5.125", "5.5", "9"}

(* parseMoney, the reading of a predicate: the exact value of a string, if *)
(* it has one, here in thousandths.  big.Rat reads more than the canonical *)
(* form: signs, exponents.                                                 *)
MoneyValue == [s \in Canonical \cup {"-5", "1e1"} |->
    CASE s = "-5"    -> -5000 [] s = "0"   -> 0    [] s = "5"   -> 5000
      [] s = "5.125" -> 5125  [] s = "5.5" -> 5500 [] s = "9"   -> 9000
      [] s = "1e1"   -> 10000]
ParseMoney(s) == IF s \in DOMAIN MoneyValue THEN {MoneyValue[s]} ELSE {}

(* toCents, the reading of the reserver: whole cents, so nothing with a    *)
(* sign or more than two decimals; one decimal is padded to two            *)
CentsValue == [s \in {"0", "5", "5.5", "9"} |->
    CASE s = "0" -> 0 [] s = "5" -> 500 [] s = "5.5" -> 550 [] s = "9" -> 900]
ToCents(s) == IF s \in DOMAIN CentsValue THEN {CentsValue[s]} ELSE {}

Currencies    == {"USD", "EUR"}
Jurisdictions == {"US", "DE"}

-----------------------------------------------------------------------------
(* The schema, and Validate.                                               *)

Required == [t \in LocalTypes \cup EnrichedTypes |->
    {"id", "type"} \cup
    CASE t = "per_transaction_limit"                     -> {"max"}
      [] t \in {"vendor_allowlist", "vendor_blocklist"}  -> {"vendors"}
      [] t = "time_window"                               -> {"start_minute", "end_minute"}
      [] t = "jurisdiction_currency"                     -> {"allowed"}
      [] t = "rolling_budget"                            -> {"window", "limit"}
      [] OTHER                                           -> {}]

Optional == [t \in LocalTypes \cup EnrichedTypes |->
    {"agents"} \cup
    CASE t \in {"per_transaction_limit", "rolling_budget"} -> {"currency"}
      [] t = "agent_permission"  -> {"allowed_actions", "allowed_targets"}
      [] t = "time_window"       -> {"weekdays"}
      [] t = "sanctions_screen"  -> {"provider", "fail_mode"}
      [] t = "vendor_risk"       -> {"provider", "threshold", "fail_mode"}
      [] OTHER                   -> {}]

WellFormed(f, v) ==
    CASE f = "id"                            -> v # ""
      [] f \in {"max", "limit"}              -> v \in Canonical
      [] f = "currency"                      -> v \in Currencies
      [] f \in {"start_minute", "end_minute"} -> v \in 0..1439
      [] f = "weekdays"                      -> v \subseteq 0..6
      [] f = "allowed"                       -> \A j \in DOMAIN v :
                                                   /\ j \in Jurisdictions
                                                   /\ v[j] # {} /\ v[j] \subseteq Currencies
      [] f = "window"                        -> v \in {"day", "month", "rolling"}
      [] f = "fail_mode"                     -> v \in {"fail_closed", "fail_open"}
      [] f = "threshold"                     -> v \in 0..100
      [] f \in ListFields \ {"weekdays"}     -> "" \notin v
      [] OTHER                               -> TRUE

InSchema(w) ==
    /\ w.type \in LocalTypes \cup EnrichedTypes
    /\ Required[w.type] \subseteq DOMAIN w
    /\ DOMAIN w \subseteq Required[w.type] \cup Optional[w.type]
    /\ w.type = "agent_permission" =>
          DOMAIN w \cap {"allowed_actions", "allowed_targets"} # {}
    /\ w.type = "vendor_allowlist" => w.vendors # {}
    /\ w.type = "jurisdiction_currency" => DOMAIN w.allowed # {}
    /\ \A f \in DOMAIN w : WellFormed(f, w[f])

-----------------------------------------------------------------------------
(* The loader: Parse and build.                                            *)

(* a field as the Go struct holds it: the zero value when it is absent *)
Field(d, f, zero) == IF f \in DOMAIN d THEN d[f] ELSE zero

Buildable(d) ==
    CASE d.type = "per_transaction_limit" -> Field(d, "max", "") # ""
      [] d.type = "vendor_allowlist"      -> Field(d, "vendors", {}) # {}
      [] d.type = "vendor_blocklist"      -> TRUE
      [] d.type = "agent_permission"      ->
            Field(d, "allowed_actions", {}) \cup Field(d, "allowed_targets", {}) # {}
      [] d.type = "time_window"           ->
            /\ {"start_minute", "end_minute"} \subseteq DOMAIN d
            /\ d.start_minute \in 0..1439 /\ d.end_minute \in 0..1439
            /\ Field(d, "weekdays", {}) \subseteq 0..6
      [] d.type = "jurisdiction_currency" ->
            "allowed" \in DOMAIN d /\ DOMAIN d.allowed # {}
      [] OTHER                            -> FALSE

(* what the predicate of a document keeps of it *)
Build(d) == [id |-> d.id, type |-> d.type, agents |-> Field(d, "agents", {}), doc |-> d]

(* ok unless a field is unknown, an id missing or used twice, or a         *)
(* document cannot be built                                                *)
Parse(docs) ==
    [ok |-> /\ \A i \in DOMAIN docs : /\ DOMAIN docs[i] \subseteq PredicateDocFields
                                      /\ docs[i].id # ""
                                      /\ Buildable(docs[i])
            /\ \A i, j \in DOMAIN docs : docs[i].id = docs[j].id => i = j,
     predicates |-> [i \in DOMAIN docs |-> Build(docs[i])]]

(* Load and Default: a policy file, the boot policy; it has no budgets *)
Load(docs) == [ok |-> Parse(docs).ok, predicates |-> Parse(docs).predicates, budgets |-> <<>>]

(* checkEngineParity: the local rules, if any, must load *)
CheckEngineParity(rules) ==
    LET local == { i \in DOMAIN rules : rules[i].type \in LocalTypes }
    IN  Parse(WireAll(Kept(rules, local))).ok

UniqueIds(rules) ==
    \A i, j \in DOMAIN rules : rules[i].id = rules[j].id /\ rules[i].id # "" => i = j

(* Validate of the rules of a policy *)
Validate(rules) ==
    /\ rules # <<>>
    /\ \A i \in DOMAIN rules : InSchema(Wire(rules[i]))
    /\ UniqueIds(rules)
    /\ CheckEngineParity(rules)

(* what the reserver is told of a budget *)
BudgetDecl(r) ==
    [id |-> r.id, agents |-> Field(r, "agents", {}), limit |-> Field(r, "limit", "")]

(* CompileRules: budgets are routed to the reserver, placeholders dropped, *)
(* everything else is given to the loader                                  *)
CompileRules(rules) ==
    LET budget  == { i \in DOMAIN rules : rules[i].type = "rolling_budget" }
        dropped == { i \in DOMAIN rules : rules[i].type \in DroppedTypes }
        budgets == Kept(rules, budget)
        loaded  == Parse(WireAll(Kept(rules, DOMAIN rules \ (budget \cup dropped))))
    IN  [ok         |-> loaded.ok,
         predicates |-> loaded.predicates,
         budgets    |-> [i \in DOMAIN budgets |-> BudgetDecl(budgets[i])]]

-----------------------------------------------------------------------------
(* The local predicates.                                                   *)

(* validateAuthorizeRequest, but for the lengths of names and of the key *)
ValidRequest(req) ==
    /\ "" \notin {req.agent, req.action, req.target}
    /\ req.amount \in Canonical \cup {"-5"}
    /\ req.currency \in Currencies
    /\ req.targetType \in {"vendor", "account", "address", "internal", "unknown"}
    /\ req.jurisdiction \in Jurisdictions \cup {""}

(* time.Time{}: midnight of a Monday, what an unreadable time becomes *)
ZeroTime == [weekday |-> 1, minute |-> 0]

(* buildInput: the amount and the time as parsed *)
BuildInput(req) ==
    [agent |-> req.agent, action |-> req.action, currency |-> req.currency,
     targetType |-> req.targetType, target |-> req.target,
     jurisdiction |-> req.jurisdiction,
     amount |-> ParseMoney(req.amount),
     time   |-> IF req.evaluatedAt = <<>> THEN ZeroTime ELSE req.evaluatedAt[1]]

(* base.AppliesTo and BudgetDecl.appliesTo: no scope is every agent *)
AppliesTo(p, agent) == p.agents = {} \/ agent \in p.agents

SatisfiedIf(permitted) == IF permitted THEN "SATISFIED" ELSE "DENIED"

PerTransactionLimit(d, in) ==
    LET max      == ParseMoney(d.max)
        currency == Field(d, "currency", "")
    IN  IF max = {} \/ currency \notin {"", in.currency} \/ in.amount = {}
        THEN "REVIEW"
        ELSE SatisfiedIf(\A a \in in.amount, m \in max : a <= m)

VendorAllowlist(d, in) ==
    SatisfiedIf(in.targetType = "vendor" => in.target \in Field(d, "vendors", {}))

VendorBlocklist(d, in) ==
    SatisfiedIf(~ (in.targetType = "vendor" /\ in.target \in Field(d, "vendors", {})))

AgentPermission(d, in) ==
    LET free(f, v) == Field(d, f, {}) = {} \/ v \in Field(d, f, {})
    IN  SatisfiedIf(free("allowed_actions", in.action) /\ free("allowed_targets", in.target))

(* mutant: a window that wraps midnight is taken for an empty one *)
WithinWindowUnwrapped(minute, start, end) ==
    start = end \/ (minute >= start /\ minute < end)

WithinWindow(minute, start, end) ==
    \/ start = end
    \/ start < end /\ minute >= start /\ minute < end
    \/ start > end /\ (minute >= start \/ minute < end)

TimeWindow(d, in) ==
    LET days == Field(d, "weekdays", {})
    IN  SatisfiedIf(/\ days = {} \/ in.time.weekday \in days
                  /\ WithinWindow(in.time.minute, d.start_minute, d.end_minute))

JurisdictionCurrency(d, in) ==
    SatisfiedIf(in.jurisdiction # "" /\ in.jurisdiction \in DOMAIN d.allowed
                 => in.currency \in d.allowed[in.jurisdiction])

Evaluate(p, in) ==
    CASE p.type = "per_transaction_limit" -> PerTransactionLimit(p.doc, in)
      [] p.type = "vendor_allowlist"      -> VendorAllowlist(p.doc, in)
      [] p.type = "vendor_blocklist"      -> VendorBlocklist(p.doc, in)
      [] p.type = "agent_permission"      -> AgentPermission(p.doc, in)
      [] p.type = "time_window"           -> TimeWindow(p.doc, in)
      [] p.type = "jurisdiction_currency" -> JurisdictionCurrency(p.doc, in)

-----------------------------------------------------------------------------
(* The decision.                                                           *)

(* evalLocal: one row per predicate in scope, in order; a row is the       *)
(* matched rule and the result it contributes                              *)
EvalLocal(predicates, in) ==
    LET inScope == { i \in DOMAIN predicates : AppliesTo(predicates[i], in.agent) }
        scoped  == Kept(predicates, inScope)
    IN  [i \in DOMAIN scoped |->
            [rule |-> scoped[i].id, outcome |-> Evaluate(scoped[i], in), failMode |-> ""]]

(* applicableBudget: the first in the document that governs the agent *)
ApplicableBudget(budgets, agent) ==
    LET found == Kept(budgets, { i \in DOMAIN budgets : AppliesTo(budgets[i], agent) })
    IN  IF found = <<>> THEN <<>> ELSE <<found[1]>>

(* Reserver.Reserve: what it may answer.  An amount or a limit that is not *)
(* in whole cents is UNAVAILABLE at once; otherwise the counter decides,   *)
(* which is what Budget models: it is never below zero, so what exceeds    *)
(* the limit by itself is not within it.                                   *)
ReserveAnswers(b, req) ==
    LET fits == \E a \in ToCents(req.amount), l \in ToCents(b.limit) : a <= l
        read == ToCents(req.amount) # {} /\ ToCents(b.limit) # {}
    IN  {"unavailable"} \cup (IF read THEN {"exceeded"} ELSE {})
                        \cup (IF fits THEN {"within"} ELSE {})

(* budgetPredicateResult and budgetMatchedRule *)
BudgetRow(b, reserved) ==
    [rule     |-> b.id,
     outcome  |-> CASE reserved = "within"   -> "SATISFIED"
                    [] reserved = "exceeded" -> "DENIED"
                    [] OTHER                 -> "UNAVAILABLE",
     failMode |-> IF reserved \in {"within", "exceeded"} THEN "" ELSE "FAIL_CLOSED_REVIEW"]

(* firstWithResult: the rows a result is looked for in, first one first *)
WithResult(rows, want) == Kept(rows, { i \in DOMAIN rows : rows[i].outcome = want })

(* summarize: the rule the summary names, "" when it names none *)
Summarize(verdict, rows) ==
    LET named == WithResult(rows, IF verdict = "DENY" THEN "DENIED" ELSE "REVIEW")
                    \o WithResult(rows, "UNAVAILABLE")
    IN  IF verdict = "APPROVE" \/ named = <<>> THEN "" ELSE named[1].rule

AssembleDecision(rows) ==
    LET verdict == CombineLoop(rows)
    IN  [verdict |-> verdict, summary |-> Summarize(verdict, rows),
         matched |-> rows, obligations |-> {}]

(* captureWithinObligation: the hold the caller must capture or void *)
CaptureWithin(b, req) == [budget |-> b.id, amount |-> req.amount]

(* Engine.Authorize over a policy; reserved is what the reserver would say *)
Authorize(pol, req, shadow, reserved) ==
    LET local  == EvalLocal(pol.predicates, BuildInput(req))
        budget == IF ~ shadow /\ CombineLoop(local) = "APPROVE"
                  THEN ApplicableBudget(pol.budgets, req.agent)
                  ELSE <<>>
        rows   == local \o [i \in DOMAIN budget |-> BudgetRow(budget[i], reserved)]
    IN  [AssembleDecision(rows) EXCEPT !.obligations =
            { CaptureWithin(budget[i], req) : i \in { j \in DOMAIN budget : reserved = "within" } }]

(* Evaluate: the pure core, without budget, signature and audit *)
EvaluatePolicy(pol, req) == AssembleDecision(EvalLocal(pol.predicates, BuildInput(req)))

(* Simulate, one advisory decision per request: of a draft, which must be  *)
(* publishable, or of a stored version, named by its hash and compiled as  *)
(* it is                                                                   *)
Simulate(rules, stored, reqs) ==
    LET pol == CompileRules(rules)
    IN  IF (stored \/ Validate(rules)) /\ pol.ok
        THEN [i \in DOMAIN reqs |-> EvaluatePolicy(pol, reqs[i])]
        ELSE <<>>

(* handleSimulate: the batch is neither empty nor too large, and each      *)
(* request in it is well-formed                                            *)
MaxSimulateRequests == 500

HandleSimulate(rules, stored, reqs) ==
    IF /\ Len(reqs) \in 1..MaxSimulateRequests
       /\ \A i \in DOMAIN reqs : ValidRequest(reqs[i])
    THEN Simulate(rules, stored, reqs)
    ELSE <<>>
=============================================================================
