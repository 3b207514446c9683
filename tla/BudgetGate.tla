----------------------------- MODULE BudgetGate ------------------------------
(***************************************************************************)
(* What a budget promises, whatever goes on between Redis, Postgres, HTTP  *)
(* calls and reconcilers: engine.BudgetReserver answers each decision      *)
(* once, in one step; WITHIN_LIMIT means that a hold exists and that the   *)
(* window's spend, this hold included, is within the limit; a hold is      *)
(* settled at most once.                                                   *)
(***************************************************************************)
EXTENDS Integers

CONSTANTS
    Decisions,  \* decision ids
    Cents(_),   \* the sum of the amounts of a set of decisions
    Limit,      \* the published cap of one window, in cents
    Windows     \* window keys, non-negative integers

VARIABLES
    answer,    \* what Reserve answered about a decision
    hold,      \* the state of the decision's hold
    window     \* the window the hold counts against

gateVars == <<answer, hold, window>>

NoWindow == -1

Spend(w) == { d \in Decisions : window[d] = w /\ hold[d] \in {"held", "captured"} }

Init ==
    /\ answer = [d \in Decisions |-> "pending"]
    /\ hold = [d \in Decisions |-> "none"]
    /\ window = [d \in Decisions |-> NoWindow]

(* Reserve answers WITHIN_LIMIT *)
Grant(d, w) ==
    /\ answer[d] = "pending"
    /\ Cents(Spend(w) \cup {d}) <= Limit
    /\ answer' = [answer EXCEPT ![d] = "WITHIN_LIMIT"]
    /\ hold' = [hold EXCEPT ![d] = "held"]
    /\ window' = [window EXCEPT ![d] = w]

(* Reserve answers EXCEEDED or UNAVAILABLE, or dies: nothing is held *)
Refuse(d) ==
    /\ answer[d] = "pending"
    /\ \E o \in {"EXCEEDED", "UNAVAILABLE"} : answer' = [answer EXCEPT ![d] = o]
    /\ UNCHANGED <<hold, window>>

(* Capture or Void; an expired hold may still be acknowledged as voided *)
Settle(d) ==
    /\ \/ hold[d] = "held" /\ hold' = [hold EXCEPT ![d] = "captured"]
       \/ hold[d] \in {"held", "expired"} /\ hold' = [hold EXCEPT ![d] = "voided"]
    /\ UNCHANGED <<answer, window>>

(* the TTL of some holds runs out *)
Expire(S) ==
    /\ \A d \in S : hold[d] = "held"
    /\ hold' = [d \in Decisions |-> IF d \in S THEN "expired" ELSE hold[d]]
    /\ UNCHANGED <<answer, window>>

Next ==
    \/ \E d \in Decisions, w \in Windows : Grant(d, w)
    \/ \E d \in Decisions : Refuse(d) \/ Settle(d)
    \/ \E S \in SUBSET Decisions : Expire(S)

Spec == Init /\ [][Next]_gateVars
=============================================================================
