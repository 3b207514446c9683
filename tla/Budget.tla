------------------------------- MODULE Budget -------------------------------
(***************************************************************************)
(* The two-phase budget of authorize-svc: budget.Reserver (reserve, then   *)
(* capture or void), the Redis window counter, the Postgres reservation    *)
(* ledger (hold.PostgresStore) and the budget.Reconciler.                  *)
(*                                                                         *)
(* The counter is the gate, the ledger is the source of truth, and no step *)
(* updates both: every operation below is a chain of separate Redis and    *)
(* Postgres calls, and each link is an action, so that other requests,     *)
(* HTTP calls, reconcilers, TTLs, errors and crashes fall between them.    *)
(*                                                                         *)
(* One module instance is one (org, budget); the Redis keys that differ    *)
(* only in the window key are the elements of Windows.                     *)
(***************************************************************************)
EXTENDS Money

CONSTANTS
    Limit,        \* the published cap of one window, in cents
    MaxWindow,    \* bound on the number of window rollovers
    Calls,        \* concurrent capture/void HTTP calls
    Reconcilers,  \* reconcilers, one per service instance
    Batch,        \* holds one ExpireDue statement may flip
    Faults        \* what may go wrong, a subset of AllFaults

(***************************************************************************)
(* Benign faults can only leave the counter too high.  The others are      *)
(* events that the code does not defend the cap against; the runs that     *)
(* switch them on say what is lost.                                        *)
(***************************************************************************)
Benign ==
    { "crash",          \* a process dies between two of its steps
      "counterError",   \* a Redis call fails, or its answer is lost
      "ledgerError" }   \* a Postgres call fails without effect

AllFaults == Benign \cup
    { "ambiguousCommit",  \* Place commits, but its caller sees an error
      "counterLoss",      \* Redis restarts empty
      "rebuild",          \* somebody calls Reconciler.RebuildWindow
      "snapshotRace" }    \* ExpireDue overlaps another write to its rows

ASSUME ConstantsAssumption ==
    /\ IsFiniteSet(Decisions)
    /\ MaxAmount \in Nat /\ Limit \in Nat /\ MaxWindow \in Nat
    /\ Amount \in [Decisions -> 0..MaxAmount]
    /\ Batch \in Nat \ {0}
    /\ Faults \subseteq AllFaults

Windows == 0..MaxWindow

VARIABLES
    win,       \* the window the server's clock is in
    counter,   \* the Redis counter of each window (a missing key reads 0)
    pc,        \* where each decision's Reserver.Reserve is, or its outcome
    wk,        \* the window key each decision reserved under
    ledger,    \* the state column of each budget_reservations row
    due,       \* holds whose expires_at has passed
    call,      \* the capture/void calls in progress
    batch,     \* per reconciler: expired holds whose counter is to be released
    scan,      \* per reconciler: rows its running ExpireDue has selected
    rebuild,   \* per reconciler: a RebuildWindow between its read and its write
    released,  \* history: how often a decision's amount left the counter
    told       \* history: the hold states callers were given as an answer

vars   == <<win, counter, pc, wk, ledger, due, call, batch, scan, rebuild,
            released, told>>

Outcomes   == {"WITHIN_LIMIT", "EXCEEDED", "UNAVAILABLE"}
HoldStates == {"held", "captured", "voided", "expired"}
CallSteps  == {"get", "update", "record", "report", "confirm", "release"}

NoCall    == [step |-> "idle", op |-> "none", d |-> "none"]
ActiveCall == [step : CallSteps, op : {"capture", "void"}, d : Decisions]
NoRebuild == [busy |-> FALSE, w |-> 0, sum |-> 0]

(* ListActiveByWindow: the held and captured rows of a window *)
ActiveIn(w) == { d \in Decisions : wk[d] = w /\ ledger[d] \in {"held", "captured"} }

(* Get + effective: a held row past its TTL reads as expired; nothing is written *)
Effective(d) == IF ledger[d] = "held" /\ d \in due THEN "expired" ELSE ledger[d]

Init ==
    /\ win = 0
    /\ counter = [w \in Windows |-> 0]
    /\ pc = [d \in Decisions |-> "new"]
    /\ wk = [d \in Decisions |-> 0]
    /\ ledger = [d \in Decisions |-> "none"]
    /\ due = {}
    /\ call = [c \in Calls |-> NoCall]
    /\ batch = [r \in Reconcilers |-> {}]
    /\ scan = [r \in Reconcilers |-> {}]
    /\ rebuild = [r \in Reconcilers |-> NoRebuild]
    /\ released = [d \in Decisions |-> 0]
    /\ told = [d \in Decisions |-> {}]

-----------------------------------------------------------------------------
(* The counter: one Lua script per operation, so each is one step.         *)

(* mutant: the script's floor forgotten *)
DecrementUnfloored(n, amt) == n - amt

(* releaseScript: floored at zero; a missing key stays missing *)
Decrement(n, amt) == IF n - amt < 0 THEN 0 ELSE n - amt

(* mutant: the key is computed from the clock, not from the hold's window *)
ReleaseCurrentWindow(d) ==
    /\ counter' = [counter EXCEPT ![win] = Decrement(@, Amount[d])]
    /\ released' = [released EXCEPT ![d] = @ + 1]

Release(d) ==
    /\ counter' = [counter EXCEPT ![wk[d]] = Decrement(@, Amount[d])]
    /\ released' = [released EXCEPT ![d] = @ + 1]

(* mutant: the cap is checked before the amount is added *)
FitsBeforeAdding(d) == counter[wk[d]] < Limit

(* reserveScript's check: would the amount still fit under the cap? *)
Fits(d) == counter[wk[d]] + Amount[d] <= Limit

(* the release that the caller ignores the error of *)
ReleaseFails == "counterError" \in Faults /\ UNCHANGED <<counter, released>>

-----------------------------------------------------------------------------
(* Reserver.Reserve, called by the engine for a decision it would approve. *)

reserveUnchanged == UNCHANGED <<win, due, call, batch, scan, rebuild, told>>

(* the clock is read, and with it the window key fixed; an amount or limit *)
(* that toCents cannot represent ends the request before the counter       *)
ReserveBegin(d) ==
    /\ pc[d] = "new"
    /\ \/ pc' = [pc EXCEPT ![d] = "counter"]
       \/ pc' = [pc EXCEPT ![d] = "UNAVAILABLE"]
    /\ wk' = [wk EXCEPT ![d] = win]
    /\ UNCHANGED <<counter, ledger, released>> /\ reserveUnchanged

(* counter.Reserve answers: the amount is counted, or it would exceed the cap *)
CounterReserve(d) ==
    /\ pc[d] = "counter"
    /\ \/ /\ Fits(d)
          /\ counter' = [counter EXCEPT ![wk[d]] = @ + Amount[d]]
          /\ pc' = [pc EXCEPT ![d] = "place"]
       \/ /\ ~Fits(d)
          /\ pc' = [pc EXCEPT ![d] = "EXCEEDED"]
          /\ UNCHANGED counter
    /\ UNCHANGED <<wk, ledger, released>> /\ reserveUnchanged

(* mutant: an error of counter.Reserve is compensated as if it had counted *)
CounterReserveCompensated(d) ==
    /\ "counterError" \in Faults
    /\ pc[d] = "counter"
    /\ pc' = [pc EXCEPT ![d] = "undo"]
    /\ UNCHANGED <<counter, wk, ledger, released>> /\ reserveUnchanged

(* counter.Reserve errors: the script did not run, or ran and the answer is lost *)
CounterReserveFails(d) ==
    /\ "counterError" \in Faults
    /\ pc[d] = "counter"
    /\ pc' = [pc EXCEPT ![d] = "UNAVAILABLE"]
    /\ \/ UNCHANGED counter
       \/ Fits(d) /\ counter' = [counter EXCEPT ![wk[d]] = @ + Amount[d]]
    /\ UNCHANGED <<wk, ledger, released>> /\ reserveUnchanged

(* holds.Place: the row is inserted as held *)
Place(d) ==
    /\ pc[d] = "place"
    /\ ledger' = [ledger EXCEPT ![d] = "held"]
    /\ pc' = [pc EXCEPT ![d] = "WITHIN_LIMIT"]
    /\ UNCHANGED <<counter, wk, released>> /\ reserveUnchanged

(* mutant: an error of Place is answered as if the hold existed *)
PlaceFailsIgnored(d) ==
    /\ "ledgerError" \in Faults
    /\ pc[d] = "place"
    /\ pc' = [pc EXCEPT ![d] = "WITHIN_LIMIT"]
    /\ UNCHANGED <<counter, wk, ledger, released>> /\ reserveUnchanged

(* holds.Place errors: the reservation will be undone *)
PlaceFails(d) ==
    /\ pc[d] = "place"
    /\ \/ "ledgerError" \in Faults /\ UNCHANGED ledger
       \/ /\ "ambiguousCommit" \in Faults
          /\ ledger' = [ledger EXCEPT ![d] = "held"]
    /\ pc' = [pc EXCEPT ![d] = "undo"]
    /\ UNCHANGED <<counter, wk, released>> /\ reserveUnchanged

(* the compensating counter.Release, whose error is ignored *)
UndoReserve(d) ==
    /\ pc[d] = "undo"
    /\ Release(d) \/ ReleaseFails
    /\ pc' = [pc EXCEPT ![d] = "UNAVAILABLE"]
    /\ UNCHANGED <<wk, ledger>> /\ reserveUnchanged

(* the process serving the request dies *)
ReserveCrash(d) ==
    /\ "crash" \in Faults
    /\ pc[d] \in {"counter", "place", "undo"}
    /\ pc' = [pc EXCEPT ![d] = "UNAVAILABLE"]
    /\ UNCHANGED <<counter, wk, ledger, released>> /\ reserveUnchanged

-----------------------------------------------------------------------------
(* POST /v1/authorize/{id}/capture and /void: transitionHold, Reserver and *)
(* PostgresStore.                                                          *)

callUnchanged == UNCHANGED <<win, pc, wk, due, batch, scan, rebuild>>

Goto(c, step) == call' = [call EXCEPT ![c] =
                             [step |-> step, op |-> call[c].op, d |-> call[c].d]]
Hangup(c)     == call' = [call EXCEPT ![c] = NoCall]
Tell(d, s)    == told' = [told EXCEPT ![d] = @ \cup {s}]

(* a client, or its retry, calls capture or void *)
StartCall(c, op, d) ==
    /\ call[c] = NoCall
    /\ call' = [call EXCEPT ![c] = [step |-> "get", op |-> op, d |-> d]]
    /\ UNCHANGED <<counter, ledger, released, told>> /\ callUnchanged

(* PostgresStore.Capture reads the row and switches on its state *)
CaptureGet(c) ==
    LET d == call[c].d IN
    /\ call[c].step = "get" /\ call[c].op = "capture"
    /\ \/ Effective(d) = "held" /\ Goto(c, "update") /\ UNCHANGED told
       \/ Effective(d) \in {"captured", "expired"} /\ Hangup(c) /\ Tell(d, Effective(d))
       \/ Effective(d) \in {"none", "voided"} /\ Hangup(c) /\ UNCHANGED told
    /\ UNCHANGED <<counter, ledger, released>> /\ callUnchanged

(* PostgresStore.Void reads the row and switches on its state *)
VoidGet(c) ==
    LET d == call[c].d IN
    /\ call[c].step = "get" /\ call[c].op = "void"
    /\ \/ Effective(d) = "held" /\ Goto(c, "update") /\ UNCHANGED told
       \/ Effective(d) = "expired" /\ Goto(c, "record") /\ UNCHANGED told
       \/ Effective(d) = "voided" /\ Hangup(c) /\ Tell(d, "voided")
       \/ Effective(d) \in {"none", "captured"} /\ Hangup(c) /\ UNCHANGED told
    /\ UNCHANGED <<counter, ledger, released>> /\ callUnchanged

(* mutant: the UPDATE without its state='held' condition *)
CallUpdateUnguarded(c) ==
    /\ call[c].step = "update"
    /\ ledger' = [ledger EXCEPT ![call[c].d] =
                     IF call[c].op = "capture" THEN "captured" ELSE "voided"]
    /\ Goto(c, "confirm")
    /\ UNCHANGED <<counter, released, told>> /\ callUnchanged

(* UPDATE ... WHERE state='held'; no row: somebody was faster, start again *)
CallUpdate(c) ==
    LET d == call[c].d IN
    /\ call[c].step = "update"
    /\ \/ /\ ledger[d] = "held"
          /\ ledger' = [ledger EXCEPT ![d] =
                           IF call[c].op = "capture" THEN "captured" ELSE "voided"]
          /\ Goto(c, "confirm")
       \/ ledger[d] # "held" /\ Goto(c, "get") /\ UNCHANGED ledger
    /\ UNCHANGED <<counter, released, told>> /\ callUnchanged

(* mutant: voiding an expired hold releases the counter as well *)
VoidRecordReleases(c) ==
    LET d == call[c].d IN
    /\ call[c].step = "record"
    /\ IF ledger[d] = "expired"
         THEN ledger' = [ledger EXCEPT ![d] = "voided"] /\ Goto(c, "release")
         ELSE UNCHANGED ledger /\ Goto(c, "report")
    /\ UNCHANGED <<counter, released, told>> /\ callUnchanged

(* mutant: the UPDATE without its state='expired' condition *)
VoidRecordUnguarded(c) ==
    /\ call[c].step = "record"
    /\ ledger' = [ledger EXCEPT ![call[c].d] = "voided"]
    /\ Goto(c, "report")
    /\ UNCHANGED <<counter, released, told>> /\ callUnchanged

(* Void of an expired hold: UPDATE ... WHERE state='expired', never a release *)
VoidRecord(c) ==
    LET d == call[c].d IN
    /\ call[c].step = "record"
    /\ IF ledger[d] = "expired"
         THEN ledger' = [ledger EXCEPT ![d] = "voided"]
         ELSE UNCHANGED ledger
    /\ Goto(c, "report")
    /\ UNCHANGED <<counter, released, told>> /\ callUnchanged

(* the closing Get of that path is the answer *)
VoidReport(c) ==
    /\ call[c].step = "report"
    /\ Hangup(c) /\ Tell(call[c].d, Effective(call[c].d))
    /\ UNCHANGED <<counter, ledger, released>> /\ callUnchanged

(* the Get after a successful UPDATE: the answer of a capture; a void has *)
(* still to release the counter                                           *)
CallConfirm(c) ==
    /\ call[c].step = "confirm"
    /\ \/ /\ call[c].op = "capture"
          /\ Hangup(c) /\ Tell(call[c].d, Effective(call[c].d))
       \/ /\ call[c].op = "void"
          /\ Goto(c, "release") /\ UNCHANGED told
    /\ UNCHANGED <<counter, ledger, released>> /\ callUnchanged

(* Reserver.Void releases the counter, ignoring an error, and answers *)
VoidRelease(c) ==
    /\ call[c].step = "release" /\ call[c].op = "void"
    /\ Release(call[c].d) \/ ReleaseFails
    /\ Hangup(c) /\ Tell(call[c].d, "voided")
    /\ UNCHANGED ledger /\ callUnchanged

(* a Postgres error ends the call with 503 (after "record" with a recovered *)
(* panic on the nil hold), a crash without an answer                        *)
CallFails(c) ==
    /\ \/ "ledgerError" \in Faults /\ call[c].step \in CallSteps \ {"release"}
       \/ "crash" \in Faults /\ call[c].step \in CallSteps
    /\ Hangup(c)
    /\ UNCHANGED <<counter, ledger, released, told>> /\ callUnchanged

-----------------------------------------------------------------------------
(* Reconciler.ReleaseExpired, and the drift correction nobody calls.       *)

reconcilerUnchanged == UNCHANGED <<win, pc, wk, due, call, told>>

Idle(r) == batch[r] = {} /\ scan[r] = {}

(* mutant: the SELECT skips rows that a capture or void is working on *)
DueUnclaimed == { d \in due : ledger[d] = "held" /\ \A c \in Calls : call[c].d # d }

DueHolds == { d \in Decisions : ledger[d] = "held" /\ d \in due }

(* the rows one ExpireDue selects: the oldest due holds, at most Batch *)
DueBatch(B) ==
    /\ B \subseteq DueHolds /\ B # {}
    /\ Cardinality(B) <= Batch
    /\ Cardinality(B) < Batch => B = DueHolds

Expired(B) == [d \in Decisions |-> IF d \in B THEN "expired" ELSE ledger[d]]

(* ExpireDue while no other statement touches its rows: those it selects   *)
(* are flipped to expired and returned.  "snapshotRace" replaces this step *)
(* by the two below.                                                       *)
ExpireDue(r) ==
    /\ "snapshotRace" \notin Faults
    /\ Idle(r)
    /\ \E B \in SUBSET Decisions :
          /\ DueBatch(B)
          /\ ledger' = Expired(B)
          /\ batch' = [batch EXCEPT ![r] = B]
    /\ UNCHANGED <<counter, scan, rebuild, released>> /\ reconcilerUnchanged

(* The same statement under READ COMMITTED when other writers touch its    *)
(* rows: the inner SELECT reads a snapshot ...                             *)
ExpireDueSelect(r) ==
    /\ "snapshotRace" \in Faults
    /\ Idle(r)
    /\ \E B \in SUBSET Decisions : DueBatch(B) /\ scan' = [scan EXCEPT ![r] = B]
    /\ UNCHANGED <<counter, ledger, batch, rebuild, released>> /\ reconcilerUnchanged

(* ... and the outer UPDATE re-checks, on the latest row, only the key:    *)
(* rows that were captured, voided or expired meanwhile are flipped and    *)
(* returned like the others                                                *)
ExpireDueUpdate(r) ==
    /\ scan[r] # {}
    /\ ledger' = Expired(scan[r])
    /\ batch' = [batch EXCEPT ![r] = scan[r]]
    /\ scan' = [scan EXCEPT ![r] = {}]
    /\ UNCHANGED <<counter, rebuild, released>> /\ reconcilerUnchanged

(* one iteration of the loop over the returned rows; an error is logged *)
ReleaseExpired(r, d) ==
    /\ d \in batch[r]
    /\ Release(d) \/ ReleaseFails
    /\ batch' = [batch EXCEPT ![r] = @ \ {d}]
    /\ UNCHANGED <<ledger, scan, rebuild>> /\ reconcilerUnchanged

(* the reconciler's process dies, or reading the returned rows fails *)
ReconcilerCrash(r) ==
    /\ "crash" \in Faults
    /\ batch[r] # {}
    /\ batch' = [batch EXCEPT ![r] = {}]
    /\ UNCHANGED <<counter, ledger, scan, rebuild, released>> /\ reconcilerUnchanged

(* RebuildWindow sums the ledger ... *)
RebuildList(r, w) ==
    /\ "rebuild" \in Faults
    /\ ~rebuild[r].busy
    /\ rebuild' = [rebuild EXCEPT ![r] =
                      [busy |-> TRUE, w |-> w, sum |-> Cents(ActiveIn(w))]]
    /\ UNCHANGED <<counter, ledger, batch, scan, released>> /\ reconcilerUnchanged

(* ... and overwrites the counter with the sum *)
RebuildSet(r) ==
    /\ rebuild[r].busy
    /\ counter' = [counter EXCEPT ![rebuild[r].w] = rebuild[r].sum]
    /\ rebuild' = [rebuild EXCEPT ![r] = NoRebuild]
    /\ UNCHANGED <<ledger, batch, scan, released>> /\ reconcilerUnchanged

-----------------------------------------------------------------------------
(* Time, and Redis itself.                                                 *)

clockUnchanged == UNCHANGED <<pc, wk, ledger, call, batch, scan, rebuild,
                              released, told>>

(* a hold's expires_at passes *)
TTLElapses(d) ==
    /\ ledger[d] = "held" /\ d \notin due
    /\ due' = due \cup {d}
    /\ UNCHANGED <<win, counter>> /\ clockUnchanged

(* the clock enters the next day or month *)
Rollover ==
    /\ win < MaxWindow
    /\ win' = win + 1
    /\ UNCHANGED <<counter, due>> /\ clockUnchanged

(* A window is open while a request may still be counted against it: the   *)
(* current one, and an earlier one for requests caught by the rollover.    *)
Open(w) == w >= win \/ \E d \in Decisions : pc[d] = "counter" /\ wk[d] = w

(* The counter key's TTL (48h for a day, 32d for a month, set once) ends   *)
(* long after its window closed.                                           *)
CounterExpires(w) ==
    /\ ~Open(w)
    /\ counter' = [counter EXCEPT ![w] = 0]
    /\ UNCHANGED <<win, due>> /\ clockUnchanged

(* Redis restarts without its data *)
CounterLost ==
    /\ "counterLoss" \in Faults
    /\ counter' = [w \in Windows |-> 0]
    /\ UNCHANGED <<win, due>> /\ clockUnchanged

-----------------------------------------------------------------------------
ReserveStep(d) ==
    \/ ReserveBegin(d) \/ CounterReserve(d) \/ CounterReserveFails(d)
    \/ Place(d) \/ PlaceFails(d) \/ UndoReserve(d) \/ ReserveCrash(d)

CallStep(c) ==
    \/ CaptureGet(c) \/ VoidGet(c) \/ CallUpdate(c) \/ VoidRecord(c)
    \/ VoidReport(c) \/ CallConfirm(c) \/ VoidRelease(c)

ReconcilerStep(r) ==
    \/ ExpireDue(r) \/ ExpireDueSelect(r) \/ ExpireDueUpdate(r)
    \/ \E d \in Decisions : ReleaseExpired(r, d)

RebuildStep(r) == RebuildSet(r) \/ \E w \in Windows : RebuildList(r, w)

Clock ==
    \/ \E d \in Decisions : TTLElapses(d)
    \/ Rollover
    \/ \E w \in Windows : CounterExpires(w)
    \/ CounterLost

Next ==
    \/ \E d \in Decisions : ReserveStep(d)
    \/ \E c \in Calls, op \in {"capture", "void"}, d \in Decisions : StartCall(c, op, d)
    \/ \E c \in Calls : CallStep(c) \/ CallFails(c)
    \/ \E r \in Reconcilers : ReconcilerStep(r) \/ RebuildStep(r) \/ ReconcilerCrash(r)
    \/ Clock

Spec == Init /\ [][Next]_vars

(***************************************************************************)
(* A request and a call that was started runs on, and the reconciler's     *)
(* ticker keeps firing.  Nobody is obliged to call, and time need not      *)
(* reach a TTL or a rollover.                                              *)
(***************************************************************************)
Fairness ==
    /\ \A d \in Decisions : WF_vars(pc[d] # "new" /\ ReserveStep(d))
    /\ \A c \in Calls : WF_vars(CallStep(c))
    /\ \A r \in Reconcilers : WF_vars(ReconcilerStep(r))

FairSpec == Spec /\ Fairness

-----------------------------------------------------------------------------
(* Properties.                                                             *)

(* Every variable has the type its column, key or struct field has.        *)
TypeOK ==
    /\ win \in Windows
    /\ counter \in [Windows -> Nat]
    /\ pc \in [Decisions -> {"new", "counter", "place", "undo"} \cup Outcomes]
    /\ wk \in [Decisions -> Windows]
    /\ ledger \in [Decisions -> HoldStates \cup {"none"}]
    /\ due \subseteq Decisions
    /\ call \in [Calls -> ActiveCall \cup {NoCall}]
    /\ batch \in [Reconcilers -> SUBSET Decisions]
    /\ scan \in [Reconcilers -> SUBSET Decisions]
    /\ rebuild \in [Reconcilers -> [busy : BOOLEAN, w : Windows, sum : Nat]]
    /\ released \in [Decisions -> Nat]
    /\ told \in [Decisions -> SUBSET (HoldStates \cup {"none"})]

(* Reserver ("no oversell"): however reserves, captures, voids, expiries,  *)
(* errors and crashes interleave, the held and captured rows of a window   *)
(* never add up to more than its limit.                                    *)
NoOversell == \A w \in Windows : Cents(ActiveIn(w)) <= Limit

(* A void call between its UPDATE and its counter release, or an expired   *)
(* row a reconciler has not come to yet: the release is still owed.        *)
VoidOwes(c, d) ==
    /\ call[c].d = d /\ call[c].op = "void"
    /\ call[c].step \in {"confirm", "release"}

Owed(d) ==
    \/ \E c \in Calls : VoidOwes(c, d)
    \/ \E r \in Reconcilers : d \in batch[r]

(* The decisions whose amount must be in the counter of window w.          *)
Backed(w) == { d \in Decisions :
                 /\ wk[d] = w
                 /\ \/ pc[d] \in {"place", "undo"}
                    \/ ledger[d] \in {"held", "captured"}
                    \/ Owed(d) }

(* Counter against ledger: while a window is open its counter covers every *)
(* reservation in flight, every held or captured row and every release     *)
(* still owed - benign faults only ever leave it too high.                 *)
CounterCoversLedger == \A w \in Windows : Open(w) => Cents(Backed(w)) <= counter[w]

(* The converse: what keeps an open window's budget from being spent is a  *)
(* request that was counted under that window and whose amount has not     *)
(* come off again.  Faults may strand such an amount; no interleaving      *)
(* counts anything else, or counts it twice.                               *)
Counted(w) == { d \in Decisions :
                  /\ wk[d] = w /\ released[d] = 0
                  /\ pc[d] \in {"place", "undo", "WITHIN_LIMIT", "UNAVAILABLE"} }

NoPhantomSpend == \A w \in Windows : Open(w) => counter[w] <= Cents(Counted(w))

(* Void and ReleaseExpired ("exactly once"): an amount leaves the counter  *)
(* at most once, and never while its row is held or captured, in whatever  *)
(* order the statements of undo, void and several reconcilers reach the    *)
(* row, one after the other.  Statements that overlap are another matter:  *)
(* ExpireDue does not test state='held' again on a row it had to wait for, *)
(* so with "snapshotRace" a void and a reconciler, or two reconcilers,     *)
(* release one amount twice.                                               *)
ReleasedAtMostOnce ==
    \A d \in Decisions :
        /\ released[d] <= 1
        /\ released[d] = 1 => ledger[d] \notin {"held", "captured"}

(* A 200 answer stays true: what a caller was told is captured is captured *)
(* for ever, and the same for voided (transitionHold's answers).           *)
AnswersHold ==
    \A d \in Decisions : \A s \in {"captured", "voided"} :
        s \in told[d] => ledger[d] = s

(* The state machine of hold.go: captured and voided are terminal, and an  *)
(* expired row can only be acknowledged as voided.                         *)
LegalTransition(s, t) ==
    \/ s = t
    \/ s = "none" /\ t = "held"
    \/ s = "held"
    \/ s = "expired" /\ t = "voided"

TerminalStates ==
    [][\A d \in Decisions : LegalTransition(ledger[d], ledger'[d])]_ledger

(* Reconciler.Run: a hold whose TTL passed does not stay held.             *)
DueHoldResolved ==
    \A d \in Decisions : (d \in due /\ ledger[d] = "held") ~> (ledger[d] # "held")

(* What the environment sees of Reserve and of the rows. *)
Answer     == [d \in Decisions |-> IF pc[d] \in Outcomes THEN pc[d] ELSE "pending"]
HoldWindow == [d \in Decisions |-> IF ledger[d] = "none" THEN -1 ELSE wk[d]]

Gate == INSTANCE BudgetGate WITH answer <- Answer, hold <- ledger, window <- HoldWindow

(* Reserver, Store and Reconciler together are a BudgetGate: every request *)
(* is answered once, WITHIN_LIMIT in the very step that brings its hold    *)
(* into being with the window's spend within the limit, and holds only     *)
(* move along the state machine of hold.go.                                *)
ImplementsGate == Gate!Spec
=============================================================================
