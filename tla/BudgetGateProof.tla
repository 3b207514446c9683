--------------------------- MODULE BudgetGateProof ---------------------------
(***************************************************************************)
(* Budget implements BudgetGate, from the inductive invariant of           *)
(* BudgetProof.                                                            *)
(***************************************************************************)
EXTENDS BudgetProof

GateStep == [Gate!Next]_<<Answer, ledger, HoldWindow>>

(* A step that moves neither the outcomes nor the rows is not seen.        *)
LEMMA Unseen ==
  ASSUME UNCHANGED <<pc, wk, ledger>>
  PROVE  GateStep
BY DEF GateStep, Answer, HoldWindow

(* A request that ends without a row is a refusal; one that moves on to    *)
(* its next step is not seen.                                              *)
LEMMA Refused ==
  ASSUME TypeOK, NEW d \in Decisions, pc[d] \notin Outcomes, ledger[d] = "none",
         UNCHANGED ledger, \A e \in Decisions : ledger[e] # "none" => wk'[e] = wk[e],
         NEW s \in {"counter", "place", "undo", "EXCEEDED", "UNAVAILABLE"},
         pc' = [pc EXCEPT ![d] = s]
  PROVE  GateStep
<1>1. HoldWindow' = HoldWindow
  BY DEF HoldWindow
<1>2. CASE s \in {"counter", "place", "undo"}
  <2>1. Answer' = Answer
    BY <1>2 DEF Answer, Outcomes, TypeOK
  <2>. QED  BY <1>1, <2>1 DEF GateStep
<1>3. CASE s \in {"EXCEEDED", "UNAVAILABLE"}
  <2>1. Answer[d] = "pending"
    BY DEF Answer
  <2>2. Answer' = [Answer EXCEPT ![d] = s]
    BY <1>3 DEF Answer, Outcomes, TypeOK
  <2>3. Gate!Refuse(d)
    BY <1>1, <1>3, <2>1, <2>2 DEF Gate!Refuse
  <2>. QED  BY <2>3 DEF GateStep, Gate!Next
<1>. QED  BY <1>2, <1>3

(* Place grants: the window still has room, because the counter has        *)
(* covered the amount since CounterReserve.                                *)
LEMMA PlaceGrants ==
  ASSUME IInv, NEW d \in Decisions, Place(d)
  PROVE  GateStep
<1>. DEFINE w == wk[d]
<1>a. TypeOK /\ RowsAreReserved /\ CounterBounds
  BY DEF IInv
<1>b. w \in Windows
  BY <1>a DEF TypeOK
<1>1. ledger[d] = "none" /\ Answer[d] = "pending"
  BY <1>a DEF RowsAreReserved, Place, Answer, Outcomes
<1>2. Gate!Spend(w) \cup {d} \subseteq Backed(w)
  <2>1. d \in Backed(w)
    BY DEF Backed, Place
  <2>2. ASSUME NEW e \in Decisions, HoldWindow[e] = w, ledger[e] \in {"held", "captured"}
        PROVE  e \in Backed(w)
    BY <2>2 DEF Backed, HoldWindow
  <2>. QED  BY <2>1, <2>2 DEF Gate!Spend
<1>3. Cents(Gate!Spend(w) \cup {d}) <= Limit
  <2>1. Cents(Gate!Spend(w) \cup {d}) <= Cents(Backed(w))
    BY <1>2, CentsMonotone
  <2>2. Cents(Backed(w)) <= Limit
    BY <1>a, <1>b DEF CounterBounds
  <2>3. /\ Cents(Gate!Spend(w) \cup {d}) \in Nat /\ Cents(Backed(w)) \in Nat
        /\ Limit \in Nat
    BY CoinsFinite, ConstantsAssumption
  <2>. QED  BY <2>1, <2>2, <2>3
<1>4. Answer' = [Answer EXCEPT ![d] = "WITHIN_LIMIT"]
  BY <1>a DEF Place, Answer, Outcomes, TypeOK
<1>5. HoldWindow' = [HoldWindow EXCEPT ![d] = w]
  BY <1>a DEF Place, HoldWindow, TypeOK
<1>6. Gate!Grant(d, w)
  BY <1>1, <1>3, <1>4, <1>5 DEF Gate!Grant, Place
<1>. QED  BY <1>6, <1>b DEF GateStep, Gate!Next

(* The steps of Reserver.Reserve.                                          *)
LEMMA ReserveRefines ==
  ASSUME IInv, Faults \subseteq Benign, NEW d \in Decisions, ReserveStep(d)
  PROVE  GateStep
<1>a. TypeOK /\ RowsAreReserved
  BY DEF IInv
<1>1. CASE Place(d)
  BY <1>1, PlaceGrants
<1>2. CASE ~Place(d)
  <2>1. PICK s \in {"counter", "place", "undo", "EXCEEDED", "UNAVAILABLE"} :
           pc' = [pc EXCEPT ![d] = s]
    BY <1>2 DEF ReserveStep, ReserveBegin, CounterReserve, CounterReserveFails,
                PlaceFails, UndoReserve, ReserveCrash
  <2>2. pc[d] \in {"new", "counter", "place", "undo"}
    BY DEF ReserveStep, ReserveBegin, CounterReserve, CounterReserveFails, Place,
           PlaceFails, UndoReserve, ReserveCrash
  <2>3. pc[d] \notin Outcomes /\ ledger[d] = "none"
    BY <1>a, <2>2 DEF Outcomes, RowsAreReserved
  <2>4. UNCHANGED ledger
    BY <1>2 DEF ReserveStep, ReserveBegin, CounterReserve, CounterReserveFails,
                PlaceFails, UndoReserve, ReserveCrash, Benign
  <2>5. \A e \in Decisions : ledger[e] # "none" => wk'[e] = wk[e]
    <3>1. CASE ReserveBegin(d)
      BY <1>a, <2>3, <3>1 DEF ReserveBegin, TypeOK
    <3>2. CASE ~ReserveBegin(d)
      BY <1>2, <3>2 DEF ReserveStep, CounterReserve, CounterReserveFails,
                        PlaceFails, UndoReserve, ReserveCrash
    <3>. QED  BY <3>1, <3>2
  <2>. QED  BY <1>a, <2>1, <2>3, <2>4, <2>5, Refused
<1>. QED  BY <1>1, <1>2

(* A row that a call flips is settled.                                     *)
LEMMA RowSettled ==
  ASSUME TypeOK, UNCHANGED <<pc, wk>>, NEW d \in Decisions,
         \/ ledger[d] = "held" /\ ledger' = [ledger EXCEPT ![d] = "captured"]
         \/ ledger[d] \in {"held", "expired"} /\ ledger' = [ledger EXCEPT ![d] = "voided"]
  PROVE  GateStep
<1>1. Answer' = Answer
  BY DEF Answer
<1>2. HoldWindow' = HoldWindow
  BY DEF HoldWindow, TypeOK
<1>3. Gate!Settle(d)
  BY <1>1, <1>2 DEF Gate!Settle
<1>. QED  BY <1>3 DEF GateStep, Gate!Next

(* The steps of a capture or void call.                                    *)
LEMMA CallRefines ==
  ASSUME TypeOK, NEW c \in Calls, CallStep(c) \/ CallFails(c)
  PROVE  GateStep
<1>. DEFINE d == call[c].d
<1>. USE DEF callUnchanged
<1>1. CASE CallUpdate(c) /\ ledger[d] = "held"
  <2>1. call[c] \in ActiveCall \cup {NoCall} /\ call[c].step = "update"
    BY <1>1 DEF TypeOK, CallUpdate
  <2>2. d \in Decisions
    BY <2>1 DEF ActiveCall, NoCall
  <2>3. \/ ledger' = [ledger EXCEPT ![d] = "captured"]
        \/ ledger' = [ledger EXCEPT ![d] = "voided"]
    BY <1>1 DEF CallUpdate
  <2>4. UNCHANGED <<pc, wk>>
    BY <1>1 DEF CallUpdate
  <2>. QED  BY <1>1, <2>2, <2>3, <2>4, RowSettled
<1>2. CASE VoidRecord(c) /\ ledger[d] = "expired"
  <2>1. call[c] \in ActiveCall \cup {NoCall} /\ call[c].step = "record"
    BY <1>2 DEF TypeOK, VoidRecord
  <2>2. d \in Decisions
    BY <2>1 DEF ActiveCall, NoCall
  <2>3. ledger' = [ledger EXCEPT ![d] = "voided"] /\ UNCHANGED <<pc, wk>>
    BY <1>2 DEF VoidRecord
  <2>. QED  BY <1>2, <2>2, <2>3, RowSettled
<1>3. CASE \/ CaptureGet(c) \/ VoidGet(c) \/ VoidReport(c) \/ CallConfirm(c)
           \/ VoidRelease(c) \/ CallFails(c)
           \/ (CallUpdate(c) /\ ledger[d] # "held")
           \/ (VoidRecord(c) /\ ledger[d] # "expired")
  <2>1. UNCHANGED <<pc, wk, ledger>>
    BY <1>3 DEF CaptureGet, VoidGet, VoidReport, CallConfirm, VoidRelease, CallFails,
                CallUpdate, VoidRecord
  <2>. QED  BY <2>1, Unseen
<1>. QED  BY <1>1, <1>2, <1>3 DEF CallStep

(* The steps of a reconciler.                                              *)
LEMMA ReconcilerRefines ==
  ASSUME IInv, Faults \subseteq Benign, NEW r \in Reconcilers,
         ReconcilerStep(r) \/ RebuildStep(r) \/ ReconcilerCrash(r)
  PROVE  GateStep
<1>. USE DEF reconcilerUnchanged
<1>1. CASE ExpireDue(r)
  <2>1. PICK B \in SUBSET Decisions : DueBatch(B) /\ ledger' = Expired(B)
    BY <1>1 DEF ExpireDue
  <2>2. UNCHANGED <<pc, wk>>
    BY <1>1 DEF ExpireDue
  <2>3. \A e \in B : ledger[e] = "held"
    BY <2>1 DEF DueBatch, DueHolds
  <2>4. \A e \in Decisions : ledger'[e] = "none" <=> ledger[e] = "none"
    BY <2>1, <2>3 DEF Expired
  <2>5. Answer' = Answer /\ HoldWindow' = HoldWindow
    BY <2>2, <2>4 DEF Answer, HoldWindow
  <2>6. Gate!Expire(B)
    BY <2>1, <2>3, <2>5 DEF Gate!Expire, Expired
  <2>. QED  BY <2>6 DEF GateStep, Gate!Next
<1>2. ~ExpireDueSelect(r) /\ ~ExpireDueUpdate(r) /\ ~RebuildStep(r)
  BY DEF IInv, Benign, Undisturbed, ExpireDueSelect, ExpireDueUpdate, RebuildStep,
         RebuildList, RebuildSet
<1>3. CASE (\E d \in Decisions : ReleaseExpired(r, d)) \/ ReconcilerCrash(r)
  <2>1. UNCHANGED <<pc, wk, ledger>>
    BY <1>3 DEF ReleaseExpired, ReconcilerCrash
  <2>. QED  BY <2>1, Unseen
<1>. QED  BY <1>1, <1>2, <1>3 DEF ReconcilerStep

(* Reserver, hold store and reconciler, with every interleaving, crash and *)
(* error between their Redis and Postgres calls, are one atomic gate.      *)
THEOREM BudgetImplementsGate ==
  ASSUME Faults \subseteq Benign
  PROVE  Spec => ImplementsGate
<1>1. Init => Gate!Init
  BY DEF Init, Gate!Init, Answer, HoldWindow, Outcomes, Gate!NoWindow
<1>2. IInv /\ [Next]_vars => GateStep
  <2>. SUFFICES ASSUME IInv, [Next]_vars
               PROVE  GateStep
    OBVIOUS
  <2>1. ASSUME NEW d \in Decisions, ReserveStep(d)  PROVE GateStep
    BY <2>1, ReserveRefines
  <2>2. ASSUME NEW c \in Calls, CallStep(c) \/ CallFails(c)  PROVE GateStep
    BY <2>2, CallRefines DEF IInv
  <2>3. ASSUME NEW r \in Reconcilers,
               ReconcilerStep(r) \/ RebuildStep(r) \/ ReconcilerCrash(r)
        PROVE  GateStep
    BY <2>3, ReconcilerRefines
  <2>4. ASSUME NEW c \in Calls, NEW op, NEW d \in Decisions, StartCall(c, op, d)
        PROVE  GateStep
    BY <2>4, Unseen DEF StartCall, callUnchanged
  <2>5. CASE Clock
    BY <2>5, Unseen DEF Clock, TTLElapses, Rollover, CounterExpires, CounterLost,
                        clockUnchanged
  <2>6. CASE UNCHANGED vars
    BY <2>6, Unseen DEF vars
  <2>. QED  BY <2>1, <2>2, <2>3, <2>4, <2>5, <2>6 DEF Next
<1>. QED
  BY <1>1, <1>2, Invariance, PTL DEF Spec, ImplementsGate, Gate!Spec, GateStep,
                                    Gate!gateVars
=============================================================================
