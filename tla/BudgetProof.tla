---------------------------- MODULE BudgetProof ----------------------------
(***************************************************************************)
(* Proofs about Budget for every set of decisions, calls and reconcilers,  *)
(* every amount and every limit.                                           *)
(***************************************************************************)
EXTENDS Budget, FiniteSetTheorems, TLAPS

-----------------------------------------------------------------------------
(* Sums of amounts.                                                        *)

(* A set of decisions has finitely many cents.                             *)
LEMMA CoinsFinite ==
  ASSUME NEW S
  PROVE  IsFiniteSet(Coins(S)) /\ Cents(S) \in Nat
<1>1. IsFiniteSet(1..MaxAmount)
  BY FS_Interval, ConstantsAssumption
<1>2. IsFiniteSet(Decisions \X (1..MaxAmount))
  BY <1>1, FS_Product, ConstantsAssumption
<1>3. Coins(S) \in SUBSET (Decisions \X (1..MaxAmount))
  BY DEF Coins
<1>4. IsFiniteSet(Coins(S))
  BY <1>2, <1>3, FS_Subset
<1>. QED  BY <1>4, FS_CardinalityType DEF Cents

(* More decisions never sum to less.                                       *)
LEMMA CentsMonotone ==
  ASSUME NEW S, NEW T, S \subseteq T
  PROVE  Cents(S) <= Cents(T)
<1>1. Coins(S) \in SUBSET Coins(T)
  BY DEF Coins
<1>. QED  BY <1>1, CoinsFinite, FS_Subset DEF Cents

(* One decision is worth its amount.                                       *)
LEMMA CentsOfOne ==
  ASSUME NEW d \in Decisions
  PROVE  Cents({d}) = Amount[d]
<1>1. Amount[d] \in 0..MaxAmount /\ MaxAmount \in Nat
  BY ConstantsAssumption
<1>2. Coins({d}) = {d} \X (1..Amount[d])
  BY <1>1 DEF Coins
<1>3. IsFiniteSet({d}) /\ Cardinality({d}) = 1
  BY FS_Singleton
<1>4. IsFiniteSet(1..Amount[d]) /\ Cardinality(1..Amount[d]) = Amount[d]
  <2>1. Amount[d] \in Int /\ Amount[d] >= 0
    BY <1>1
  <2>2. /\ IsFiniteSet(1..Amount[d])
        /\ Cardinality(1..Amount[d]) = IF 1 > Amount[d] THEN 0 ELSE Amount[d] - 1 + 1
    BY <2>1, FS_Interval
  <2>. QED  BY <2>1, <2>2
<1>5. Cardinality({d} \X (1..Amount[d])) = 1 * Amount[d]
  <2>1. Cardinality({d} \X (1..Amount[d])) = Cardinality({d}) * Cardinality(1..Amount[d])
    BY <1>3, <1>4, FS_Product, Zenon
  <2>. QED  BY <2>1, <1>3, <1>4
<1>. QED  BY <1>1, <1>2, <1>5 DEF Cents

(* Adding a decision adds at most its amount.                              *)
LEMMA CentsAdd ==
  ASSUME NEW S, NEW d \in Decisions
  PROVE  Cents(S \cup {d}) <= Cents(S) + Amount[d]
<1>1. Coins(S \cup {d}) = Coins(S) \cup Coins({d})
  BY DEF Coins
<1>2. /\ IsFiniteSet(Coins(S)) /\ IsFiniteSet(Coins({d}))
      /\ Cents(S) \in Nat /\ Cents({d}) \in Nat
  BY CoinsFinite
<1>3. Cardinality(Coins(S) \cap Coins({d})) \in Nat
  BY <1>2, FS_Intersection, FS_CardinalityType
<1>4. Cents(S \cup {d}) = Cents(S) + Cents({d}) - Cardinality(Coins(S) \cap Coins({d}))
  BY <1>1, <1>2, FS_Union DEF Cents
<1>. QED  BY <1>2, <1>3, <1>4, CentsOfOne

(* Removing a decision removes its amount.                                 *)
LEMMA CentsRemove ==
  ASSUME NEW S, NEW d \in Decisions, d \in S
  PROVE  Cents(S \ {d}) = Cents(S) - Amount[d]
<1>1. Coins(S) = Coins(S \ {d}) \cup Coins({d})
  BY DEF Coins
<1>2. Coins(S \ {d}) \cap Coins({d}) = {}
  BY DEF Coins
<1>3. /\ IsFiniteSet(Coins(S \ {d})) /\ IsFiniteSet(Coins({d}))
      /\ Cents(S \ {d}) \in Nat /\ Cents({d}) \in Nat
  BY CoinsFinite
<1>4. Cents(S) = Cents(S \ {d}) + Cents({d}) - Cardinality({})
  BY <1>1, <1>2, <1>3, FS_Union DEF Cents
<1>5. Cardinality({}) = 0
  BY FS_EmptySet
<1>6. Cents({d}) = Amount[d]
  BY CentsOfOne
<1>. QED  BY <1>3, <1>4, <1>5, <1>6

-----------------------------------------------------------------------------
(* Types.                                                                  *)

LEMMA DecrementNat ==
  ASSUME NEW n \in Nat, NEW amt \in Nat
  PROVE  /\ Decrement(n, amt) \in Nat
         /\ Decrement(n, amt) <= n
         /\ n - amt <= Decrement(n, amt)
BY DEF Decrement

LEMMA AmountNat == \A d \in Decisions : Amount[d] \in Nat
BY ConstantsAssumption

LEMMA WindowZero == 0 \in Windows /\ MaxWindow \in Nat
BY ConstantsAssumption DEF Windows

LEMMA TypeInit == Init => TypeOK
BY WindowZero DEF Init, TypeOK, NoRebuild, Outcomes, HoldStates

LEMMA ReleaseType ==
  ASSUME TypeOK, NEW d \in Decisions, Release(d)
  PROVE  counter' \in [Windows -> Nat] /\ released' \in [Decisions -> Nat]
<1>1. /\ wk[d] \in Windows /\ counter[wk[d]] \in Nat
      /\ Amount[d] \in Nat /\ released[d] + 1 \in Nat
  BY AmountNat DEF TypeOK
<1>2. Decrement(counter[wk[d]], Amount[d]) \in Nat
  BY <1>1, DecrementNat
<1>. QED  BY <1>1, <1>2 DEF TypeOK, Release

LEMMA ReserveType ==
  ASSUME TypeOK, NEW d \in Decisions, ReserveStep(d)
  PROVE  TypeOK'
<1>. USE DEF reserveUnchanged
<1>1. CASE ReserveBegin(d)
  BY <1>1 DEF TypeOK, ReserveBegin, Outcomes
<1>2. CASE CounterReserve(d)
  BY <1>2, AmountNat DEF TypeOK, CounterReserve, Outcomes
<1>3. CASE CounterReserveFails(d)
  BY <1>3, AmountNat DEF TypeOK, CounterReserveFails, Outcomes
<1>4. CASE Place(d)
  BY <1>4 DEF TypeOK, Place, Outcomes, HoldStates
<1>5. CASE PlaceFails(d)
  BY <1>5 DEF TypeOK, PlaceFails, HoldStates
<1>6. CASE UndoReserve(d)
  BY <1>6, ReleaseType DEF TypeOK, UndoReserve, ReleaseFails, Outcomes
<1>7. CASE ReserveCrash(d)
  BY <1>7 DEF TypeOK, ReserveCrash, Outcomes
<1>. QED  BY <1>1, <1>2, <1>3, <1>4, <1>5, <1>6, <1>7 DEF ReserveStep

(* A call that is past "idle" is about a decision.                         *)
LEMMA CallIsActive ==
  ASSUME TypeOK, NEW c \in Calls, call[c].step \in CallSteps
  PROVE  /\ call[c].d \in Decisions
         /\ call[c].op \in {"capture", "void"}
         /\ call[c] \in ActiveCall
BY DEF TypeOK, ActiveCall, NoCall, CallSteps

LEMMA GotoType ==
  ASSUME TypeOK, NEW c \in Calls, call[c].step \in CallSteps,
         NEW s \in CallSteps, Goto(c, s)
  PROVE  call' \in [Calls -> ActiveCall \cup {NoCall}]
<1>1. [step |-> s, op |-> call[c].op, d |-> call[c].d] \in ActiveCall
  BY CallIsActive DEF ActiveCall
<1>. QED  BY <1>1 DEF TypeOK, Goto

LEMMA HangupType ==
  ASSUME TypeOK, NEW c \in Calls, Hangup(c)
  PROVE  call' \in [Calls -> ActiveCall \cup {NoCall}]
BY DEF TypeOK, Hangup

Answers == HoldStates \cup {"none"}

LEMMA TellType ==
  ASSUME TypeOK, NEW d \in Decisions, NEW s \in Answers, Tell(d, s)
  PROVE  told' \in [Decisions -> SUBSET Answers]
BY DEF TypeOK, Tell, Answers

LEMMA EffectiveType ==
  ASSUME TypeOK, NEW d \in Decisions
  PROVE  Effective(d) \in Answers
BY DEF TypeOK, Effective, Answers, HoldStates

LEMMA CallType ==
  ASSUME TypeOK, NEW c \in Calls, CallStep(c) \/ CallFails(c)
  PROVE  TypeOK'
<1>. USE DEF callUnchanged
<1>. DEFINE d == call[c].d
<1>1. CASE CaptureGet(c)
  <2>1. call[c].step \in CallSteps /\ d \in Decisions /\ Effective(d) \in Answers
    BY <1>1, CallIsActive, EffectiveType DEF CaptureGet, CallSteps
  <2>2. call' \in [Calls -> ActiveCall \cup {NoCall}]
    BY <1>1, <2>1, GotoType, HangupType DEF CaptureGet, CallSteps
  <2>3. told' \in [Decisions -> SUBSET Answers]
    BY <1>1, <2>1, TellType DEF CaptureGet, TypeOK, Answers
  <2>. QED  BY <1>1, <2>2, <2>3 DEF CaptureGet, TypeOK, Answers
<1>2. CASE VoidGet(c)
  <2>1. call[c].step \in CallSteps /\ d \in Decisions /\ "voided" \in Answers
    BY <1>2, CallIsActive DEF VoidGet, CallSteps, Answers, HoldStates
  <2>2. call' \in [Calls -> ActiveCall \cup {NoCall}]
    BY <1>2, <2>1, GotoType, HangupType DEF VoidGet, CallSteps
  <2>3. told' \in [Decisions -> SUBSET Answers]
    BY <1>2, <2>1, TellType DEF VoidGet, TypeOK, Answers
  <2>. QED  BY <1>2, <2>2, <2>3 DEF VoidGet, TypeOK, Answers
<1>3. CASE CallUpdate(c)
  <2>1. call[c].step \in CallSteps /\ d \in Decisions
    BY <1>3, CallIsActive DEF CallUpdate, CallSteps
  <2>2. call' \in [Calls -> ActiveCall \cup {NoCall}]
    BY <1>3, <2>1, GotoType DEF CallUpdate, CallSteps
  <2>3. ledger' \in [Decisions -> HoldStates \cup {"none"}]
    BY <1>3, <2>1 DEF CallUpdate, TypeOK, HoldStates
  <2>. QED  BY <1>3, <2>2, <2>3 DEF CallUpdate, TypeOK
<1>4. CASE VoidRecord(c)
  <2>1. call[c].step \in CallSteps /\ d \in Decisions
    BY <1>4, CallIsActive DEF VoidRecord, CallSteps
  <2>2. call' \in [Calls -> ActiveCall \cup {NoCall}]
    BY <1>4, <2>1, GotoType DEF VoidRecord, CallSteps
  <2>3. ledger' \in [Decisions -> HoldStates \cup {"none"}]
    BY <1>4, <2>1 DEF VoidRecord, TypeOK, HoldStates
  <2>. QED  BY <1>4, <2>2, <2>3 DEF VoidRecord, TypeOK
<1>5. CASE VoidReport(c)
  <2>1. d \in Decisions /\ Effective(d) \in Answers
    BY <1>5, CallIsActive, EffectiveType DEF VoidReport, CallSteps
  <2>2. call' \in [Calls -> ActiveCall \cup {NoCall}]
    BY <1>5, HangupType DEF VoidReport
  <2>3. told' \in [Decisions -> SUBSET Answers]
    BY <1>5, <2>1, TellType DEF VoidReport
  <2>. QED  BY <1>5, <2>2, <2>3 DEF VoidReport, TypeOK, Answers
<1>6. CASE CallConfirm(c)
  <2>1. call[c].step \in CallSteps /\ d \in Decisions /\ Effective(d) \in Answers
    BY <1>6, CallIsActive, EffectiveType DEF CallConfirm, CallSteps
  <2>2. call' \in [Calls -> ActiveCall \cup {NoCall}]
    BY <1>6, <2>1, GotoType, HangupType DEF CallConfirm, CallSteps
  <2>3. told' \in [Decisions -> SUBSET Answers]
    BY <1>6, <2>1, TellType DEF CallConfirm, TypeOK, Answers
  <2>. QED  BY <1>6, <2>2, <2>3 DEF CallConfirm, TypeOK, Answers
<1>7. CASE VoidRelease(c)
  <2>1. d \in Decisions /\ "voided" \in Answers
    BY <1>7, CallIsActive DEF VoidRelease, CallSteps, Answers, HoldStates
  <2>2. call' \in [Calls -> ActiveCall \cup {NoCall}]
    BY <1>7, HangupType DEF VoidRelease
  <2>3. told' \in [Decisions -> SUBSET Answers]
    BY <1>7, <2>1, TellType DEF VoidRelease
  <2>4. counter' \in [Windows -> Nat] /\ released' \in [Decisions -> Nat]
    BY <1>7, <2>1, ReleaseType DEF VoidRelease, ReleaseFails, TypeOK
  <2>. QED  BY <1>7, <2>2, <2>3, <2>4 DEF VoidRelease, TypeOK, Answers
<1>8. CASE CallFails(c)
  BY <1>8, HangupType DEF CallFails, TypeOK
<1>. QED
  BY <1>1, <1>2, <1>3, <1>4, <1>5, <1>6, <1>7, <1>8 DEF CallStep

LEMMA ReconcilerType ==
  ASSUME TypeOK, NEW r \in Reconcilers,
         ReconcilerStep(r) \/ RebuildStep(r) \/ ReconcilerCrash(r)
  PROVE  TypeOK'
<1>. USE DEF reconcilerUnchanged
<1>1. \A B \in SUBSET Decisions :
         Expired(B) \in [Decisions -> HoldStates \cup {"none"}]
  BY DEF TypeOK, Expired, HoldStates
<1>2. CASE ExpireDue(r)
  BY <1>1, <1>2 DEF TypeOK, ExpireDue
<1>3. CASE ExpireDueSelect(r)
  BY <1>3 DEF TypeOK, ExpireDueSelect
<1>4. CASE ExpireDueUpdate(r)
  <2>1. scan[r] \in SUBSET Decisions
    BY DEF TypeOK
  <2>. QED  BY <1>1, <1>4, <2>1 DEF TypeOK, ExpireDueUpdate
<1>5. ASSUME NEW d \in Decisions, ReleaseExpired(r, d)
      PROVE  TypeOK'
  BY <1>5, ReleaseType DEF TypeOK, ReleaseExpired, ReleaseFails
<1>6. CASE ReconcilerCrash(r)
  BY <1>6 DEF TypeOK, ReconcilerCrash
<1>7. ASSUME NEW w \in Windows, RebuildList(r, w)
      PROVE  TypeOK'
  <2>1. Cents(ActiveIn(w)) \in Nat
    BY CoinsFinite
  <2>. QED  BY <1>7, <2>1 DEF TypeOK, RebuildList
<1>8. CASE RebuildSet(r)
  <2>1. rebuild[r].w \in Windows /\ rebuild[r].sum \in Nat
    BY DEF TypeOK
  <2>. QED  BY <1>8, <2>1, WindowZero DEF TypeOK, RebuildSet, NoRebuild
<1>. QED
  BY <1>2, <1>3, <1>4, <1>5, <1>6, <1>7, <1>8 DEF ReconcilerStep, RebuildStep

LEMMA ClockType ==
  ASSUME TypeOK, Clock
  PROVE  TypeOK'
<1>. USE DEF clockUnchanged
<1>1. ASSUME NEW d \in Decisions, TTLElapses(d)
      PROVE  TypeOK'
  BY <1>1 DEF TypeOK, TTLElapses
<1>2. CASE Rollover
  BY <1>2, WindowZero DEF TypeOK, Rollover, Windows
<1>3. ASSUME NEW w \in Windows, CounterExpires(w)
      PROVE  TypeOK'
  BY <1>3 DEF TypeOK, CounterExpires
<1>4. CASE CounterLost
  BY <1>4 DEF TypeOK, CounterLost
<1>. QED  BY <1>1, <1>2, <1>3, <1>4 DEF Clock

LEMMA StartCallType ==
  ASSUME TypeOK, NEW c \in Calls, NEW op \in {"capture", "void"},
         NEW d \in Decisions, StartCall(c, op, d)
  PROVE  TypeOK'
BY DEF TypeOK, StartCall, callUnchanged, ActiveCall, CallSteps

LEMMA TypeNext == TypeOK /\ [Next]_vars => TypeOK'
<1>. SUFFICES ASSUME TypeOK, [Next]_vars
             PROVE  TypeOK'
  OBVIOUS
<1>1. CASE Next
  BY <1>1, ReserveType, CallType, ReconcilerType, ClockType, StartCallType DEF Next
<1>2. CASE UNCHANGED vars
  BY <1>2 DEF vars, TypeOK
<1>. QED  BY <1>1, <1>2

(* Whatever goes wrong - all faults included - the counters stay natural   *)
(* numbers, rows stay in one of the five states and every call record      *)
(* stays well formed.                                                      *)
THEOREM TypeCorrect == Spec => []TypeOK
BY TypeInit, TypeNext, PTL DEF Spec

-----------------------------------------------------------------------------
(* The inductive invariant behind NoOversell.                              *)

(* Without the excluded faults no ExpireDue is split and nobody rebuilds.  *)
Undisturbed == \A r \in Reconcilers : scan[r] = {} /\ ~rebuild[r].busy

(* A row exists only once Place has answered.                              *)
RowsAreReserved == \A d \in Decisions : ledger[d] # "none" => pc[d] = "WITHIN_LIMIT"

(* Void, ReleaseExpired: a row leaves the held state for exactly one of    *)
(* them, so at most one process owes the counter its amount, and no row    *)
(* with a release owed is still (or again) spend.                          *)
ReleaseHasOneOwner ==
    \A d \in Decisions :
        /\ \A c \in Calls : VoidOwes(c, d) =>
              /\ ledger[d] = "voided"
              /\ \A b \in Calls : VoidOwes(b, d) => b = c
              /\ \A r \in Reconcilers : d \notin batch[r]
        /\ \A r \in Reconcilers : d \in batch[r] =>
              /\ ledger[d] \in {"expired", "voided"}
              /\ \A q \in Reconcilers : d \in batch[q] => q = r

(* A decision whose amount has left the counter is done with: it can       *)
(* neither be counted as spend nor be released again.                      *)
ReleasedIsFinal ==
    \A d \in Decisions :
        /\ released[d] <= 1
        /\ released[d] = 1 =>
              /\ pc[d] \in Outcomes
              /\ ledger[d] \notin {"held", "captured"}
              /\ ~Owed(d)

(* The counter never exceeds the limit, an open window's counter covers    *)
(* its backed decisions, and a closed window only ever loses some.         *)
CounterBounds ==
    \A w \in Windows :
        /\ counter[w] <= Limit
        /\ Cents(Backed(w)) <= Limit
        /\ Open(w) => Cents(Backed(w)) <= counter[w]

IInv ==
    /\ TypeOK
    /\ Undisturbed
    /\ RowsAreReserved
    /\ ReleaseHasOneOwner
    /\ ReleasedIsFinal
    /\ CounterBounds

(* How a step may move the bounds.                                         *)
BackedShrinks == \A w \in Windows : Backed(w)' \subseteq Backed(w)
NothingOpens  == \A w \in Windows : Open(w)' => Open(w)

(* A step that leaves the counter alone and backs nothing new is harmless. *)
LEMMA QuietStep ==
  ASSUME CounterBounds, UNCHANGED counter, BackedShrinks, NothingOpens,
         TypeOK
  PROVE  CounterBounds'
<1>. SUFFICES ASSUME NEW w \in Windows
             PROVE  /\ counter[w]' <= Limit
                    /\ Cents(Backed(w)') <= Limit
                    /\ Open(w)' => Cents(Backed(w)') <= counter[w]'
  BY DEF CounterBounds, Cents, Coins
<1>1. Cents(Backed(w)') <= Cents(Backed(w))
  BY CentsMonotone DEF BackedShrinks
<1>2. Cents(Backed(w)) \in Nat /\ Cents(Backed(w)') \in Nat
  BY CoinsFinite
<1>3. counter[w] \in Nat /\ Limit \in Nat
  BY ConstantsAssumption DEF TypeOK
<1>. QED  BY <1>1, <1>2, <1>3 DEF CounterBounds, NothingOpens

(* A release that takes its decision out of the backed ones is harmless.   *)
LEMMA ReleaseStep ==
  ASSUME CounterBounds, TypeOK, NothingOpens, BackedShrinks,
         NEW d \in Decisions, Release(d),
         d \in Backed(wk[d]), \A w \in Windows : d \notin Backed(w)'
  PROVE  CounterBounds'
<1>. SUFFICES ASSUME NEW w \in Windows
             PROVE  /\ counter[w]' <= Limit
                    /\ Cents(Backed(w)') <= Limit
                    /\ Open(w)' => Cents(Backed(w)') <= counter[w]'
  BY DEF CounterBounds, Cents, Coins
<1>1. Cents(Backed(w)) \in Nat /\ Cents(Backed(w)') \in Nat
  BY CoinsFinite
<1>2. /\ counter[w] \in Nat /\ Limit \in Nat /\ Amount[d] \in Nat
      /\ wk[d] \in Windows
  BY ConstantsAssumption, AmountNat DEF TypeOK
<1>3. Cents(Backed(w)') <= Cents(Backed(w))
  BY CentsMonotone DEF BackedShrinks
<1>4. CASE w # wk[d]
  <2>1. counter[w]' = counter[w]
    BY <1>4 DEF Release, TypeOK
  <2>. QED  BY <1>1, <1>2, <1>3, <2>1 DEF CounterBounds, NothingOpens
<1>5. CASE w = wk[d]
  <2>1. counter[w]' = Decrement(counter[w], Amount[d])
    BY <1>5 DEF Release, TypeOK
  <2>2. Backed(w)' \subseteq Backed(w) \ {d}
    BY <1>5 DEF BackedShrinks
  <2>3. Cents(Backed(w)') <= Cents(Backed(w) \ {d})
    BY <2>2, CentsMonotone
  <2>4. Cents(Backed(w) \ {d}) = Cents(Backed(w)) - Amount[d]
    BY <1>5, CentsRemove
  <2>5. /\ Decrement(counter[w], Amount[d]) \in Nat
        /\ Decrement(counter[w], Amount[d]) <= counter[w]
        /\ counter[w] - Amount[d] <= Decrement(counter[w], Amount[d])
    BY <1>2, DecrementNat
  <2>. QED
    BY <1>1, <1>2, <1>3, <2>1, <2>3, <2>4, <2>5 DEF CounterBounds, NothingOpens
<1>. QED  BY <1>4, <1>5

(* Counting a decision that fits keeps the bounds.                         *)
LEMMA CountStep ==
  ASSUME CounterBounds, TypeOK, NothingOpens,
         NEW d \in Decisions, Fits(d), Open(wk[d]),
         counter' = [counter EXCEPT ![wk[d]] = @ + Amount[d]],
         \A w \in Windows : Backed(w)' \subseteq
             IF w = wk[d] THEN Backed(w) \cup {d} ELSE Backed(w)
  PROVE  CounterBounds'
<1>. SUFFICES ASSUME NEW w \in Windows
             PROVE  /\ counter[w]' <= Limit
                    /\ Cents(Backed(w)') <= Limit
                    /\ Open(w)' => Cents(Backed(w)') <= counter[w]'
  BY DEF CounterBounds, Cents, Coins
<1>1. Cents(Backed(w)) \in Nat /\ Cents(Backed(w)') \in Nat
  BY CoinsFinite
<1>2. /\ counter[w] \in Nat /\ Limit \in Nat /\ Amount[d] \in Nat
      /\ wk[d] \in Windows
  BY ConstantsAssumption, AmountNat DEF TypeOK
<1>3. CASE w # wk[d]
  <2>1. counter[w]' = counter[w]
    BY <1>3 DEF TypeOK
  <2>2. Cents(Backed(w)') <= Cents(Backed(w))
    BY <1>3, CentsMonotone
  <2>. QED  BY <1>1, <1>2, <2>1, <2>2 DEF CounterBounds, NothingOpens
<1>4. CASE w = wk[d]
  <2>1. counter[w]' = counter[w] + Amount[d]
    BY <1>4 DEF TypeOK
  <2>2. Cents(Backed(w)') <= Cents(Backed(w) \cup {d})
    <3>1. Backed(w)' \subseteq Backed(w) \cup {d}
      BY <1>4
    <3>. QED  BY <3>1, CentsMonotone
  <2>3. Cents(Backed(w) \cup {d}) <= Cents(Backed(w)) + Amount[d]
    BY CentsAdd
  <2>4. Cents(Backed(w) \cup {d}) \in Nat
    BY CoinsFinite
  <2>5. counter[w] + Amount[d] <= Limit /\ Cents(Backed(w)) <= counter[w]
    BY <1>4 DEF Fits, CounterBounds
  <2>. QED  BY <1>1, <1>2, <2>1, <2>2, <2>3, <2>4, <2>5
<1>. QED  BY <1>3, <1>4

-----------------------------------------------------------------------------
(* Each step keeps the inductive invariant.                                *)

LEMMA InvInit == Init => IInv
<1>. SUFFICES ASSUME Init
             PROVE  IInv
  OBVIOUS
<1>1. TypeOK
  BY TypeInit
<1>2. Undisturbed /\ RowsAreReserved
  BY DEF Init, Undisturbed, RowsAreReserved, NoRebuild
<1>3. \A d \in Decisions : ~Owed(d)
  BY DEF Init, Owed, VoidOwes, NoCall
<1>4. ReleaseHasOneOwner
  BY <1>3 DEF ReleaseHasOneOwner, Owed
<1>5. ReleasedIsFinal
  BY DEF Init, ReleasedIsFinal
<1>6. CounterBounds
  <2>1. \A w \in Windows : Backed(w) = {}
    BY <1>3 DEF Init, Backed
  <2>2. Cents({}) = 0
    <3>1. Coins({}) = {}
      BY DEF Coins
    <3>. QED  BY <3>1, FS_EmptySet DEF Cents
  <2>3. \A w \in Windows : counter[w] = 0
    BY DEF Init
  <2>. QED  BY <2>1, <2>2, <2>3, ConstantsAssumption DEF CounterBounds
<1>. QED  BY <1>1, <1>2, <1>4, <1>5, <1>6 DEF IInv

(* Nothing is owed for a decision that has no row yet.                     *)
LEMMA OwedHasRow ==
  ASSUME ReleaseHasOneOwner, NEW d \in Decisions, ledger[d] \in {"none", "held", "captured"}
  PROVE  ~Owed(d)
BY DEF ReleaseHasOneOwner, Owed

LEMMA ReserveInv ==
  ASSUME IInv, Faults \subseteq Benign, NEW d \in Decisions, ReserveStep(d)
  PROVE  IInv'
<1>. USE DEF reserveUnchanged
<1>a. /\ TypeOK /\ Undisturbed /\ RowsAreReserved
      /\ ReleaseHasOneOwner /\ ReleasedIsFinal /\ CounterBounds
  BY DEF IInv
<1>b. /\ DOMAIN pc = Decisions /\ DOMAIN wk = Decisions
      /\ DOMAIN ledger = Decisions /\ DOMAIN released = Decisions
  BY <1>a DEF TypeOK
<1>1. TypeOK'
  BY <1>a, ReserveType
<1>2. /\ UNCHANGED <<win, call, batch, scan, rebuild>>
      /\ \A e \in Decisions : Owed(e)' <=> Owed(e)
  BY DEF ReserveStep, ReserveBegin, CounterReserve, CounterReserveFails, Place,
         PlaceFails, UndoReserve, ReserveCrash, Owed, VoidOwes
<1>3. Undisturbed'
  BY <1>a, <1>2 DEF Undisturbed
<1>4. /\ pc[d] \in {"new", "counter", "place", "undo"}
      /\ ledger[d] = "none" /\ ~Owed(d)
  <2>1. pc[d] \in {"new", "counter", "place", "undo"}
    BY DEF ReserveStep, ReserveBegin, CounterReserve, CounterReserveFails, Place,
           PlaceFails, UndoReserve, ReserveCrash
  <2>. QED  BY <1>a, <2>1, OwedHasRow DEF RowsAreReserved
<1>5. /\ \A e \in Decisions \ {d} :
            pc'[e] = pc[e] /\ wk'[e] = wk[e] /\ ledger'[e] = ledger[e]
            /\ released'[e] = released[e]
      /\ \/ ledger'[d] = "none"
         \/ ledger'[d] = "held" /\ pc'[d] = "WITHIN_LIMIT"
  <2>1. CASE ReserveBegin(d)
    BY <1>b, <1>4, <2>1 DEF ReserveBegin
  <2>2. CASE CounterReserve(d) \/ CounterReserveFails(d)
    BY <1>b, <1>4, <2>2 DEF CounterReserve, CounterReserveFails
  <2>3. CASE Place(d)
    BY <1>b, <1>4, <2>3 DEF Place
  <2>4. CASE PlaceFails(d)
    <3>1. UNCHANGED ledger
      BY <2>4 DEF PlaceFails, Benign
    <3>. QED  BY <1>b, <1>4, <2>4, <3>1 DEF PlaceFails
  <2>5. CASE UndoReserve(d)
    BY <1>b, <1>4, <2>5 DEF UndoReserve, Release, ReleaseFails
  <2>6. CASE ReserveCrash(d)
    BY <1>b, <1>4, <2>6 DEF ReserveCrash
  <2>. QED  BY <2>1, <2>2, <2>3, <2>4, <2>5, <2>6 DEF ReserveStep
<1>6. RowsAreReserved'
  BY <1>a, <1>5 DEF RowsAreReserved
<1>7. ReleaseHasOneOwner'
  BY <1>a, <1>2, <1>4, <1>5 DEF ReleaseHasOneOwner, VoidOwes, Owed
<1>8. ReleasedIsFinal'
  <2>1. released[d] = 0
    <3>1. pc[d] \notin Outcomes
      BY <1>4 DEF Outcomes
    <3>2. released[d] \in Nat /\ released[d] <= 1 /\ released[d] # 1
      BY <1>a, <3>1 DEF ReleasedIsFinal, TypeOK
    <3>. QED  BY <3>2
  <2>2. \/ released'[d] = 0
        \/ released'[d] = 1 /\ pc'[d] = "UNAVAILABLE" /\ ledger'[d] = "none"
    BY <1>b, <1>4, <2>1 DEF TypeOK, ReserveStep, ReserveBegin,
       CounterReserve, CounterReserveFails, Place, PlaceFails, UndoReserve,
       ReserveCrash, Release, ReleaseFails
  <2>. QED  BY <1>a, <1>2, <1>4, <1>5, <2>2 DEF ReleasedIsFinal, Outcomes
<1>9. NothingOpens
  BY <1>a, <1>5 DEF NothingOpens, Open, TypeOK, Windows, ReserveStep, ReserveBegin,
     CounterReserve, CounterReserveFails, Place, PlaceFails, UndoReserve, ReserveCrash
<1>10. \A e \in Decisions \ {d}, w \in Windows : e \in Backed(w)' <=> e \in Backed(w)
  BY <1>2, <1>5 DEF Backed
<1>11. CounterBounds'
  <2>1. CASE ReserveBegin(d)
    <3>1. BackedShrinks
      BY <1>b, <1>2, <1>4, <1>10, <2>1 DEF BackedShrinks, Backed, ReserveBegin
    <3>. QED  BY <1>a, <1>9, <2>1, <3>1, QuietStep DEF ReserveBegin
  <2>2. CASE CounterReserve(d) /\ Fits(d)
    <3>1. \A w \in Windows : Backed(w)' \subseteq
             IF w = wk[d] THEN Backed(w) \cup {d} ELSE Backed(w)
      BY <1>10, <2>2 DEF Backed, CounterReserve
    <3>2. Open(wk[d])
      BY <2>2 DEF Open, CounterReserve
    <3>. QED  BY <1>a, <1>9, <2>2, <3>1, <3>2, CountStep DEF CounterReserve
  <2>3. CASE CounterReserve(d) /\ ~Fits(d)
    <3>1. BackedShrinks
      BY <1>b, <1>2, <1>4, <1>10, <2>3 DEF BackedShrinks, Backed, CounterReserve
    <3>. QED  BY <1>a, <1>9, <2>3, <3>1, QuietStep DEF CounterReserve
  <2>4. CASE CounterReserveFails(d)
    <3>1. \A w \in Windows : Backed(w)' \subseteq Backed(w)
      BY <1>b, <1>2, <1>4, <1>10, <2>4 DEF Backed, CounterReserveFails
    <3>2. CASE UNCHANGED counter
      BY <1>a, <1>9, <3>1, <3>2, QuietStep DEF BackedShrinks
    <3>3. CASE Fits(d) /\ counter' = [counter EXCEPT ![wk[d]] = @ + Amount[d]]
      <4>1. Open(wk[d])
        BY <2>4 DEF Open, CounterReserveFails
      <4>2. \A w \in Windows : Backed(w)' \subseteq
               IF w = wk[d] THEN Backed(w) \cup {d} ELSE Backed(w)
        BY <3>1
      <4>. QED  BY <1>a, <1>9, <3>3, <4>1, <4>2, CountStep
    <3>. QED  BY <2>4, <3>2, <3>3 DEF CounterReserveFails
  <2>5. CASE Place(d) \/ PlaceFails(d) \/ ReserveCrash(d)
    <3>1. BackedShrinks
      BY <1>b, <1>2, <1>4, <1>10, <2>5
         DEF BackedShrinks, Backed, Place, PlaceFails, ReserveCrash, Benign
    <3>. QED  BY <1>a, <1>9, <2>5, <3>1, QuietStep DEF Place, PlaceFails, ReserveCrash
  <2>6. CASE UndoReserve(d)
    <3>1. BackedShrinks /\ \A w \in Windows : d \notin Backed(w)'
      BY <1>b, <1>2, <1>4, <1>10, <2>6 DEF BackedShrinks, Backed, UndoReserve
    <3>2. CASE Release(d)
      <4>1. d \in Backed(wk[d])
        BY <2>6 DEF Backed, UndoReserve
      <4>. QED  BY <1>a, <1>9, <3>1, <3>2, <4>1, ReleaseStep
    <3>3. CASE ReleaseFails
      BY <1>a, <1>9, <3>1, <3>3, QuietStep DEF ReleaseFails
    <3>. QED  BY <2>6, <3>2, <3>3 DEF UndoReserve
  <2>. QED
    BY <2>1, <2>2, <2>3, <2>4, <2>5, <2>6 DEF ReserveStep
<1>. QED  BY <1>1, <1>3, <1>6, <1>7, <1>8, <1>11 DEF IInv

(* What moving a call on, or ending it, does to the releases voids owe.    *)
LEMMA GotoOwes ==
  ASSUME TypeOK, NEW c \in Calls, NEW s, Goto(c, s), NEW b \in Calls, NEW e
  PROVE  VoidOwes(b, e)' <=>
           IF b = c THEN call[c].d = e /\ call[c].op = "void" /\ s \in {"confirm", "release"}
                    ELSE VoidOwes(b, e)
<1>1. call'[b] = IF b = c THEN [step |-> s, op |-> call[c].op, d |-> call[c].d]
                          ELSE call[b]
  BY DEF Goto, TypeOK
<1>. QED  BY <1>1 DEF VoidOwes

LEMMA HangupOwes ==
  ASSUME TypeOK, NEW c \in Calls, Hangup(c), NEW b \in Calls, NEW e
  PROVE  VoidOwes(b, e)' <=> b # c /\ VoidOwes(b, e)
<1>1. call'[b] = IF b = c THEN NoCall ELSE call[b]
  BY DEF Hangup, TypeOK
<1>. QED  BY <1>1 DEF VoidOwes, NoCall

(* A call that changes neither ledger nor counter, and takes on no release.*)
LEMMA FewerOwed ==
  ASSUME IInv, TypeOK',
         UNCHANGED <<win, pc, wk, batch, scan, rebuild, counter, ledger, released>>,
         \A b \in Calls, e \in Decisions : VoidOwes(b, e)' => VoidOwes(b, e)
  PROVE  IInv'
<1>a. /\ TypeOK /\ Undisturbed /\ RowsAreReserved
      /\ ReleaseHasOneOwner /\ ReleasedIsFinal /\ CounterBounds
  BY DEF IInv
<1>1. \A e \in Decisions : Owed(e)' => Owed(e)
  BY DEF Owed
<1>2. Undisturbed' /\ RowsAreReserved'
  BY <1>a DEF Undisturbed, RowsAreReserved
<1>3. ReleaseHasOneOwner'
  BY <1>a DEF ReleaseHasOneOwner
<1>4. ReleasedIsFinal'
  BY <1>a, <1>1 DEF ReleasedIsFinal
<1>5. NothingOpens
  BY DEF NothingOpens, Open
<1>6. BackedShrinks
  BY <1>1 DEF BackedShrinks, Backed
<1>7. CounterBounds'
  BY <1>a, <1>5, <1>6, QuietStep
<1>. QED  BY <1>2, <1>3, <1>4, <1>7 DEF IInv

(* The UPDATE that voids a held row: its release is now owed by this call. *)
LEMMA VoidUpdateInv ==
  ASSUME IInv, TypeOK', NEW c \in Calls, CallUpdate(c), call[c].op = "void",
         ledger[call[c].d] = "held"
  PROVE  IInv'
<1>. DEFINE d == call[c].d
<1>a. /\ TypeOK /\ Undisturbed /\ RowsAreReserved
      /\ ReleaseHasOneOwner /\ ReleasedIsFinal /\ CounterBounds
  BY DEF IInv
<1>1. d \in Decisions
  BY <1>a, CallIsActive DEF CallUpdate, CallSteps
<1>2. UNCHANGED <<win, pc, wk, batch, scan, rebuild, counter, released>>
  BY DEF CallUpdate, callUnchanged
<1>3. \A e \in Decisions : ledger'[e] = IF e = d THEN "voided" ELSE ledger[e]
  BY <1>a DEF CallUpdate, TypeOK
<1>4. \A b \in Calls, e \in Decisions :
         VoidOwes(b, e)' <=> (b = c /\ e = d) \/ (b # c /\ VoidOwes(b, e))
  <2>1. Goto(c, "confirm")
    BY DEF CallUpdate
  <2>. QED  BY <1>a, <2>1, GotoOwes
<1>5. ~Owed(d)
  BY <1>a, <1>1, OwedHasRow
<1>6. /\ \A e \in Decisions : e # d /\ Owed(e)' => Owed(e)
  BY <1>2, <1>4 DEF Owed
<1>7. Undisturbed' /\ RowsAreReserved'
  BY <1>a, <1>2, <1>3 DEF Undisturbed, RowsAreReserved
<1>8. ReleaseHasOneOwner'
  BY <1>a, <1>2, <1>3, <1>4, <1>5 DEF ReleaseHasOneOwner, Owed
<1>9. ReleasedIsFinal'
  <2>1. released[d] # 1
    BY <1>a, <1>1 DEF ReleasedIsFinal
  <2>. QED  BY <1>a, <1>2, <1>3, <1>6, <2>1 DEF ReleasedIsFinal
<1>10. NothingOpens
  BY <1>2 DEF NothingOpens, Open
<1>11. BackedShrinks
  BY <1>2, <1>3, <1>6 DEF BackedShrinks, Backed
<1>12. CounterBounds'
  BY <1>a, <1>2, <1>10, <1>11, QuietStep
<1>. QED  BY <1>7, <1>8, <1>9, <1>12 DEF IInv

(* The other ledger writes of calls - held to captured, expired to voided  *)
(* - neither add to the spend nor touch a release that is owed.            *)
LEMMA LedgerUpdateInv ==
  ASSUME IInv, TypeOK', NEW c \in Calls, NEW d \in Decisions, NEW s,
         UNCHANGED <<win, pc, wk, batch, scan, rebuild, counter, released>>,
         \A b \in Calls, e \in Decisions : VoidOwes(b, e)' => VoidOwes(b, e),
         ledger' = [ledger EXCEPT ![d] = s],
         \/ ledger[d] = "held" /\ s = "captured"
         \/ ledger[d] = "expired" /\ s = "voided"
  PROVE  IInv'
<1>a. /\ TypeOK /\ Undisturbed /\ RowsAreReserved
      /\ ReleaseHasOneOwner /\ ReleasedIsFinal /\ CounterBounds
  BY DEF IInv
<1>1. \A e \in Decisions : ledger'[e] = IF e = d THEN s ELSE ledger[e]
  BY <1>a DEF TypeOK
<1>2. \A e \in Decisions : Owed(e)' => Owed(e)
  BY DEF Owed
<1>3. Undisturbed' /\ RowsAreReserved'
  BY <1>a, <1>1 DEF Undisturbed, RowsAreReserved
<1>4. ReleaseHasOneOwner'
  BY <1>a, <1>1 DEF ReleaseHasOneOwner
<1>5. ReleasedIsFinal'
  BY <1>a, <1>1, <1>2 DEF ReleasedIsFinal
<1>6. NothingOpens
  BY DEF NothingOpens, Open
<1>7. BackedShrinks
  BY <1>1, <1>2 DEF BackedShrinks, Backed
<1>8. CounterBounds'
  BY <1>a, <1>6, <1>7, QuietStep
<1>. QED  BY <1>3, <1>4, <1>5, <1>8 DEF IInv

LEMMA VoidReleaseInv ==
  ASSUME IInv, TypeOK', NEW c \in Calls, VoidRelease(c)
  PROVE  IInv'
<1>. DEFINE d == call[c].d
<1>a. /\ TypeOK /\ Undisturbed /\ RowsAreReserved
      /\ ReleaseHasOneOwner /\ ReleasedIsFinal /\ CounterBounds
  BY DEF IInv
<1>1. d \in Decisions /\ VoidOwes(c, d) /\ Owed(d)
  BY <1>a, CallIsActive DEF VoidRelease, CallSteps, VoidOwes, Owed
<1>2. UNCHANGED <<win, pc, wk, batch, scan, rebuild, ledger>>
  BY DEF VoidRelease, callUnchanged
<1>3. \A b \in Calls, e \in Decisions : VoidOwes(b, e)' <=> b # c /\ VoidOwes(b, e)
  BY <1>a, HangupOwes DEF VoidRelease
<1>4. CASE ReleaseFails
  BY <1>2, <1>3, <1>4, FewerOwed DEF ReleaseFails
<1>5. CASE Release(d)
  <2>1. \A e \in Decisions : Owed(e)' => Owed(e) /\ e # d
    BY <1>a, <1>1, <1>2, <1>3 DEF Owed, ReleaseHasOneOwner
  <2>2. Undisturbed' /\ RowsAreReserved'
    BY <1>a, <1>2 DEF Undisturbed, RowsAreReserved
  <2>3. ReleaseHasOneOwner'
    BY <1>a, <1>2, <1>3 DEF ReleaseHasOneOwner
  <2>4. ledger[d] = "voided" /\ pc[d] = "WITHIN_LIMIT" /\ released[d] = 0
    <3>1. ledger[d] = "voided" /\ pc[d] = "WITHIN_LIMIT"
      BY <1>a, <1>1 DEF ReleaseHasOneOwner, RowsAreReserved
    <3>2. released[d] \in Nat /\ released[d] <= 1 /\ released[d] # 1
      BY <1>a, <1>1 DEF ReleasedIsFinal, TypeOK
    <3>. QED  BY <3>1, <3>2
  <2>5. \A e \in Decisions : released'[e] = IF e = d THEN 1 ELSE released[e]
    BY <1>a, <1>5, <2>4 DEF Release, TypeOK
  <2>6. ReleasedIsFinal'
    BY <1>a, <1>2, <2>1, <2>4, <2>5 DEF ReleasedIsFinal, Outcomes
  <2>7. NothingOpens
    BY <1>2 DEF NothingOpens, Open
  <2>8. BackedShrinks
    BY <1>2, <2>1 DEF BackedShrinks, Backed
  <2>9. d \in Backed(wk[d]) /\ \A w \in Windows : d \notin Backed(w)'
    BY <1>1, <1>2, <2>1, <2>4 DEF Backed
  <2>10. CounterBounds'
    BY <1>a, <1>1, <1>5, <2>7, <2>8, <2>9, ReleaseStep
  <2>. QED  BY <2>2, <2>3, <2>6, <2>10 DEF IInv
<1>. QED  BY <1>4, <1>5 DEF VoidRelease

LEMMA CallInv ==
  ASSUME IInv, NEW c \in Calls, CallStep(c) \/ CallFails(c)
  PROVE  IInv'
<1>. USE DEF callUnchanged
<1>a. TypeOK
  BY DEF IInv
<1>b. TypeOK'
  BY <1>a, CallType
<1>1. CASE CaptureGet(c)
  <2>1. \A b \in Calls, e \in Decisions : VoidOwes(b, e)' => VoidOwes(b, e)
    BY <1>a, <1>1, GotoOwes, HangupOwes DEF CaptureGet
  <2>. QED  BY <1>b, <1>1, <2>1, FewerOwed DEF CaptureGet
<1>2. CASE VoidGet(c)
  <2>1. \A b \in Calls, e \in Decisions : VoidOwes(b, e)' => VoidOwes(b, e)
    BY <1>a, <1>2, GotoOwes, HangupOwes DEF VoidGet
  <2>. QED  BY <1>b, <1>2, <2>1, FewerOwed DEF VoidGet
<1>3. CASE CallUpdate(c) /\ ledger[call[c].d] # "held"
  <2>1. \A b \in Calls, e \in Decisions : VoidOwes(b, e)' => VoidOwes(b, e)
    BY <1>a, <1>3, GotoOwes DEF CallUpdate
  <2>. QED  BY <1>b, <1>3, <2>1, FewerOwed DEF CallUpdate
<1>4. CASE CallUpdate(c) /\ ledger[call[c].d] = "held" /\ call[c].op = "void"
  BY <1>b, <1>4, VoidUpdateInv
<1>5. CASE CallUpdate(c) /\ ledger[call[c].d] = "held" /\ call[c].op # "void"
  <2>1. call[c].d \in Decisions /\ call[c].op = "capture"
    BY <1>a, <1>5, CallIsActive DEF CallUpdate, CallSteps
  <2>2. \A b \in Calls, e \in Decisions : VoidOwes(b, e)' => VoidOwes(b, e)
    BY <1>a, <1>5, GotoOwes DEF CallUpdate
  <2>3. ledger' = [ledger EXCEPT ![call[c].d] = "captured"]
    BY <1>5, <2>1 DEF CallUpdate
  <2>. QED  BY <1>b, <1>5, <2>1, <2>2, <2>3, LedgerUpdateInv DEF CallUpdate
<1>6. CASE VoidRecord(c)
  <2>1. call[c].d \in Decisions
    BY <1>a, <1>6, CallIsActive DEF VoidRecord, CallSteps
  <2>2. \A b \in Calls, e \in Decisions : VoidOwes(b, e)' => VoidOwes(b, e)
    BY <1>a, <1>6, GotoOwes DEF VoidRecord
  <2>3. CASE ledger[call[c].d] = "expired"
    BY <1>b, <1>6, <2>1, <2>2, <2>3, LedgerUpdateInv DEF VoidRecord
  <2>4. CASE ledger[call[c].d] # "expired"
    BY <1>b, <1>6, <2>2, <2>4, FewerOwed DEF VoidRecord
  <2>. QED  BY <2>3, <2>4
<1>7. CASE VoidReport(c)
  <2>1. \A b \in Calls, e \in Decisions : VoidOwes(b, e)' => VoidOwes(b, e)
    BY <1>a, <1>7, HangupOwes DEF VoidReport
  <2>. QED  BY <1>b, <1>7, <2>1, FewerOwed DEF VoidReport
<1>8. CASE CallConfirm(c)
  <2>1. \A b \in Calls, e \in Decisions : VoidOwes(b, e)' => VoidOwes(b, e)
    <3>1. \A b \in Calls, e \in Decisions : b # c /\ VoidOwes(b, e)' => VoidOwes(b, e)
      BY <1>a, <1>8, GotoOwes, HangupOwes DEF CallConfirm
    <3>2. \A e \in Decisions : VoidOwes(c, e)' => VoidOwes(c, e)
      BY <1>a, <1>8, GotoOwes, HangupOwes DEF CallConfirm, VoidOwes
    <3>. QED  BY <3>1, <3>2
  <2>. QED  BY <1>b, <1>8, <2>1, FewerOwed DEF CallConfirm
<1>9. CASE VoidRelease(c)
  BY <1>b, <1>9, VoidReleaseInv
<1>10. CASE CallFails(c)
  <2>1. \A b \in Calls, e \in Decisions : VoidOwes(b, e)' => VoidOwes(b, e)
    BY <1>a, <1>10, HangupOwes DEF CallFails
  <2>. QED  BY <1>b, <1>10, <2>1, FewerOwed DEF CallFails
<1>. QED
  BY <1>1, <1>2, <1>3, <1>4, <1>5, <1>6, <1>7, <1>8, <1>9, <1>10 DEF CallStep

LEMMA StartCallInv ==
  ASSUME IInv, NEW c \in Calls, NEW op \in {"capture", "void"},
         NEW d \in Decisions, StartCall(c, op, d)
  PROVE  IInv'
<1>a. TypeOK
  BY DEF IInv
<1>b. TypeOK'
  BY <1>a, StartCallType
<1>1. \A b \in Calls : call'[b] = IF b = c THEN [step |-> "get", op |-> op, d |-> d]
                                   ELSE call[b]
  BY <1>a DEF StartCall, TypeOK
<1>2. \A b \in Calls, e \in Decisions : VoidOwes(b, e)' => VoidOwes(b, e)
  BY <1>1 DEF VoidOwes
<1>. QED  BY <1>b, <1>2, FewerOwed DEF StartCall, callUnchanged

LEMMA ReconcilerInv ==
  ASSUME IInv, Faults \subseteq Benign, NEW r \in Reconcilers,
         ReconcilerStep(r) \/ RebuildStep(r) \/ ReconcilerCrash(r)
  PROVE  IInv'
<1>. USE DEF reconcilerUnchanged
<1>a. /\ TypeOK /\ Undisturbed /\ RowsAreReserved
      /\ ReleaseHasOneOwner /\ ReleasedIsFinal /\ CounterBounds
  BY DEF IInv
<1>b. TypeOK'
  BY <1>a, ReconcilerType
<1>c. DOMAIN batch = Reconcilers /\ DOMAIN ledger = Decisions
  BY <1>a DEF TypeOK
<1>1. CASE ExpireDue(r)
  <2>1. PICK B \in SUBSET Decisions :
           /\ DueBatch(B)
           /\ ledger' = Expired(B)
           /\ batch' = [batch EXCEPT ![r] = B]
    BY <1>1 DEF ExpireDue
  <2>2. UNCHANGED <<win, pc, wk, call, scan, rebuild, counter, released>>
    BY <1>1 DEF ExpireDue
  <2>3. /\ \A e \in B : ledger[e] = "held" /\ ~Owed(e)
        /\ batch[r] = {}
    BY <1>a, <1>1, <2>1, OwedHasRow DEF ExpireDue, DueBatch, DueHolds, Idle
  <2>4. \A e \in Decisions : ledger'[e] = IF e \in B THEN "expired" ELSE ledger[e]
    BY <2>1 DEF Expired
  <2>5. \A q \in Reconcilers : batch'[q] = IF q = r THEN B ELSE batch[q]
    BY <1>c, <2>1
  <2>6. \A c \in Calls, e \in Decisions : VoidOwes(c, e)' <=> VoidOwes(c, e)
    BY <2>2 DEF VoidOwes
  <2>7. \A e \in Decisions : Owed(e)' => e \in B \/ Owed(e)
    BY <2>5, <2>6 DEF Owed
  <2>8. Undisturbed' /\ RowsAreReserved'
    BY <1>a, <2>2, <2>3, <2>4 DEF Undisturbed, RowsAreReserved
  <2>9. ReleaseHasOneOwner'
    BY <1>a, <2>3, <2>4, <2>5, <2>6 DEF ReleaseHasOneOwner, Owed
  <2>10. ReleasedIsFinal'
    BY <1>a, <2>2, <2>3, <2>4, <2>7 DEF ReleasedIsFinal
  <2>11. NothingOpens
    BY <2>2 DEF NothingOpens, Open
  <2>12. BackedShrinks
    BY <2>2, <2>3, <2>4, <2>7 DEF BackedShrinks, Backed
  <2>13. CounterBounds'
    BY <1>a, <2>2, <2>11, <2>12, QuietStep
  <2>. QED  BY <1>b, <2>8, <2>9, <2>10, <2>13 DEF IInv
<1>2. ~ExpireDueSelect(r) /\ ~ExpireDueUpdate(r) /\ ~RebuildStep(r)
  BY <1>a DEF Benign, Undisturbed, ExpireDueSelect, ExpireDueUpdate, RebuildStep,
              RebuildList, RebuildSet
<1>3. ASSUME NEW d \in Decisions, ReleaseExpired(r, d)
      PROVE  IInv'
  <2>1. UNCHANGED <<win, pc, wk, call, scan, rebuild, ledger>>
    BY <1>3 DEF ReleaseExpired
  <2>2. \A q \in Reconcilers : batch'[q] = IF q = r THEN batch[q] \ {d} ELSE batch[q]
    BY <1>3, <1>c DEF ReleaseExpired
  <2>3. \A c \in Calls, e \in Decisions : VoidOwes(c, e)' <=> VoidOwes(c, e)
    BY <2>1 DEF VoidOwes
  <2>4. d \in batch[r] /\ Owed(d)
    BY <1>3 DEF ReleaseExpired, Owed
  <2>5. \A e \in Decisions : Owed(e)' => Owed(e) /\ e # d
    <3>1. \A e \in Decisions : Owed(e)' => Owed(e)
      BY <2>2, <2>3 DEF Owed
    <3>2. \A c \in Calls : ~VoidOwes(c, d)
      BY <1>a, <2>4 DEF ReleaseHasOneOwner
    <3>3. \A q \in Reconcilers : d \in batch[q] => q = r
      BY <1>a, <2>4 DEF ReleaseHasOneOwner
    <3>4. \A q \in Reconcilers : d \notin batch'[q]
      BY <2>2, <3>3
    <3>5. ~Owed(d)'
      BY <2>3, <3>2, <3>4 DEF Owed
    <3>. QED  BY <3>1, <3>5
  <2>6. Undisturbed' /\ RowsAreReserved'
    BY <1>a, <2>1 DEF Undisturbed, RowsAreReserved
  <2>7. ReleaseHasOneOwner'
    BY <1>a, <2>1, <2>2, <2>3 DEF ReleaseHasOneOwner
  <2>8. /\ ledger[d] \in {"expired", "voided"} /\ pc[d] = "WITHIN_LIMIT"
        /\ released[d] = 0
    <3>1. ledger[d] \in {"expired", "voided"} /\ pc[d] = "WITHIN_LIMIT"
      BY <1>a, <2>4 DEF ReleaseHasOneOwner, RowsAreReserved
    <3>2. released[d] \in Nat /\ released[d] <= 1 /\ released[d] # 1
      BY <1>a, <2>4 DEF ReleasedIsFinal, TypeOK
    <3>. QED  BY <3>1, <3>2
  <2>9. NothingOpens
    BY <2>1 DEF NothingOpens, Open
  <2>10. BackedShrinks
    BY <2>1, <2>5 DEF BackedShrinks, Backed
  <2>11. CASE ReleaseFails
    <3>1. ReleasedIsFinal'
      BY <1>a, <2>1, <2>5, <2>11 DEF ReleasedIsFinal, ReleaseFails
    <3>2. CounterBounds'
      BY <1>a, <2>9, <2>10, <2>11, QuietStep DEF ReleaseFails
    <3>. QED  BY <1>b, <2>6, <2>7, <3>1, <3>2 DEF IInv
  <2>12. CASE Release(d)
    <3>1. \A e \in Decisions : released'[e] = IF e = d THEN 1 ELSE released[e]
      BY <1>a, <2>8, <2>12 DEF Release, TypeOK
    <3>2. ReleasedIsFinal'
      BY <1>a, <2>1, <2>5, <2>8, <3>1 DEF ReleasedIsFinal, Outcomes
    <3>3. d \in Backed(wk[d]) /\ \A w \in Windows : d \notin Backed(w)'
      BY <2>1, <2>4, <2>5, <2>8 DEF Backed
    <3>4. CounterBounds'
      BY <1>a, <2>9, <2>10, <2>12, <3>3, ReleaseStep
    <3>. QED  BY <1>b, <2>6, <2>7, <3>2, <3>4 DEF IInv
  <2>. QED  BY <1>3, <2>11, <2>12 DEF ReleaseExpired
<1>4. CASE ReconcilerCrash(r)
  <2>1. UNCHANGED <<win, pc, wk, call, scan, rebuild, counter, ledger, released>>
    BY <1>4 DEF ReconcilerCrash
  <2>2. \A q \in Reconcilers : batch'[q] \subseteq batch[q]
    BY <1>4, <1>c DEF ReconcilerCrash
  <2>3. \A c \in Calls, e \in Decisions : VoidOwes(c, e)' <=> VoidOwes(c, e)
    BY <2>1 DEF VoidOwes
  <2>4. \A e \in Decisions : Owed(e)' => Owed(e)
    BY <2>2, <2>3 DEF Owed
  <2>5. Undisturbed' /\ RowsAreReserved' /\ ReleasedIsFinal'
    BY <1>a, <2>1, <2>4 DEF Undisturbed, RowsAreReserved, ReleasedIsFinal
  <2>6. ReleaseHasOneOwner'
    BY <1>a, <2>1, <2>2, <2>3 DEF ReleaseHasOneOwner
  <2>7. NothingOpens /\ BackedShrinks
    BY <2>1, <2>4 DEF NothingOpens, Open, BackedShrinks, Backed
  <2>8. CounterBounds'
    BY <1>a, <2>1, <2>7, QuietStep
  <2>. QED  BY <1>b, <2>5, <2>6, <2>8 DEF IInv
<1>. QED  BY <1>1, <1>2, <1>3, <1>4 DEF ReconcilerStep

LEMMA ClockInv ==
  ASSUME IInv, Faults \subseteq Benign, Clock
  PROVE  IInv'
<1>. USE DEF clockUnchanged
<1>a. /\ TypeOK /\ Undisturbed /\ RowsAreReserved
      /\ ReleaseHasOneOwner /\ ReleasedIsFinal /\ CounterBounds
  BY DEF IInv
<1>b. TypeOK'
  BY <1>a, ClockType
<1>1. UNCHANGED <<pc, wk, ledger, call, batch, scan, rebuild, released>>
  BY DEF Clock, TTLElapses, Rollover, CounterExpires, CounterLost
<1>2. /\ \A c \in Calls, e \in Decisions : VoidOwes(c, e)' <=> VoidOwes(c, e)
      /\ \A e \in Decisions : Owed(e)' <=> Owed(e)
      /\ \A w \in Windows : Backed(w)' = Backed(w)
  BY <1>1 DEF VoidOwes, Owed, Backed
<1>3. Undisturbed' /\ RowsAreReserved' /\ ReleasedIsFinal'
  BY <1>a, <1>1, <1>2 DEF Undisturbed, RowsAreReserved, ReleasedIsFinal
<1>4. ReleaseHasOneOwner'
  BY <1>a, <1>1, <1>2 DEF ReleaseHasOneOwner
<1>5. NothingOpens
  BY <1>a, <1>1 DEF NothingOpens, Open, Clock, TTLElapses, Rollover, CounterExpires,
     CounterLost, TypeOK, Windows
<1>6. CounterBounds'
  <2>1. CASE UNCHANGED counter
    BY <1>a, <1>2, <1>5, <2>1, QuietStep DEF BackedShrinks
  <2>2. ASSUME NEW w \in Windows, CounterExpires(w)
        PROVE  CounterBounds'
    <3>. SUFFICES ASSUME NEW v \in Windows
                 PROVE  /\ counter[v]' <= Limit
                        /\ Cents(Backed(v)') <= Limit
                        /\ Open(v)' => Cents(Backed(v)') <= counter[v]'
      BY DEF CounterBounds, Cents, Coins
    <3>1. ~Open(w) /\ counter[v]' = IF v = w THEN 0 ELSE counter[v]
      BY <1>a, <2>2 DEF CounterExpires, TypeOK
    <3>2. Limit \in Nat /\ 0 <= Limit
      BY ConstantsAssumption
    <3>. QED  BY <1>a, <1>2, <1>5, <3>1, <3>2 DEF CounterBounds, NothingOpens
  <2>3. ~CounterLost
    BY DEF CounterLost, Benign
  <2>. QED  BY <2>1, <2>2, <2>3 DEF Clock, TTLElapses, Rollover
<1>. QED  BY <1>b, <1>3, <1>4, <1>6 DEF IInv

LEMMA InvNext ==
  ASSUME Faults \subseteq Benign
  PROVE  IInv /\ [Next]_vars => IInv'
<1>. SUFFICES ASSUME IInv, [Next]_vars
             PROVE  IInv'
  OBVIOUS
<1>1. CASE Next
  BY <1>1, ReserveInv, CallInv, StartCallInv, ReconcilerInv, ClockInv DEF Next
<1>2. CASE UNCHANGED vars
  <2>1. TypeOK /\ TypeOK'
    BY <1>2, TypeNext DEF IInv
  <2>2. \A b \in Calls, e \in Decisions : VoidOwes(b, e)' => VoidOwes(b, e)
    BY <1>2 DEF vars, VoidOwes
  <2>. QED  BY <1>2, <2>1, <2>2, FewerOwed DEF vars
<1>. QED  BY <1>1, <1>2

LEMMA Invariance ==
  ASSUME Faults \subseteq Benign
  PROVE  Spec => []IInv
BY InvInit, InvNext, PTL DEF Spec

(* Crashes, lost answers and failing stores only ever leave the counter    *)
(* too high: while a window is open it covers every reservation in flight, *)
(* every held or captured row and every release still owed.                *)
THEOREM CounterCovers ==
  ASSUME Faults \subseteq Benign
  PROVE  Spec => []CounterCoversLedger
<1>1. IInv => CounterCoversLedger
  BY DEF IInv, CounterBounds, CounterCoversLedger
<1>. QED  BY <1>1, Invariance, PTL

(* The budget is a hard cap: for any number of requests, calls and         *)
(* reconcilers, any amounts and any limit, the held and captured rows of a *)
(* window never sum to more than the limit.                                *)
THEOREM BudgetIsHardCap ==
  ASSUME Faults \subseteq Benign
  PROVE  Spec => []NoOversell
<1>1. IInv => NoOversell
  <2>. SUFFICES ASSUME IInv, NEW w \in Windows
               PROVE  Cents(ActiveIn(w)) <= Limit
    BY DEF NoOversell
  <2>1. ActiveIn(w) \subseteq Backed(w)
    BY DEF ActiveIn, Backed
  <2>2. Cents(ActiveIn(w)) <= Cents(Backed(w)) /\ Cents(Backed(w)) <= Limit
    BY <2>1, CentsMonotone DEF IInv, CounterBounds
  <2>3. /\ Cents(ActiveIn(w)) \in Nat /\ Cents(Backed(w)) \in Nat
        /\ Limit \in Nat
    BY CoinsFinite, ConstantsAssumption
  <2>. QED  BY <2>2, <2>3
<1>. QED  BY <1>1, Invariance, PTL

(* Undo, void and expiry never release the same amount twice, nor one that *)
(* is still held or captured; a release is owed by one process at most.    *)
THEOREM ReleasesAreExclusive ==
  ASSUME Faults \subseteq Benign
  PROVE  Spec => [](ReleasedAtMostOnce /\ ReleaseHasOneOwner)
<1>1. IInv => ReleasedAtMostOnce /\ ReleaseHasOneOwner
  BY DEF IInv, ReleasedIsFinal, ReleasedAtMostOnce
<1>. QED  BY <1>1, Invariance, PTL

-----------------------------------------------------------------------------
(* The rows, under every fault.                                            *)

PastPlace(d) == pc[d] \notin {"new", "counter", "place"}

(* A row belongs to a request that is past Place, and so does everything   *)
(* that is done to rows.                                                   *)
RowInv ==
    /\ TypeOK
    /\ \A d \in Decisions : ledger[d] # "none" => PastPlace(d)
    /\ \A d \in Decisions : released[d] # 0 => PastPlace(d)
    /\ \A c \in Calls : call[c].step \in {"confirm", "release"} => ledger[call[c].d] # "none"
    /\ \A r \in Reconcilers : \A d \in batch[r] \cup scan[r] : ledger[d] # "none"

(* Rows are never deleted, and requests never go back.                     *)
RowsStay == \A d \in Decisions :
    /\ ledger[d] # "none" => ledger'[d] # "none"
    /\ PastPlace(d) => PastPlace(d)'

(* A step keeps the invariant if it adds only such rows, releases and      *)
(* claims to them.                                                         *)
LEMMA RowStep ==
  ASSUME RowInv, TypeOK', RowsStay,
         \A d \in Decisions : ledger'[d] # "none" => ledger[d] # "none" \/ PastPlace(d)',
         \A d \in Decisions : released'[d] # 0 => released[d] # 0 \/ PastPlace(d)',
         \A c \in Calls : call'[c] = call[c] \/
            (call'[c].step \in {"confirm", "release"} => ledger'[call'[c].d] # "none"),
         \A r \in Reconcilers : \A d \in batch'[r] \cup scan'[r] :
            d \in batch[r] \cup scan[r] \/ ledger'[d] # "none"
  PROVE  RowInv'
<1>1. \A c \in Calls : call'[c].step \in {"confirm", "release"} => ledger'[call'[c].d] # "none"
  <2>1. \A c \in Calls : call[c].step \in {"confirm", "release"} =>
           call[c].d \in Decisions /\ ledger[call[c].d] # "none"
    BY CallIsActive DEF RowInv, CallSteps
  <2>. QED  BY <2>1 DEF RowsStay
<1>2. \A r \in Reconcilers : \A d \in batch'[r] \cup scan'[r] : ledger'[d] # "none"
  <2>1. \A r \in Reconcilers : batch'[r] \cup scan'[r] \subseteq Decisions
    BY DEF TypeOK
  <2>. QED  BY <2>1 DEF RowInv, RowsStay
<1>3. \A d \in Decisions : /\ ledger'[d] # "none" => PastPlace(d)'
                           /\ released'[d] # 0 => PastPlace(d)'
  BY DEF RowInv, RowsStay
<1>. QED  BY <1>1, <1>2, <1>3 DEF RowInv

LEMMA ReserveRows ==
  ASSUME RowInv, NEW d \in Decisions, ReserveStep(d)
  PROVE  RowInv' /\ RowsStay
<1>. USE DEF reserveUnchanged
<1>a. TypeOK /\ TypeOK'
  BY ReserveType DEF RowInv
<1>1. UNCHANGED <<call, batch, scan>> /\ pc[d] \in {"new", "counter", "place", "undo"}
  BY DEF ReserveStep, ReserveBegin, CounterReserve, CounterReserveFails, Place, PlaceFails,
         UndoReserve, ReserveCrash
<1>2. /\ \A e \in Decisions \ {d} : pc'[e] = pc[e]
      /\ PastPlace(d) => PastPlace(d)'
  BY <1>a DEF ReserveStep, ReserveBegin, CounterReserve, CounterReserveFails, Place, PlaceFails,
         UndoReserve, ReserveCrash, TypeOK, PastPlace
<1>3. \/ UNCHANGED ledger
      \/ ledger' = [ledger EXCEPT ![d] = "held"] /\ PastPlace(d)'
  BY <1>a DEF ReserveStep, ReserveBegin, CounterReserve, CounterReserveFails, Place, PlaceFails,
         UndoReserve, ReserveCrash, TypeOK, PastPlace
<1>4. \/ UNCHANGED released
      \/ released' = [released EXCEPT ![d] = @ + 1] /\ PastPlace(d)'
  BY <1>a DEF ReserveStep, ReserveBegin, CounterReserve, CounterReserveFails, Place, PlaceFails,
         UndoReserve, ReserveCrash, TypeOK, PastPlace, Release, ReleaseFails
<1>5. RowsStay
  <2>1. \A e \in Decisions : ledger'[e] = ledger[e] \/ ledger'[e] = "held"
    BY <1>a, <1>3 DEF TypeOK
  <2>. QED  BY <1>2, <2>1 DEF RowsStay, PastPlace
<1>6. /\ \A e \in Decisions : ledger'[e] # "none" => ledger[e] # "none" \/ PastPlace(e)'
      /\ \A e \in Decisions : released'[e] # 0 => released[e] # 0 \/ PastPlace(e)'
  BY <1>a, <1>3, <1>4 DEF TypeOK
<1>. QED  BY <1>a, <1>1, <1>5, <1>6, RowStep

LEMMA CallRows ==
  ASSUME RowInv, NEW c \in Calls, CallStep(c) \/ CallFails(c)
  PROVE  RowInv' /\ RowsStay
<1>. USE DEF callUnchanged
<1>. DEFINE d == call[c].d
<1>a. TypeOK /\ TypeOK'
  BY CallType DEF RowInv
<1>b. call[c].step \in CallSteps /\ d \in Decisions
  <2>1. call[c].step \in CallSteps
    BY DEF CallStep, CaptureGet, VoidGet, CallUpdate, VoidRecord, VoidReport, CallConfirm,
           VoidRelease, CallFails, CallSteps
  <2>. QED  BY <2>1, <1>a, CallIsActive
<1>1. UNCHANGED <<pc, batch, scan>>
  BY DEF CallStep, CaptureGet, VoidGet, CallUpdate, VoidRecord, VoidReport, CallConfirm,
         VoidRelease, CallFails
<1>2. \/ UNCHANGED ledger
      \/ ledger[d] # "none" /\ \E s \in {"captured", "voided"} : ledger' = [ledger EXCEPT ![d] = s]
  BY DEF CallStep, CaptureGet, VoidGet, CallUpdate, VoidRecord, VoidReport, CallConfirm,
         VoidRelease, CallFails
<1>3. RowsStay /\ \A e \in Decisions : ledger'[e] # "none" => ledger[e] # "none"
  BY <1>a, <1>1, <1>2 DEF RowsStay, PastPlace, TypeOK
<1>4. \/ UNCHANGED released
      \/ released' = [released EXCEPT ![d] = @ + 1] /\ ledger[d] # "none"
  <2>1. CASE VoidRelease(c)
    BY <2>1 DEF VoidRelease, Release, ReleaseFails, RowInv
  <2>2. CASE ~VoidRelease(c)
    BY <2>2 DEF CallStep, CaptureGet, VoidGet, CallUpdate, VoidRecord, VoidReport, CallConfirm,
           CallFails
  <2>. QED  BY <2>1, <2>2
<1>5. \A e \in Decisions : released'[e] # 0 => released[e] # 0 \/ PastPlace(e)'
  BY <1>a, <1>b, <1>1, <1>4 DEF TypeOK, RowInv, PastPlace
<1>6. \/ Hangup(c) \/ Goto(c, "get") \/ Goto(c, "update") \/ Goto(c, "record") \/ Goto(c, "report")
      \/ (Goto(c, "confirm") \/ Goto(c, "release")) /\ ledger[d] # "none"
  <2>1. CASE CallConfirm(c)
    BY <2>1 DEF CallConfirm, RowInv
  <2>2. CASE ~CallConfirm(c)
    BY <2>2 DEF CallStep, CaptureGet, VoidGet, CallUpdate, VoidRecord, VoidReport,
           VoidRelease, CallFails
  <2>. QED  BY <2>1, <2>2
<1>7. \A b \in Calls : call'[b] = call[b] \/
         (call'[b].step \in {"confirm", "release"} => ledger'[call'[b].d] # "none")
  <2>1. \A b \in Calls \ {c} : call'[b] = call[b]
    BY <1>a, <1>6 DEF TypeOK, Hangup, Goto
  <2>2. CASE Hangup(c)
    BY <1>a, <2>1, <2>2 DEF TypeOK, Hangup, NoCall
  <2>3. ASSUME NEW s, Goto(c, s)  PROVE call'[c].step = s /\ call'[c].d = d
    BY <1>a, <2>3 DEF TypeOK, Goto
  <2>. QED  BY <1>b, <1>3, <1>6, <2>1, <2>2, <2>3 DEF RowsStay
<1>. QED  BY <1>a, <1>1, <1>3, <1>5, <1>7, RowStep

LEMMA ReconcilerRows ==
  ASSUME RowInv, NEW r \in Reconcilers,
         ReconcilerStep(r) \/ RebuildStep(r) \/ ReconcilerCrash(r)
  PROVE  RowInv' /\ RowsStay
<1>. USE DEF reconcilerUnchanged
<1>a. TypeOK /\ TypeOK'
  BY ReconcilerType DEF RowInv
<1>1. UNCHANGED <<pc, call>>
  BY DEF ReconcilerStep, RebuildStep, ReconcilerCrash, ExpireDue, ExpireDueSelect,
         ExpireDueUpdate, ReleaseExpired, RebuildList, RebuildSet
<1>2. /\ \A d \in Decisions : (ledger[d] # "none") <=> (ledger'[d] # "none")
      /\ \A q \in Reconcilers : \A d \in batch'[q] \cup scan'[q] :
            d \in batch[q] \cup scan[q] \/ ledger'[d] # "none"
      /\ \A d \in Decisions : released'[d] # 0 => released[d] # 0 \/ ledger[d] # "none"
  <2>1. CASE ExpireDue(r)
    <3>1. PICK B \in SUBSET Decisions :
             DueBatch(B) /\ ledger' = Expired(B) /\ batch' = [batch EXCEPT ![r] = B]
      BY <2>1 DEF ExpireDue
    <3>2. \A d \in B : d \in Decisions /\ ledger[d] = "held"
      BY <3>1 DEF DueBatch, DueHolds
    <3>. QED  BY <2>1, <3>1, <3>2, <1>a DEF ExpireDue, Expired, TypeOK
  <2>2. CASE ExpireDueSelect(r)
    <3>1. PICK B \in SUBSET Decisions : DueBatch(B) /\ scan' = [scan EXCEPT ![r] = B]
      BY <2>2 DEF ExpireDueSelect
    <3>2. \A d \in B : ledger[d] = "held"
      BY <3>1 DEF DueBatch, DueHolds
    <3>. QED  BY <2>2, <3>1, <3>2, <1>a DEF ExpireDueSelect, TypeOK
  <2>3. CASE ExpireDueUpdate(r)
    <3>1. \A d \in scan[r] : d \in Decisions /\ ledger[d] # "none"
      BY <1>a DEF RowInv, TypeOK
    <3>. QED  BY <2>3, <3>1, <1>a DEF ExpireDueUpdate, Expired, TypeOK
  <2>4. ASSUME NEW e \in Decisions, ReleaseExpired(r, e)
        PROVE  /\ UNCHANGED <<ledger, scan>>
               /\ \A q \in Reconcilers : batch'[q] \subseteq batch[q]
               /\ \A d \in Decisions : released'[d] # 0 => released[d] # 0 \/ ledger[d] # "none"
    <3>1. ledger[e] # "none"
      BY <2>4 DEF ReleaseExpired, RowInv
    <3>. QED  BY <2>4, <3>1, <1>a DEF ReleaseExpired, Release, ReleaseFails, TypeOK
  <2>5. CASE ReconcilerCrash(r) \/ RebuildStep(r)
    BY <2>5, <1>a DEF ReconcilerCrash, RebuildStep, RebuildList, RebuildSet, TypeOK
  <2>. QED  BY <2>1, <2>2, <2>3, <2>4, <2>5 DEF ReconcilerStep
<1>3. RowsStay
  BY <1>1, <1>2 DEF RowsStay, PastPlace
<1>4. \A d \in Decisions : released'[d] # 0 => released[d] # 0 \/ PastPlace(d)'
  BY <1>1, <1>2 DEF RowInv, PastPlace
<1>. QED  BY <1>a, <1>1, <1>2, <1>3, <1>4, RowStep

LEMMA RowNext ==
  ASSUME RowInv, [Next]_vars
  PROVE  RowInv' /\ RowsStay
<1>1. ASSUME UNCHANGED <<pc, ledger, released, batch, scan>>, TypeOK',
             \A c \in Calls : call'[c] = call[c] \/ call'[c].step = "get"
      PROVE  RowInv' /\ RowsStay
  <2>1. RowsStay
    BY <1>1 DEF RowsStay, PastPlace
  <2>. QED  BY <1>1, <2>1, RowStep
<1>2. ASSUME NEW c \in Calls, NEW op \in {"capture", "void"}, NEW d \in Decisions, StartCall(c, op, d)
      PROVE  RowInv' /\ RowsStay
  <2>1. TypeOK'
    BY <1>2, StartCallType DEF RowInv
  <2>2. \A b \in Calls : call'[b] = call[b] \/ call'[b].step = "get"
    BY <1>2 DEF StartCall, RowInv, TypeOK
  <2>. QED  BY <1>1, <1>2, <2>1, <2>2 DEF StartCall, callUnchanged
<1>3. CASE Clock
  <2>1. TypeOK'
    BY <1>3, ClockType DEF RowInv
  <2>2. UNCHANGED <<pc, ledger, released, batch, scan, call>>
    BY <1>3 DEF Clock, TTLElapses, Rollover, CounterExpires, CounterLost, clockUnchanged
  <2>. QED  BY <1>1, <2>1, <2>2
<1>4. CASE UNCHANGED vars
  <2>1. TypeOK'
    BY <1>4, TypeNext DEF RowInv
  <2>. QED  BY <1>1, <1>4, <2>1 DEF vars
<1>. QED  BY <1>2, <1>3, <1>4, ReserveRows, CallRows, ReconcilerRows DEF Next

LEMMA RowInvariance == Spec => []RowInv
<1>1. Init => RowInv
  BY TypeInit DEF Init, RowInv, NoCall
<1>2. RowInv /\ [Next]_vars => RowInv'
  BY RowNext
<1>. QED  BY <1>1, <1>2, PTL DEF Spec

-----------------------------------------------------------------------------
(* The states of a hold and the answers given about it, under every fault  *)
(* but an ExpireDue that overlaps another write to its rows.               *)

NoScan == \A r \in Reconcilers : scan[r] = {}

(* A void call that is past its UPDATE has voided the row.                 *)
VoidsAreMade ==
    \A c \in Calls :
        call[c].op = "void" /\ call[c].step \in {"confirm", "release"} =>
            ledger[call[c].d] = "voided"

AnswerInv == RowInv /\ NoScan /\ VoidsAreMade /\ AnswersHold

Legal == \A d \in Decisions : LegalTransition(ledger[d], ledger'[d])

(* A state column that is captured or voided is never written again, so an *)
(* answer only has to be true when it is given.                            *)
LEMMA AnswerStep ==
  ASSUME AnswerInv, RowInv', NoScan', Legal,
         \A c \in Calls : call'[c] = call[c] \/
            (call'[c].op = "void" /\ call'[c].step \in {"confirm", "release"} =>
                ledger'[call'[c].d] = "voided"),
         \A d \in Decisions : \A s \in {"captured", "voided"} :
            s \in told'[d] => s \in told[d] \/ ledger'[d] = s
  PROVE  AnswerInv'
<1>1. \A d \in Decisions : \A s \in {"captured", "voided"} : ledger[d] = s => ledger'[d] = s
  BY DEF Legal, LegalTransition
<1>2. VoidsAreMade'
  <2>1. \A c \in Calls : call[c].op = "void" /\ call[c].step \in {"confirm", "release"} =>
           call[c].d \in Decisions /\ ledger[call[c].d] = "voided"
    BY CallIsActive DEF AnswerInv, RowInv, VoidsAreMade, CallSteps
  <2>. QED  BY <1>1, <2>1 DEF VoidsAreMade
<1>3. AnswersHold'
  BY <1>1 DEF AnswerInv, AnswersHold
<1>. QED  BY <1>2, <1>3 DEF AnswerInv

(* A step of a request, the clock, a starting call and a stutter give no   *)
(* answer about a row and leave every call as it is or at its beginning.   *)
LEMMA SilentStep ==
  ASSUME AnswerInv, RowInv', Legal, UNCHANGED <<scan, told>>,
         \A c \in Calls : call'[c] = call[c] \/ call'[c].step = "get"
  PROVE  AnswerInv'
<1>1. NoScan'
  BY DEF AnswerInv, NoScan
<1>2. \A c \in Calls : call'[c] = call[c] \/
         (call'[c].op = "void" /\ call'[c].step \in {"confirm", "release"} =>
             ledger'[call'[c].d] = "voided")
  OBVIOUS
<1>3. \A d \in Decisions : \A s \in {"captured", "voided"} :
         s \in told'[d] => s \in told[d] \/ ledger'[d] = s
  OBVIOUS
<1>. QED  BY <1>1, <1>2, <1>3, AnswerStep

LEMMA ReserveAnswers ==
  ASSUME AnswerInv, NEW d \in Decisions, ReserveStep(d)
  PROVE  AnswerInv' /\ Legal
<1>. USE DEF reserveUnchanged
<1>a. RowInv /\ TypeOK /\ RowInv'
  BY ReserveRows DEF AnswerInv, RowInv
<1>1. UNCHANGED <<scan, told, call>>
  BY DEF ReserveStep, ReserveBegin, CounterReserve, CounterReserveFails, Place, PlaceFails,
         UndoReserve, ReserveCrash
<1>2. \/ UNCHANGED ledger
      \/ pc[d] = "place" /\ ledger' = [ledger EXCEPT ![d] = "held"]
  BY DEF ReserveStep, ReserveBegin, CounterReserve, CounterReserveFails, Place, PlaceFails,
         UndoReserve, ReserveCrash
<1>3. pc[d] = "place" => ledger[d] = "none"
  BY <1>a DEF RowInv, PastPlace
<1>4. Legal
  BY <1>a, <1>2, <1>3 DEF Legal, LegalTransition, TypeOK
<1>. QED  BY <1>a, <1>1, <1>4, SilentStep

LEMMA CallAnswers ==
  ASSUME AnswerInv, NEW c \in Calls, CallStep(c) \/ CallFails(c)
  PROVE  AnswerInv' /\ Legal
<1>. USE DEF callUnchanged
<1>. DEFINE d == call[c].d
<1>a. RowInv /\ TypeOK /\ RowInv' /\ NoScan /\ NoScan'
  <2>1. UNCHANGED scan
    BY DEF CallStep, CaptureGet, VoidGet, CallUpdate, VoidRecord, VoidReport, CallConfirm,
           VoidRelease, CallFails
  <2>. QED  BY <2>1, CallRows DEF AnswerInv, RowInv, NoScan
<1>b. call[c].step \in CallSteps /\ d \in Decisions /\ call[c].op \in {"capture", "void"}
  <2>1. call[c].step \in CallSteps
    BY DEF CallStep, CaptureGet, VoidGet, CallUpdate, VoidRecord, VoidReport, CallConfirm,
           VoidRelease, CallFails, CallSteps
  <2>. QED  BY <2>1, <1>a, CallIsActive DEF ActiveCall
<1>1. \/ UNCHANGED ledger
      \/ /\ call[c].step = "update" /\ ledger[d] = "held" /\ Goto(c, "confirm")
         /\ ledger' = [ledger EXCEPT ![d] = IF call[c].op = "capture" THEN "captured" ELSE "voided"]
      \/ /\ ledger[d] = "expired" /\ Goto(c, "report")
         /\ ledger' = [ledger EXCEPT ![d] = "voided"]
  BY DEF CallStep, CaptureGet, VoidGet, CallUpdate, VoidRecord, VoidReport, CallConfirm,
         VoidRelease, CallFails
<1>2. Legal
  BY <1>a, <1>b, <1>1 DEF Legal, LegalTransition, TypeOK
<1>3. \/ Hangup(c) \/ Goto(c, "get") \/ Goto(c, "update") \/ Goto(c, "record") \/ Goto(c, "report")
      \/ Goto(c, "confirm") /\ (call[c].op = "void" => ledger'[d] = "voided")
      \/ Goto(c, "release") /\ ledger'[d] = "voided"
  <2>1. CASE CallConfirm(c)
    BY <2>1, <1>b DEF CallConfirm, AnswerInv, VoidsAreMade
  <2>2. CASE CallUpdate(c)
    BY <2>2, <1>a, <1>b DEF CallUpdate, TypeOK
  <2>3. CASE ~CallConfirm(c) /\ ~CallUpdate(c)
    BY <2>3 DEF CallStep, CaptureGet, VoidGet, VoidRecord, VoidReport, VoidRelease, CallFails
  <2>. QED  BY <2>1, <2>2, <2>3
<1>4. \A b \in Calls : call'[b] = call[b] \/
         (call'[b].op = "void" /\ call'[b].step \in {"confirm", "release"} =>
             ledger'[call'[b].d] = "voided")
  <2>1. \A b \in Calls \ {c} : call'[b] = call[b]
    BY <1>a, <1>3 DEF TypeOK, Hangup, Goto
  <2>2. CASE Hangup(c)
    BY <1>a, <2>1, <2>2 DEF TypeOK, Hangup, NoCall
  <2>3. ASSUME NEW s, Goto(c, s)
        PROVE  call'[c].step = s /\ call'[c].d = d /\ call'[c].op = call[c].op
    BY <1>a, <2>3 DEF TypeOK, Goto
  <2>. QED  BY <1>b, <1>3, <2>1, <2>2, <2>3
<1>5. \/ UNCHANGED told
      \/ UNCHANGED ledger /\ Tell(d, Effective(d))
      \/ UNCHANGED ledger /\ Tell(d, "voided") /\ ledger[d] = "voided"
  <2>1. CASE VoidRelease(c)
    BY <2>1 DEF VoidRelease, AnswerInv, VoidsAreMade
  <2>2. CASE VoidGet(c)
    BY <2>2, <1>a DEF VoidGet, Effective
  <2>3. CASE ~VoidRelease(c) /\ ~VoidGet(c)
    BY <2>3 DEF CallStep, CaptureGet, CallUpdate, VoidRecord, VoidReport, CallConfirm, CallFails
  <2>. QED  BY <2>1, <2>2, <2>3
<1>6. \A e \in Decisions : \A s \in {"captured", "voided"} :
         s \in told'[e] => s \in told[e] \/ ledger'[e] = s
  BY <1>a, <1>b, <1>5 DEF Tell, Effective, TypeOK
<1>. QED  BY <1>a, <1>2, <1>4, <1>6, AnswerStep

LEMMA ReconcilerAnswers ==
  ASSUME AnswerInv, "snapshotRace" \notin Faults, NEW r \in Reconcilers,
         ReconcilerStep(r) \/ RebuildStep(r) \/ ReconcilerCrash(r)
  PROVE  AnswerInv' /\ Legal
<1>. USE DEF reconcilerUnchanged
<1>a. RowInv /\ TypeOK /\ RowInv' /\ NoScan
  BY ReconcilerRows DEF AnswerInv, RowInv
<1>b. ~ExpireDueSelect(r) /\ ~ExpireDueUpdate(r)
  BY <1>a DEF ExpireDueSelect, ExpireDueUpdate, NoScan
<1>1. UNCHANGED <<scan, told, call>>
  BY <1>b DEF ReconcilerStep, RebuildStep, ReconcilerCrash, ExpireDue, ReleaseExpired,
         RebuildList, RebuildSet
<1>2. Legal
  <2>1. CASE ExpireDue(r)
    <3>1. PICK B \in SUBSET Decisions : DueBatch(B) /\ ledger' = Expired(B)
      BY <2>1 DEF ExpireDue
    <3>2. \A e \in B : ledger[e] = "held"
      BY <3>1 DEF DueBatch, DueHolds
    <3>. QED  BY <3>1, <3>2 DEF Expired, Legal, LegalTransition
  <2>2. CASE ~ExpireDue(r)
    <3>1. UNCHANGED ledger
      BY <2>2, <1>b DEF ReconcilerStep, RebuildStep, ReconcilerCrash, ReleaseExpired,
             RebuildList, RebuildSet
    <3>. QED  BY <3>1 DEF Legal, LegalTransition
  <2>. QED  BY <2>1, <2>2
<1>. QED  BY <1>a, <1>1, <1>2, SilentStep

LEMMA AnswerNext ==
  ASSUME "snapshotRace" \notin Faults, AnswerInv, [Next]_vars
  PROVE  AnswerInv' /\ Legal
<1>a. RowInv /\ TypeOK /\ RowInv'
  BY RowNext DEF AnswerInv, RowInv
<1>1. ASSUME UNCHANGED <<ledger, scan, told>>,
             \A c \in Calls : call'[c] = call[c] \/ call'[c].step = "get"
      PROVE  AnswerInv' /\ Legal
  <2>1. Legal
    BY <1>1 DEF Legal, LegalTransition
  <2>. QED  BY <1>a, <1>1, <2>1, SilentStep
<1>2. ASSUME NEW c \in Calls, NEW op \in {"capture", "void"}, NEW d \in Decisions, StartCall(c, op, d)
      PROVE  AnswerInv' /\ Legal
  <2>1. \A b \in Calls : call'[b] = call[b] \/ call'[b].step = "get"
    BY <1>2, <1>a DEF StartCall, TypeOK
  <2>. QED  BY <1>1, <1>2, <2>1 DEF StartCall, callUnchanged
<1>3. CASE Clock
  <2>1. UNCHANGED <<ledger, scan, told, call>>
    BY <1>3 DEF Clock, TTLElapses, Rollover, CounterExpires, CounterLost, clockUnchanged
  <2>. QED  BY <1>1, <2>1
<1>4. CASE UNCHANGED vars
  BY <1>1, <1>4 DEF vars
<1>. QED  BY <1>2, <1>3, <1>4, ReserveAnswers, CallAnswers, ReconcilerAnswers DEF Next

LEMMA AnswerInvariance ==
  ASSUME "snapshotRace" \notin Faults
  PROVE  Spec => []AnswerInv
<1>1. Init => AnswerInv
  <2>1. Init => RowInv
    BY TypeInit DEF Init, RowInv, NoCall
  <2>. QED  BY <2>1 DEF Init, AnswerInv, NoScan, VoidsAreMade, AnswersHold, NoCall
<1>2. AnswerInv /\ [Next]_vars => AnswerInv'
  BY AnswerNext
<1>. QED  BY <1>1, <1>2, PTL DEF Spec

(* A row moves only along the state machine of hold.go - captured and      *)
(* voided are terminal, expired can only be acknowledged as voided -       *)
(* through crashes, store errors, ambiguous commits, a lost Redis and      *)
(* rebuilds, as long as ExpireDue's SELECT and UPDATE do not overlap       *)
(* another write to their rows (run budget_terminal shows what then        *)
(* happens).                                                               *)
THEOREM RowsFollowTheStateMachine ==
  ASSUME "snapshotRace" \notin Faults
  PROVE  Spec => TerminalStates
<1>1. AnswerInv /\ [Next]_vars => [Legal]_ledger
  BY AnswerNext
<1>. QED  BY <1>1, AnswerInvariance, PTL DEF Spec, TerminalStates, Legal

(* An answer of capture or void stays true under the same faults: a hold   *)
(* that a caller was told is captured, or voided, is so for ever.          *)
THEOREM AnswersStayTrue ==
  ASSUME "snapshotRace" \notin Faults
  PROVE  Spec => []AnswersHold
<1>1. AnswerInv => AnswersHold
  BY DEF AnswerInv
<1>. QED  BY <1>1, AnswerInvariance, PTL

-----------------------------------------------------------------------------
(* What the counter counts, under every fault but a rebuild.               *)

NoRebuilds == \A r \in Reconcilers : ~rebuild[r].busy

SpendInv == RowInv /\ NoRebuilds /\ NoPhantomSpend

(* No step opens a window that was closed.                                 *)
LEMMA NothingReopens ==
  ASSUME TypeOK, [Next]_vars
  PROVE  NothingOpens
<1>1. ASSUME NEW d \in Decisions, ReserveStep(d)
      PROVE  NothingOpens
  <2>1. CASE ReserveBegin(d)
    BY <2>1 DEF ReserveBegin, reserveUnchanged, NothingOpens, Open, TypeOK, Windows
  <2>2. CASE ~ReserveBegin(d)
    <3>1. UNCHANGED <<win, wk>> /\ \A e \in Decisions : pc'[e] = "counter" => pc[e] = "counter"
      BY <1>1, <2>2 DEF ReserveStep, CounterReserve, CounterReserveFails, Place, PlaceFails,
             UndoReserve, ReserveCrash, reserveUnchanged, TypeOK
    <3>. QED  BY <3>1 DEF NothingOpens, Open
  <2>. QED  BY <2>1, <2>2
<1>2. CASE Rollover
  BY <1>2 DEF Rollover, clockUnchanged, NothingOpens, Open, TypeOK, Windows
<1>3. CASE UNCHANGED <<win, pc, wk>>
  BY <1>3 DEF NothingOpens, Open
<1>4. ASSUME NEW c \in Calls, NEW op \in {"capture", "void"}, NEW d \in Decisions, StartCall(c, op, d)
      PROVE  UNCHANGED <<win, pc, wk>>
  BY <1>4 DEF StartCall, callUnchanged
<1>5. ASSUME NEW c \in Calls, CallStep(c) \/ CallFails(c)
      PROVE  UNCHANGED <<win, pc, wk>>
  BY <1>5 DEF CallStep, CaptureGet, VoidGet, CallUpdate, VoidRecord, VoidReport, CallConfirm,
         VoidRelease, CallFails, callUnchanged
<1>6. ASSUME NEW r \in Reconcilers, ReconcilerStep(r) \/ RebuildStep(r) \/ ReconcilerCrash(r)
      PROVE  UNCHANGED <<win, pc, wk>>
  BY <1>6 DEF ReconcilerStep, RebuildStep, ReconcilerCrash, ExpireDue, ExpireDueSelect,
         ExpireDueUpdate, ReleaseExpired, RebuildList, RebuildSet, reconcilerUnchanged
<1>7. CASE Clock
  BY <1>7, <1>2, <1>3 DEF Clock, TTLElapses, CounterExpires, CounterLost, clockUnchanged
<1>. QED  BY <1>1, <1>3, <1>4, <1>5, <1>6, <1>7 DEF Next, vars

CountedStays == \A w \in Windows : Counted(w) \subseteq Counted(w)'

(* A step that does not raise a counter and takes no request out of the    *)
(* account is harmless.                                                    *)
LEMMA SpendQuiet ==
  ASSUME TypeOK, TypeOK', NoPhantomSpend, NothingOpens, CountedStays,
         \A w \in Windows : counter'[w] <= counter[w]
  PROVE  NoPhantomSpend'
<1>. SUFFICES ASSUME NEW w \in Windows, Open(w)'
             PROVE  counter'[w] <= Cents(Counted(w)')
  BY DEF NoPhantomSpend, Cents, Coins
<1>1. counter[w] <= Cents(Counted(w))
  BY DEF NothingOpens, NoPhantomSpend
<1>2. Cents(Counted(w)) <= Cents(Counted(w)')
  BY CentsMonotone DEF CountedStays
<1>3. /\ counter[w] \in Nat /\ counter'[w] \in Nat /\ counter'[w] <= counter[w]
      /\ Cents(Counted(w)) \in Nat /\ Cents(Counted(w)') \in Nat
  BY CoinsFinite DEF TypeOK
<1>. QED  BY <1>1, <1>2, <1>3

(* A step may count an amount for a request that joins the account with it. *)
LEMMA SpendCounts ==
  ASSUME TypeOK, TypeOK', NoPhantomSpend, NothingOpens, CountedStays,
         NEW d \in Decisions, d \notin Counted(wk[d]), d \in Counted(wk[d])', UNCHANGED wk,
         counter' = [counter EXCEPT ![wk[d]] = @ + Amount[d]]
  PROVE  NoPhantomSpend'
<1>. SUFFICES ASSUME NEW w \in Windows, Open(w)'
             PROVE  counter'[w] <= Cents(Counted(w)')
  BY DEF NoPhantomSpend, Cents, Coins
<1>1. counter[w] <= Cents(Counted(w))
  BY DEF NothingOpens, NoPhantomSpend
<1>2. Cents(Counted(w)) <= Cents(Counted(w)')
  BY CentsMonotone DEF CountedStays
<1>3. /\ counter[w] \in Nat /\ Amount[d] \in Nat
      /\ counter'[w] = IF w = wk[d] THEN counter[w] + Amount[d] ELSE counter[w]
      /\ Cents(Counted(w)) \in Nat /\ Cents(Counted(w)') \in Nat
  BY CoinsFinite, AmountNat DEF TypeOK
<1>4. CASE w = wk[d]
  <2>. DEFINE S == Counted(w) \cup {d}
  <2>0. d \in Counted(w)'
    BY <1>4 DEF Counted
  <2>1. S \subseteq Counted(w)' /\ S \ {d} = Counted(w) /\ d \in S
    BY <1>4, <2>0 DEF CountedStays
  <2>2. Cents(S) <= Cents(Counted(w)')
    BY <2>1, CentsMonotone
  <2>3. Cents(Counted(w)) = Cents(S) - Amount[d]
    BY <2>1, CentsRemove
  <2>4. Cents(S) \in Nat
    BY CoinsFinite
  <2>. HIDE DEF S
  <2>. QED  BY <1>1, <1>3, <1>4, <2>2, <2>3, <2>4
<1>. QED  BY <1>1, <1>2, <1>3, <1>4

(* A step may release the amount of a request that leaves the account.     *)
LEMMA SpendReleases ==
  ASSUME TypeOK, TypeOK', NoPhantomSpend, NothingOpens,
         NEW d \in Decisions, Release(d),
         \A w \in Windows : Counted(w) \ {d} \subseteq Counted(w)'
  PROVE  NoPhantomSpend'
<1>. SUFFICES ASSUME NEW w \in Windows, Open(w)'
             PROVE  counter'[w] <= Cents(Counted(w)')
  BY DEF NoPhantomSpend, Cents, Coins
<1>1. counter[w] <= Cents(Counted(w))
  BY DEF NothingOpens, NoPhantomSpend
<1>2. Cents(Counted(w) \ {d}) <= Cents(Counted(w)')
  BY CentsMonotone
<1>3. /\ counter[w] \in Nat /\ Amount[d] \in Nat
      /\ counter'[w] = IF w = wk[d] THEN Decrement(counter[w], Amount[d]) ELSE counter[w]
      /\ Cents(Counted(w)) \in Nat /\ Cents(Counted(w)') \in Nat
      /\ Cents(Counted(w) \ {d}) \in Nat
  BY CoinsFinite, AmountNat DEF TypeOK, Release
<1>4. CASE d \in Counted(w)
  <2>1. w = wk[d]
    BY <1>4 DEF Counted
  <2>2. Cents(Counted(w) \ {d}) = Cents(Counted(w)) - Amount[d]
    BY <1>4, CentsRemove
  <2>. QED  BY <1>1, <1>2, <1>3, <2>1, <2>2 DEF Decrement
<1>5. CASE d \notin Counted(w)
  <2>1. Counted(w) \ {d} = Counted(w)
    BY <1>5
  <2>2. counter'[w] \in Nat /\ counter'[w] <= counter[w]
    BY <1>3 DEF Decrement
  <2>3. Cents(Counted(w)) <= Cents(Counted(w)')
    BY <1>2, <2>1
  <2>. QED  BY <1>1, <1>3, <2>2, <2>3
<1>. QED  BY <1>4, <1>5

LEMMA ReserveSpend ==
  ASSUME RowInv, NoPhantomSpend, NEW d \in Decisions, ReserveStep(d), NothingOpens
  PROVE  NoPhantomSpend'
<1>. USE DEF reserveUnchanged
<1>a. TypeOK /\ TypeOK'
  BY ReserveType DEF RowInv
<1>b. ASSUME UNCHANGED counter  PROVE \A w \in Windows : counter'[w] <= counter[w]
  BY <1>a, <1>b DEF TypeOK
<1>c. pc[d] \in {"new", "counter", "place"} => released[d] = 0
  BY DEF RowInv, PastPlace
<1>1. CASE ReserveBegin(d)
  <2>1. CountedStays
    BY <1>1, <1>a DEF ReserveBegin, CountedStays, Counted, TypeOK
  <2>. QED  BY <1>1, <1>a, <1>b, <2>1, SpendQuiet DEF ReserveBegin
<1>2. CASE CounterReserve(d) \/ CounterReserveFails(d)
  <2>1. /\ UNCHANGED <<wk, released>> /\ pc[d] = "counter"
        /\ \/ UNCHANGED counter
           \/ /\ counter' = [counter EXCEPT ![wk[d]] = @ + Amount[d]]
              /\ pc'[d] \in {"place", "UNAVAILABLE"}
        /\ \A e \in Decisions \ {d} : pc'[e] = pc[e]
    BY <1>2, <1>a DEF CounterReserve, CounterReserveFails, TypeOK
  <2>2. CountedStays /\ d \notin Counted(wk[d])
    BY <2>1 DEF CountedStays, Counted
  <2>3. pc'[d] \in {"place", "UNAVAILABLE"} => d \in Counted(wk[d])'
    BY <2>1, <1>c DEF Counted
  <2>. QED  BY <1>a, <1>b, <2>1, <2>2, <2>3, SpendQuiet, SpendCounts
<1>3. CASE Place(d) \/ PlaceFails(d) \/ ReserveCrash(d)
  <2>1. /\ UNCHANGED <<counter, wk, released>>
        /\ pc'[d] \in {"undo", "WITHIN_LIMIT", "UNAVAILABLE"}
        /\ \A e \in Decisions \ {d} : pc'[e] = pc[e]
    BY <1>3, <1>a DEF Place, PlaceFails, ReserveCrash, TypeOK
  <2>2. CountedStays
    BY <2>1 DEF CountedStays, Counted
  <2>. QED  BY <1>a, <1>b, <2>1, <2>2, SpendQuiet
<1>4. CASE UndoReserve(d)
  <2>1. /\ UNCHANGED wk /\ pc'[d] = "UNAVAILABLE"
        /\ \A e \in Decisions \ {d} : pc'[e] = pc[e]
    BY <1>4, <1>a DEF UndoReserve, TypeOK
  <2>2. CASE Release(d)
    <3>1. \A e \in Decisions \ {d} : released'[e] = released[e]
      BY <2>2, <1>a DEF Release, TypeOK
    <3>2. \A w \in Windows : Counted(w) \ {d} \subseteq Counted(w)'
      BY <2>1, <3>1 DEF Counted
    <3>. QED  BY <1>a, <2>2, <3>2, SpendReleases
  <2>3. CASE ReleaseFails
    <3>1. CountedStays
      BY <2>1, <2>3 DEF ReleaseFails, CountedStays, Counted
    <3>. QED  BY <1>a, <1>b, <2>3, <3>1, SpendQuiet DEF ReleaseFails
  <2>. QED  BY <1>4, <2>2, <2>3 DEF UndoReserve
<1>. QED  BY <1>1, <1>2, <1>3, <1>4 DEF ReserveStep

(* The account of a window depends on pc, wk and released only.            *)
LEMMA SpendElsewhere ==
  ASSUME TypeOK, TypeOK', NoPhantomSpend, NothingOpens, UNCHANGED <<pc, wk>>,
         \/ UNCHANGED released /\ \A w \in Windows : counter'[w] <= counter[w]
         \/ \E d \in Decisions : Release(d)
  PROVE  NoPhantomSpend'
<1>1. CASE UNCHANGED released /\ \A w \in Windows : counter'[w] <= counter[w]
  <2>1. CountedStays
    BY <1>1 DEF CountedStays, Counted
  <2>. QED  BY <1>1, <2>1, SpendQuiet
<1>2. ASSUME NEW d \in Decisions, Release(d)
      PROVE  NoPhantomSpend'
  <2>1. \A e \in Decisions \ {d} : released'[e] = released[e]
    BY <1>2 DEF Release, TypeOK
  <2>2. \A w \in Windows : Counted(w) \ {d} \subseteq Counted(w)'
    BY <2>1 DEF Counted
  <2>. QED  BY <1>2, <2>2, SpendReleases
<1>. QED  BY <1>1, <1>2

LEMMA SpendNext ==
  ASSUME "rebuild" \notin Faults, SpendInv, [Next]_vars
  PROVE  SpendInv'
<1>a. RowInv /\ RowInv' /\ TypeOK /\ TypeOK' /\ NoRebuilds /\ NoPhantomSpend
  BY RowNext DEF SpendInv, RowInv
<1>b. NothingOpens
  BY <1>a, NothingReopens
<1>c. ASSUME UNCHANGED counter  PROVE \A w \in Windows : counter'[w] <= counter[w]
  BY <1>a, <1>c DEF TypeOK
<1>d. ASSUME NEW r \in Reconcilers  PROVE ~RebuildStep(r)
  BY <1>a DEF RebuildStep, RebuildSet, RebuildList, NoRebuilds
<1>1. NoRebuilds'
  <2>1. UNCHANGED rebuild
    BY <1>d DEF Next, vars, ReserveStep, ReserveBegin, CounterReserve, CounterReserveFails,
         Place, PlaceFails, UndoReserve, ReserveCrash, reserveUnchanged, StartCall, callUnchanged,
         CallStep, CaptureGet, VoidGet, CallUpdate, VoidRecord, VoidReport, CallConfirm,
         VoidRelease, CallFails, ReconcilerStep, ReconcilerCrash, ExpireDue, ExpireDueSelect,
         ExpireDueUpdate, ReleaseExpired, Clock, TTLElapses, Rollover, CounterExpires,
         CounterLost, clockUnchanged
  <2>. QED  BY <1>a, <2>1 DEF NoRebuilds
<1>2. NoPhantomSpend'
  <2>1. ASSUME NEW d \in Decisions, ReserveStep(d)
        PROVE  NoPhantomSpend'
    BY <1>a, <1>b, <2>1, ReserveSpend
  <2>2. ASSUME NEW c \in Calls, CallStep(c) \/ CallFails(c)
        PROVE  NoPhantomSpend'
    <3>1. UNCHANGED <<pc, wk>>
      BY <2>2 DEF CallStep, CaptureGet, VoidGet, CallUpdate, VoidRecord, VoidReport,
             CallConfirm, VoidRelease, CallFails, callUnchanged
    <3>2. CASE VoidRelease(c)
      <4>1. call[c].d \in Decisions
        BY <1>a, <3>2, CallIsActive DEF VoidRelease, CallSteps
      <4>2. Release(call[c].d) \/ UNCHANGED <<counter, released>>
        BY <3>2 DEF VoidRelease, ReleaseFails
      <4>. QED  BY <1>a, <1>b, <1>c, <3>1, <4>1, <4>2, SpendElsewhere
    <3>3. CASE ~VoidRelease(c)
      <4>1. UNCHANGED <<counter, released>>
        BY <2>2, <3>3 DEF CallStep, CaptureGet, VoidGet, CallUpdate, VoidRecord, VoidReport,
               CallConfirm, CallFails
      <4>. QED  BY <1>a, <1>b, <1>c, <3>1, <4>1, SpendElsewhere
    <3>. QED  BY <3>2, <3>3
  <2>3. ASSUME NEW r \in Reconcilers, ReconcilerStep(r) \/ RebuildStep(r) \/ ReconcilerCrash(r)
        PROVE  NoPhantomSpend'
    <3>1. UNCHANGED <<pc, wk>>
      BY <2>3, <1>d DEF ReconcilerStep, ReconcilerCrash, ExpireDue, ExpireDueSelect,
             ExpireDueUpdate, ReleaseExpired, reconcilerUnchanged
    <3>2. UNCHANGED <<counter, released>> \/ \E d \in Decisions : Release(d)
      BY <2>3, <1>d DEF ReconcilerStep, ReconcilerCrash, ExpireDue, ExpireDueSelect,
             ExpireDueUpdate, ReleaseExpired, ReleaseFails
    <3>. QED  BY <1>a, <1>b, <1>c, <3>1, <3>2, SpendElsewhere
  <2>4. CASE Clock
    <3>1. UNCHANGED <<pc, wk, released>>
      BY <2>4 DEF Clock, TTLElapses, Rollover, CounterExpires, CounterLost, clockUnchanged
    <3>2. \A w \in Windows : counter'[w] <= counter[w]
      BY <2>4, <1>a DEF Clock, TTLElapses, Rollover, CounterExpires, CounterLost, TypeOK
    <3>. QED  BY <1>a, <1>b, <3>1, <3>2, SpendElsewhere
  <2>5. ASSUME UNCHANGED <<pc, wk, counter, released>>  PROVE NoPhantomSpend'
    BY <1>a, <1>b, <1>c, <2>5, SpendElsewhere
  <2>6. ASSUME NEW c \in Calls, NEW op \in {"capture", "void"}, NEW d \in Decisions, StartCall(c, op, d)
        PROVE  NoPhantomSpend'
    BY <2>5, <2>6 DEF StartCall, callUnchanged
  <2>. QED  BY <2>1, <2>2, <2>3, <2>4, <2>5, <2>6 DEF Next, vars
<1>. QED  BY <1>a, <1>1, <1>2 DEF SpendInv

(* An open window's counter never holds more than the amounts of requests  *)
(* that were counted under it and not released since: a double release, a  *)
(* lost answer, a crash or an emptied Redis may strand an amount or lose   *)
(* one, but nothing is counted twice or in the wrong window.  Only         *)
(* RebuildWindow, which writes the counter from an earlier read, is left   *)
(* out.                                                                    *)
THEOREM NothingCountedTwice ==
  ASSUME "rebuild" \notin Faults
  PROVE  Spec => []NoPhantomSpend
<1>1. Init => SpendInv
  <2>1. Init => RowInv
    BY TypeInit DEF Init, RowInv, NoCall
  <2>2. ASSUME Init, NEW w \in Windows  PROVE counter[w] = 0 /\ counter[w] <= Cents(Counted(w))
    BY <2>2, CoinsFinite DEF Init
  <2>. QED  BY <2>1, <2>2 DEF Init, SpendInv, NoRebuilds, NoRebuild, NoPhantomSpend
<1>2. SpendInv /\ [Next]_vars => SpendInv'
  BY SpendNext
<1>3. SpendInv => NoPhantomSpend
  BY DEF SpendInv
<1>. QED  BY <1>1, <1>2, <1>3, PTL DEF Spec
=============================================================================
