--------------------------- MODULE AuditWriterProof ---------------------------
(***************************************************************************)
(* No send on a closed channel, no record dropped or handled twice, and    *)
(* the first Close and Flush drain, for any number of records and closers, every     *)
(* queue size and all faults.                                              *)
(***************************************************************************)
EXTENDS AuditWriter, FiniteSetTheorems, TLAPS

-----------------------------------------------------------------------------
(* The inductive invariant.                                                *)

(* what has not been handed over is nowhere yet *)
Fresh ==
    \A r \in Records : at[r] # "done" =>
        r \notin Queued /\ r # hand /\ r \notin logged /\ r \notin failed

(* the buffer holds a record once *)
Distinct == \A i, j \in 1..Len(ch) : ch[i] = ch[j] => i = j

(* what the WaitGroup counts *)
InFlight == { r \in Records : at[r] = "sending" \/ r \in Queued \/ r = hand }

Counted == inflt = Cardinality(InFlight)

(* the worker leaves an empty, closed channel behind, and so does the      *)
(* Close that closed it                                                    *)
ExitedIsDrained ==
    /\ worker = "exited" => closed /\ ch = <<>> /\ hand = None
    /\ \A c \in Closers : closer[c] = "drained" => worker = "exited"

(* one Close has closed the channel before another finds it closed *)
ClosedBySomeone ==
    /\ closed => \E e \in Closers : HasClosed(e)
    /\ \A c \in Closers : closer[c] = "already" => closed

Flushed ==
    /\ promised \subseteq Enqueued
    /\ flusher = "returned" => promised \subseteq logged \cup failed

IInv == /\ TypeOK /\ NoSendOnClosed /\ HandedOverOnce
        /\ Fresh /\ Distinct /\ Counted /\ ExitedIsDrained /\ ClosedBySomeone /\ Flushed

-----------------------------------------------------------------------------
(* The channel.                                                            *)

(* a send adds its record at the end *)
LEMMA SendAdds ==
    ASSUME ch \in Seq(Records), NEW r \in Records, ch' = Append(ch, r)
    PROVE  /\ ch' \in Seq(Records) /\ Len(ch') = Len(ch) + 1
           /\ Queued' = Queued \cup {r}
           /\ Distinct /\ r \notin Queued => Distinct'
<1>1. /\ ch' \in Seq(Records) /\ Len(ch') = Len(ch) + 1 /\ Len(ch) \in Nat
      /\ \A i \in 1..Len(ch) : ch'[i] = ch[i]
      /\ ch'[Len(ch) + 1] = r
  OBVIOUS
<1>2. Queued' = Queued \cup {r}
  <2>1. 1..Len(ch') = (1..Len(ch)) \cup {Len(ch) + 1}
    BY <1>1
  <2>. QED  BY <1>1, <2>1 DEF Queued
<1>3. ASSUME Distinct, r \notin Queued, NEW i \in 1..Len(ch'), NEW j \in 1..Len(ch'), ch'[i] = ch'[j]
      PROVE  i = j
  <2>1. \A n \in 1..Len(ch') : n \in 1..Len(ch) \/ n = Len(ch) + 1
    BY <1>1
  <2>2. \A n \in 1..Len(ch) : ch[n] # r
    BY <1>3 DEF Queued
  <2>. QED  BY <1>1, <1>3, <2>1, <2>2 DEF Distinct
<1>. QED  BY <1>1, <1>2, <1>3 DEF Distinct

(* a receive takes the first record out *)
LEMMA TakeRemoves ==
    ASSUME ch \in Seq(Records), ch # <<>>, ch' = Tail(ch)
    PROVE  /\ ch' \in Seq(Records) /\ Len(ch') = Len(ch) - 1
           /\ Head(ch) \in Records
           /\ Queued = Queued' \cup {Head(ch)}
           /\ Distinct => Distinct' /\ Head(ch) \notin Queued'
<1>1. /\ ch' \in Seq(Records) /\ Len(ch') = Len(ch) - 1 /\ Len(ch) \in Nat /\ Len(ch) >= 1
      /\ \A i \in 1..Len(ch') : ch'[i] = ch[i + 1] /\ i + 1 \in 1..Len(ch)
      /\ Head(ch) = ch[1] /\ Head(ch) \in Records
  OBVIOUS
<1>2. Queued = Queued' \cup {Head(ch)}
  <2>1. ASSUME NEW i \in 1..Len(ch)  PROVE ch[i] \in Queued' \cup {Head(ch)}
    <3>1. CASE i = 1
      BY <3>1, <1>1
    <3>2. CASE i # 1
      <4>1. i - 1 \in 1..Len(ch') /\ (i - 1) + 1 = i
        BY <3>2, <1>1
      <4>2. ch'[i - 1] = ch[i]
        BY <4>1, <1>1
      <4>. QED  BY <4>1, <4>2 DEF Queued
    <3>. QED  BY <3>1, <3>2
  <2>2. ASSUME NEW i \in 1..Len(ch')  PROVE ch'[i] \in Queued
    BY <1>1 DEF Queued
  <2>3. Head(ch) \in Queued
    BY <1>1 DEF Queued
  <2>. QED  BY <2>1, <2>2, <2>3 DEF Queued
<1>3. ASSUME Distinct  PROVE Distinct' /\ Head(ch) \notin Queued'
  <2>1. \A i \in 1..Len(ch') : ch'[i] # ch[1]
    BY <1>1, <1>3 DEF Distinct
  <2>2. ASSUME NEW i \in 1..Len(ch'), NEW j \in 1..Len(ch'), ch'[i] = ch'[j]  PROVE i = j
    <3>1. i + 1 = j + 1
      BY <1>1, <1>3, <2>2 DEF Distinct
    <3>. QED  BY <3>1
  <2>. QED  BY <1>1, <2>1, <2>2 DEF Distinct, Queued
<1>. QED  BY <1>1, <1>2, <1>3

(* an empty buffer holds nothing *)
LEMMA EmptyQueue ==
    ASSUME ch = <<>>
    PROVE  Queued = {}
BY DEF Queued

(* the buffer holds records *)
LEMMA QueuedRecords ==
    ASSUME ch \in Seq(Records)
    PROVE  Queued \subseteq Records
BY DEF Queued

(* the WaitGroup is a set of records *)
LEMMA InFlightFinite ==
    IsFiniteSet(InFlight) /\ Cardinality(InFlight) \in Nat
<1>1. InFlight \subseteq Records
  BY DEF InFlight
<1>2. IsFiniteSet(InFlight)
  BY <1>1, AuditWriterAssumption, FS_Subset
<1>. QED  BY <1>2, FS_CardinalityType

(* at the start *)
LEMMA InitIInv == Init => IInv
<1> SUFFICES ASSUME Init PROVE IInv
  OBVIOUS
<1>1. Queued = {} /\ ch \in Seq(Records) /\ Len(ch) = 0
  BY EmptyQueue DEF Init
<1>2. TypeOK
  <2>1. ch \in Seq(Records) /\ Len(ch) <= QueueSize
    BY <1>1, AuditWriterAssumption
  <2>. QED  BY <2>1 DEF Init, TypeOK
<1>3. InFlight = {}
  BY <1>1, AuditWriterAssumption DEF Init, InFlight
<1>4. Counted
  BY <1>3, FS_EmptySet DEF Init, Counted
<1>5. NoSendOnClosed /\ HandedOverOnce /\ ExitedIsDrained /\ ClosedBySomeone /\ Flushed
  BY DEF Init, NoSendOnClosed, HandedOverOnce, ExitedIsDrained, ClosedBySomeone, HasClosed, Flushed, Enqueued
<1>6. Fresh /\ Distinct
  BY <1>1, AuditWriterAssumption DEF Init, Fresh, Distinct
<1>. QED  BY <1>2, <1>4, <1>5, <1>6 DEF IInv

-----------------------------------------------------------------------------
(* The handlers.                                                           *)

LEMMA EnqueueStartIInv ==
    ASSUME IInv, NEW r \in Records, EnqueueStart(r)
    PROVE  IInv'
<1>. USE DEF IInv, EnqueueStart, handlers, workers, closing, flushing, store
<1>1. TypeOK'
  BY DEF TypeOK
<1>2. /\ at[r] = "new" /\ at'[r] \in {"inline", "sending"}
      /\ \A q \in Records \ {r} : at'[q] = at[q]
      /\ Enqueued' = Enqueued /\ Queued' = Queued
  BY DEF TypeOK, Enqueued, Queued
<1>3. Counted'
  <2>1. CASE at'[r] = "sending"
    <3>1. InFlight' = InFlight \cup {r} /\ r \notin InFlight
      BY <1>2, <2>1 DEF InFlight, Fresh
    <3>2. Cardinality(InFlight') = Cardinality(InFlight) + 1
      BY <3>1, InFlightFinite, FS_AddElement
    <3>. QED  BY <2>1, <3>2 DEF Counted, TypeOK
  <2>2. CASE at'[r] = "inline"
    <3>1. InFlight' = InFlight
      BY <1>2, <2>2 DEF InFlight, Fresh
    <3>. QED  BY <2>2, <3>1 DEF Counted, TypeOK
  <2>. QED  BY <1>2, <2>1, <2>2
<1>4. NoSendOnClosed'
  BY <1>2 DEF NoSendOnClosed, TypeOK
<1>5. HandedOverOnce' /\ Fresh'
  BY <1>2 DEF HandedOverOnce, Fresh
<1>6. Distinct' /\ ExitedIsDrained' /\ ClosedBySomeone' /\ Flushed'
  BY <1>2 DEF Distinct, ExitedIsDrained, ClosedBySomeone, HasClosed, Flushed
<1>. QED  BY <1>1, <1>3, <1>4, <1>5, <1>6

(* nobody sends once the worker has left: the channel is closed *)
LEMMA SendIInv ==
    ASSUME IInv, NEW r \in Records, Send(r)
    PROVE  IInv'
<1>. USE DEF IInv, Send, handlers, workers, closing, flushing, store
<1>1. /\ at[r] = "sending" /\ at'[r] = "done"
      /\ \A q \in Records \ {r} : at'[q] = at[q]
      /\ Enqueued' = Enqueued \cup {r}
  BY DEF TypeOK, Enqueued
<1>2. r \notin Queued /\ r # hand /\ r \notin logged /\ r \notin failed
  BY <1>1 DEF Fresh
<1>3. /\ ch' \in Seq(Records) /\ Len(ch') = Len(ch) + 1 /\ Len(ch) \in Nat
      /\ Queued' = Queued \cup {r} /\ Distinct'
  BY <1>2, SendAdds DEF TypeOK
<1>4. TypeOK'
  BY <1>3, AuditWriterAssumption DEF TypeOK
<1>5. Counted'
  <2>1. InFlight' = InFlight
    BY <1>1, <1>3 DEF InFlight
  <2>. QED  BY <2>1 DEF Counted
<1>6. NoSendOnClosed' /\ ~closed
  BY <1>1 DEF NoSendOnClosed
<1>7. HandedOverOnce'
  BY <1>1, <1>2, <1>3 DEF HandedOverOnce
<1>8. Fresh'
  BY <1>1, <1>3 DEF Fresh
<1>9. ExitedIsDrained' /\ ClosedBySomeone' /\ Flushed'
  BY <1>1, <1>6 DEF ExitedIsDrained, ClosedBySomeone, HasClosed, Flushed
<1>. QED  BY <1>3, <1>4, <1>5, <1>6, <1>7, <1>8, <1>9

LEMMA PersistInlineIInv ==
    ASSUME IInv, NEW r \in Records, PersistInline(r)
    PROVE  IInv'
<1>. USE DEF IInv, PersistInline, Persist, handlers, workers, closing, flushing, store
<1>1. TypeOK'
  BY DEF TypeOK
<1>2. /\ at[r] = "inline" /\ at'[r] = "done"
      /\ \A q \in Records \ {r} : at'[q] = at[q]
      /\ Enqueued' = Enqueued \cup {r} /\ Queued' = Queued
  BY DEF TypeOK, Enqueued, Queued
<1>3. r \notin Queued /\ r # hand /\ r \notin logged /\ r \notin failed
  BY <1>2 DEF Fresh
<1>4. \/ logged' = logged \cup {r} /\ failed' = failed
      \/ failed' = failed \cup {r} /\ logged' = logged
  OBVIOUS
<1>5. Counted'
  <2>1. InFlight' = InFlight
    BY <1>2, <1>3 DEF InFlight
  <2>. QED  BY <2>1 DEF Counted
<1>6. NoSendOnClosed'
  BY <1>2 DEF NoSendOnClosed
<1>7. HandedOverOnce'
  BY <1>2, <1>3, <1>4 DEF HandedOverOnce
<1>8. Fresh'
  BY <1>2, <1>4 DEF Fresh
<1>9. Distinct' /\ ExitedIsDrained' /\ ClosedBySomeone' /\ Flushed'
  BY <1>2, <1>4 DEF Distinct, ExitedIsDrained, ClosedBySomeone, HasClosed, Flushed
<1>. QED  BY <1>1, <1>5, <1>6, <1>7, <1>8, <1>9

-----------------------------------------------------------------------------
(* The worker.                                                             *)

LEMMA TakeIInv ==
    ASSUME IInv, Take
    PROVE  IInv'
<1>. USE DEF IInv, Take, handlers, workers, closing, flushing, store
<1>. DEFINE h == Head(ch)
<1>1. /\ ch' \in Seq(Records) /\ Len(ch') = Len(ch) - 1 /\ Len(ch) \in Nat
      /\ h \in Records /\ Queued = Queued' \cup {h}
      /\ Distinct' /\ h \notin Queued'
  BY TakeRemoves DEF TypeOK
<1>2. /\ hand = None /\ hand' = h /\ at' = at /\ h # None
      /\ Enqueued' = Enqueued
  BY <1>1, AuditWriterAssumption DEF Enqueued
<1>. HIDE DEF h
<1>3. TypeOK'
  BY <1>1, <1>2, AuditWriterAssumption DEF TypeOK
<1>4. Counted'
  <2>1. InFlight' = InFlight
    BY <1>1, <1>2, AuditWriterAssumption DEF InFlight
  <2>. QED  BY <2>1 DEF Counted
<1>5. NoSendOnClosed'
  BY DEF NoSendOnClosed
<1>6. HandedOverOnce'
  <2>1. logged' = logged /\ failed' = failed /\ \A q \in Enqueued : q # None
    BY AuditWriterAssumption DEF Enqueued
  <2>2. ASSUME NEW q \in Enqueued
        PROVE  \/ q \in Queued' /\ q # h /\ q \notin logged \cup failed
               \/ q = h /\ q \notin Queued' \cup logged \cup failed
               \/ q \in logged /\ q \notin Queued' \cup failed /\ q # h
               \/ q \in failed /\ q \notin Queued' \cup logged /\ q # h
    BY <1>1, <1>2, <2>1 DEF HandedOverOnce
  <2>. QED  BY <1>2, <2>1, <2>2 DEF HandedOverOnce
<1>7. Fresh'
  BY <1>1, <1>2 DEF Fresh
<1>8. ExitedIsDrained' /\ ClosedBySomeone' /\ Flushed'
  BY <1>2 DEF ExitedIsDrained, ClosedBySomeone, HasClosed, Flushed
<1>. QED  BY <1>1, <1>3, <1>4, <1>5, <1>6, <1>7, <1>8

LEMMA PersistTakenIInv ==
    ASSUME IInv, PersistTaken
    PROVE  IInv'
<1>. USE DEF IInv, PersistTaken, Persist, handlers, workers, closing, flushing, store
<1>1. /\ hand \in Records /\ hand' = None /\ None \notin Records /\ at' = at
      /\ Enqueued' = Enqueued /\ Queued' = Queued
  BY AuditWriterAssumption DEF TypeOK, Enqueued, Queued
<1>2. at[hand] = "done" /\ hand \in Enqueued
  BY <1>1 DEF Fresh, Enqueued
<1>3. hand \notin Queued /\ hand \notin logged /\ hand \notin failed
  BY <1>1, <1>2 DEF HandedOverOnce
<1>4. \/ logged' = logged \cup {hand} /\ failed' = failed
      \/ failed' = failed \cup {hand} /\ logged' = logged
  OBVIOUS
<1>5. Counted' /\ inflt' \in Nat
  <2>1. InFlight' = InFlight \ {hand} /\ hand \in InFlight
    BY <1>1, <1>2, <1>3 DEF InFlight
  <2>2. Cardinality(InFlight') = Cardinality(InFlight) - 1
    BY <2>1, InFlightFinite, FS_RemoveElement
  <2>3. IsFiniteSet(InFlight')
    BY <2>1, InFlightFinite, FS_RemoveElement
  <2>4. Cardinality(InFlight') \in Nat
    BY <2>3, FS_CardinalityType
  <2>. QED  BY <2>2, <2>4 DEF Counted
<1>6. TypeOK'
  BY <1>1, <1>4, <1>5 DEF TypeOK
<1>7. NoSendOnClosed'
  BY <1>1 DEF NoSendOnClosed
<1>8. HandedOverOnce'
  <2>1. \A q \in Enqueued : q \in Records
    BY DEF Enqueued
  <2>. QED  BY <1>1, <1>3, <1>4, <2>1 DEF HandedOverOnce
<1>9. Fresh'
  BY <1>1, <1>2, <1>4 DEF Fresh
<1>10. Distinct' /\ ExitedIsDrained' /\ ClosedBySomeone' /\ Flushed'
  BY <1>1, <1>4 DEF Distinct, ExitedIsDrained, ClosedBySomeone, HasClosed, Flushed
<1>. QED  BY <1>5, <1>6, <1>7, <1>8, <1>9, <1>10

(* the invariant reads nothing else of the state *)
LEMMA SameRecords ==
    ASSUME IInv, UNCHANGED <<handlers, ch, hand, store>>
    PROVE  Enqueued' = Enqueued /\ Queued' = Queued /\ HandedOverOnce' /\ Fresh' /\ Distinct' /\ Counted'
<1>1. Enqueued' = Enqueued /\ Queued' = Queued
  BY DEF handlers, store, Enqueued, Queued
<1>2. InFlight' = InFlight
  BY <1>1 DEF handlers, InFlight
<1>. QED  BY <1>1, <1>2 DEF IInv, handlers, store, HandedOverOnce, Fresh, Distinct, Counted

LEMMA WorkerExitIInv ==
    ASSUME IInv, WorkerExit
    PROVE  IInv'
<1>. USE DEF WorkerExit, handlers, closing, flushing, store
<1>1. Enqueued' = Enqueued /\ HandedOverOnce' /\ Fresh' /\ Distinct' /\ Counted'
  BY SameRecords
<1>2. TypeOK' /\ NoSendOnClosed' /\ ExitedIsDrained' /\ ClosedBySomeone' /\ Flushed'
  BY <1>1 DEF IInv, TypeOK, NoSendOnClosed, ExitedIsDrained, ClosedBySomeone, HasClosed, Flushed
<1>. QED  BY <1>1, <1>2 DEF IInv

-----------------------------------------------------------------------------
(* Close and Flush.                                                        *)

(* the write lock waits for the readers: nobody is sending when the        *)
(* channel is closed                                                       *)
LEMMA CloserIInv ==
    ASSUME IInv, NEW c \in Closers, Close(c) \/ Closing(c)
    PROVE  IInv'
<1>. USE DEF Close, Closing, CloseLocked, CloseDone, CloseTimeout, workers, flushing
<1>1. Enqueued' = Enqueued /\ HandedOverOnce' /\ Fresh' /\ Distinct' /\ Counted'
  BY SameRecords
<1>2. TypeOK'
  BY DEF IInv, TypeOK, handlers, store
<1>3. NoSendOnClosed'
  BY DEF IInv, TypeOK, handlers, NoSendOnClosed, Readers
<1>4. ExitedIsDrained' /\ Flushed'
  BY <1>1 DEF IInv, TypeOK, handlers, store, ExitedIsDrained, Flushed
<1>5. ClosedBySomeone'
  <2>1. \A e \in Closers : HasClosed(e) => HasClosed(e)'
    BY DEF IInv, TypeOK, HasClosed
  <2>2. closed' => closed \/ HasClosed(c)'
    BY DEF IInv, TypeOK, HasClosed
  <2>3. \A e \in Closers : closer'[e] = "already" => closed'
    BY DEF IInv, TypeOK, ClosedBySomeone
  <2>. QED  BY <2>1, <2>2, <2>3 DEF IInv, ClosedBySomeone
<1>. QED  BY <1>1, <1>2, <1>3, <1>4, <1>5 DEF IInv

LEMMA FlushIInv ==
    ASSUME IInv, Flush
    PROVE  IInv'
<1>. USE DEF Flush, workers, closing
<1>1. Enqueued' = Enqueued /\ HandedOverOnce' /\ Fresh' /\ Distinct' /\ Counted'
  BY SameRecords
<1>2. TypeOK' /\ NoSendOnClosed' /\ ExitedIsDrained' /\ ClosedBySomeone' /\ Flushed'
  BY <1>1 DEF IInv, TypeOK, handlers, store, Enqueued, NoSendOnClosed, ExitedIsDrained, ClosedBySomeone, HasClosed, Flushed
<1>. QED  BY <1>1, <1>2 DEF IInv

(* a WaitGroup at zero: nothing is in the buffer or with the worker *)
LEMMA FlushDoneIInv ==
    ASSUME IInv, FlushDone
    PROVE  IInv'
<1>. USE DEF FlushDone, workers, closing
<1>1. Enqueued' = Enqueued /\ HandedOverOnce' /\ Fresh' /\ Distinct' /\ Counted'
  BY SameRecords
<1>2. InFlight = {}
  BY InFlightFinite, FS_EmptySet DEF IInv, Counted
<1>3. \A r \in Enqueued : r \in Records /\ r \notin Queued /\ r # hand
  BY <1>2 DEF InFlight, Enqueued
<1>4. Enqueued \subseteq logged \cup failed
  BY <1>3 DEF IInv, HandedOverOnce
<1>5. TypeOK' /\ NoSendOnClosed' /\ ExitedIsDrained' /\ ClosedBySomeone' /\ Flushed'
  BY <1>1, <1>4 DEF IInv, TypeOK, handlers, store, NoSendOnClosed, ExitedIsDrained, ClosedBySomeone, HasClosed, Flushed
<1>. QED  BY <1>1, <1>5 DEF IInv

-----------------------------------------------------------------------------
LEMMA NextIInv == IInv /\ [Next]_vars => IInv'
<1> SUFFICES ASSUME IInv, [Next]_vars PROVE IInv'
  OBVIOUS
<1>1. ASSUME NEW r \in Records, Handler(r)  PROVE IInv'
  BY <1>1, EnqueueStartIInv, SendIInv, PersistInlineIInv DEF Handler
<1>2. ASSUME NEW c \in Closers, Close(c) \/ Closing(c)  PROVE IInv'
  BY <1>2, CloserIInv
<1>3. CASE Worker
  BY <1>3, TakeIInv, PersistTakenIInv, WorkerExitIInv DEF Worker
<1>4. CASE Flush \/ FlushDone
  BY <1>4, FlushIInv, FlushDoneIInv
<1>5. CASE UNCHANGED vars
  <2>1. Enqueued' = Enqueued /\ HandedOverOnce' /\ Fresh' /\ Distinct' /\ Counted'
    BY <1>5, SameRecords DEF vars, workers
  <2>2. TypeOK' /\ NoSendOnClosed' /\ ExitedIsDrained' /\ ClosedBySomeone' /\ Flushed'
    BY <1>5, <2>1 DEF vars, handlers, workers, closing, flushing, store, IInv,
         TypeOK, NoSendOnClosed, ExitedIsDrained, ClosedBySomeone, HasClosed, Flushed
  <2>. QED  BY <2>1, <2>2 DEF IInv
<1>. QED  BY <1>1, <1>2, <1>3, <1>4, <1>5 DEF Next

(* what Close and Flush promise follows from it *)
LEMMA IInvDrained == IInv => DrainedOnReturn
<1> SUFFICES ASSUME IInv PROVE DrainedOnReturn
  OBVIOUS
<1>1. ASSUME NEW c \in Closers, closer[c] = "drained"
      PROVE  Enqueued \subseteq logged \cup failed
  <2>1. ch = <<>> /\ hand = None
    BY <1>1 DEF IInv, ExitedIsDrained
  <2>2. \A r \in Enqueued : r \in Records /\ r \notin Queued /\ r # hand
    BY <2>1, EmptyQueue, AuditWriterAssumption DEF Enqueued
  <2>. QED  BY <2>2 DEF IInv, HandedOverOnce
<1>. QED  BY <1>1 DEF IInv, ClosedBySomeone, Flushed, DrainedOnReturn

LEMMA IInvAlways == Spec => []IInv
BY InitIInv, NextIInv, PTL DEF Spec

(* audit.Writer: its variables keep their types; the WaitGroup never goes  *)
(* below zero, which would panic.                                          *)
THEOREM WriterTypeCorrect == Spec => []TypeOK
<1>1. IInv => TypeOK
  BY DEF IInv
<1>. QED  BY <1>1, IInvAlways, PTL

(* Enqueue and Close: no goroutine is ever sending on the closed channel,  *)
(* for any number of handlers and of closers.                              *)
THEOREM NeverSendsOnClosed == Spec => []NoSendOnClosed
<1>1. IInv => NoSendOnClosed
  BY DEF IInv
<1>. QED  BY <1>1, IInvAlways, PTL

(* Enqueue: a record that was handed over is in one place - the buffer,    *)
(* the worker's hand, the store or the failures that were logged.          *)
THEOREM NothingDropped == Spec => []HandedOverOnce
<1>1. IInv => HandedOverOnce
  BY DEF IInv
<1>. QED  BY <1>1, IInvAlways, PTL

(* Close and Flush: when the Close that closed the channel returns without *)
(* an error, or a Flush returns, what was handed over before has been      *)
(* given to the store; a Close that returns at once has another before it. *)
THEOREM ReturnsAreDrained == Spec => []DrainedOnReturn
<1>. QED  BY IInvDrained, IInvAlways, PTL
=============================================================================
