----------------------------- MODULE AuditWriter -----------------------------
(***************************************************************************)
(* audit.Writer (audit/writer.go): handlers hand records to a buffered     *)
(* channel under a read lock, one worker drains it into the store, Close   *)
(* takes the write lock, closes the channel and waits for the worker, and  *)
(* Flush waits for what is in flight.  The store is what AuditLog shows    *)
(* Append to be: one step, which may fail.                                 *)
(***************************************************************************)
EXTENDS Integers, Sequences, FiniteSets

CONSTANTS
    Records,     \* records, each enqueued by a handler goroutine of its own
    Closers,     \* goroutines that call Close
    QueueSize,   \* the capacity of the channel
    None,        \* no record
    Faults       \* a subset of {"storeError", "closeTimeout"}

ASSUME AuditWriterAssumption ==
    /\ QueueSize \in Nat \ {0}
    /\ IsFiniteSet(Records)
    /\ None \notin Records
    /\ Faults \subseteq {"storeError", "closeTimeout"}

VARIABLES
    at,        \* where the Enqueue of each record is
    ch,        \* the channel's buffer
    closed,    \* Writer.closed, which is also whether ch is closed
    hand,      \* the record the worker is persisting
    worker,    \* "running" or "exited"
    closer,    \* where each Close is
    flusher,   \* where Flush is
    inflt,     \* the in-flight WaitGroup
    promised,  \* what Flush was called to wait for
    logged,    \* records in the store
    failed     \* records whose Append failed: reported and gone

handlers == <<at, inflt>>
workers  == <<ch, hand, worker>>
closing  == <<closed, closer>>
flushing == <<flusher, promised>>
store    == <<logged, failed>>
vars     == <<handlers, workers, closing, flushing, store>>

Init ==
    /\ at = [r \in Records |-> "new"]
    /\ ch = <<>>
    /\ closed = FALSE
    /\ hand = None
    /\ worker = "running"
    /\ closer = [c \in Closers |-> "idle"]
    /\ flusher = "idle"
    /\ inflt = 0
    /\ promised = {}
    /\ logged = {}
    /\ failed = {}

Enqueued == { r \in Records : at[r] = "done" }
Queued   == { ch[i] : i \in 1..Len(ch) }

(* mutant: the read lock is let go before the send *)
ReadersInline == { r \in Records : at[r] = "inline" }

(* sync.RWMutex: the goroutines that hold the read lock; a Lock that waits *)
(* for them keeps further ones out                                         *)
Readers == { r \in Records : at[r] \in {"sending", "inline"} }
LockPending == \E c \in Closers : closer[c] = "locking"

(* persist: the store takes the record, or it fails and that is logged *)
Persist(r) ==
    \/ logged' = logged \cup {r} /\ UNCHANGED failed
    \/ "storeError" \in Faults /\ failed' = failed \cup {r} /\ UNCHANGED logged

-----------------------------------------------------------------------------
(* Enqueue.                                                                *)

(* the read lock is taken and closed, which it guards, is tested *)
EnqueueStart(r) ==
    /\ at[r] = "new"
    /\ ~LockPending
    /\ \/ closed /\ at' = [at EXCEPT ![r] = "inline"] /\ UNCHANGED inflt
       \/ ~closed /\ at' = [at EXCEPT ![r] = "sending"] /\ inflt' = inflt + 1
    /\ UNCHANGED <<workers, closing, flushing, store>>

(* mutant: a send that does not wait for room *)
SendDropping(r) ==
    /\ at[r] = "sending"
    /\ ch' = IF Len(ch) < QueueSize THEN Append(ch, r) ELSE ch
    /\ at' = [at EXCEPT ![r] = "done"]
    /\ UNCHANGED <<inflt, hand, worker, closing, flushing, store>>

Send(r) ==
    /\ at[r] = "sending"
    /\ Len(ch) < QueueSize
    /\ ch' = Append(ch, r)
    /\ at' = [at EXCEPT ![r] = "done"]
    /\ UNCHANGED <<inflt, hand, worker, closing, flushing, store>>

PersistInline(r) ==
    /\ at[r] = "inline"
    /\ Persist(r)
    /\ at' = [at EXCEPT ![r] = "done"]
    /\ UNCHANGED <<inflt, workers, closing, flushing>>

-----------------------------------------------------------------------------
(* The worker.                                                             *)

(* mutant: a record is counted off before it is persisted *)
TakeCounted ==
    /\ worker = "running" /\ hand = None /\ ch # <<>>
    /\ hand' = Head(ch)
    /\ ch' = Tail(ch)
    /\ inflt' = inflt - 1
    /\ UNCHANGED <<at, worker, closing, flushing, store>>

Take ==
    /\ worker = "running" /\ hand = None /\ ch # <<>>
    /\ hand' = Head(ch)
    /\ ch' = Tail(ch)
    /\ UNCHANGED <<handlers, worker, closing, flushing, store>>

(* mutant: the worker gives up at the first failed append *)
PersistTakenOrQuit ==
    /\ hand # None
    /\ Persist(hand)
    /\ hand' = None
    /\ inflt' = inflt - 1
    /\ worker' = IF UNCHANGED logged THEN "exited" ELSE worker
    /\ UNCHANGED <<at, ch, closing, flushing>>

PersistTaken ==
    /\ hand # None
    /\ Persist(hand)
    /\ hand' = None
    /\ inflt' = inflt - 1
    /\ UNCHANGED <<at, ch, worker, closing, flushing>>

(* mutant: the worker stops at the close, whatever is still buffered *)
WorkerExitEarly ==
    /\ worker = "running" /\ hand = None /\ closed
    /\ worker' = "exited"
    /\ UNCHANGED <<handlers, ch, hand, closing, flushing, store>>

(* the range over a closed channel ends when its buffer is empty *)
WorkerExit ==
    /\ worker = "running" /\ hand = None /\ closed /\ ch = <<>>
    /\ worker' = "exited"
    /\ UNCHANGED <<handlers, ch, hand, closing, flushing, store>>

-----------------------------------------------------------------------------
(* Close and Flush.                                                        *)

Close(c) ==
    /\ closer[c] = "idle"
    /\ closer' = [closer EXCEPT ![c] = "locking"]
    /\ UNCHANGED <<handlers, workers, closed, flushing, store>>

(* the write lock is held: the first Close closes the channel, a later one *)
(* returns at once                                                         *)
CloseLocked(c) ==
    /\ closer[c] = "locking"
    /\ Readers = {}
    /\ \/ closed /\ closer' = [closer EXCEPT ![c] = "already"] /\ UNCHANGED closed
       \/ ~closed /\ closer' = [closer EXCEPT ![c] = "draining"] /\ closed' = TRUE
    /\ UNCHANGED <<handlers, workers, flushing, store>>

CloseDone(c) ==
    /\ closer[c] = "draining"
    /\ worker = "exited"
    /\ closer' = [closer EXCEPT ![c] = "drained"]
    /\ UNCHANGED <<handlers, workers, closed, flushing, store>>

CloseTimeout(c) ==
    /\ "closeTimeout" \in Faults
    /\ closer[c] = "draining"
    /\ closer' = [closer EXCEPT ![c] = "timedOut"]
    /\ UNCHANGED <<handlers, workers, closed, flushing, store>>

Flush ==
    /\ flusher = "idle"
    /\ flusher' = "waiting"
    /\ promised' = Enqueued
    /\ UNCHANGED <<handlers, workers, closing, store>>

FlushDone ==
    /\ flusher = "waiting"
    /\ inflt = 0
    /\ flusher' = "returned"
    /\ UNCHANGED <<handlers, workers, closing, promised, store>>

-----------------------------------------------------------------------------
Handler(r) == EnqueueStart(r) \/ Send(r) \/ PersistInline(r)
Closing(c) == CloseLocked(c) \/ CloseDone(c) \/ CloseTimeout(c)
Worker     == Take \/ PersistTaken \/ WorkerExit

Next ==
    \/ \E r \in Records : Handler(r)
    \/ \E c \in Closers : Close(c) \/ Closing(c)
    \/ Worker
    \/ Flush \/ FlushDone

Spec == Init /\ [][Next]_vars

(* Goroutines run on, and who has begun to enqueue is served in turn, as   *)
(* Go's channels serve blocked senders.  Append has no deadline            *)
(* (context.Background()): that it returns is assumed of the store.        *)
Fairness ==
    /\ \A r \in Records : SF_vars(Send(r)) /\ WF_vars(PersistInline(r))
    /\ \A c \in Closers : WF_vars(Closing(c))
    /\ WF_vars(Worker) /\ WF_vars(FlushDone)

FairSpec == Spec /\ Fairness

-----------------------------------------------------------------------------
(* Properties.                                                             *)

(* Every variable has its type.                                            *)
TypeOK ==
    /\ at \in [Records -> {"new", "sending", "inline", "done"}]
    /\ ch \in Seq(Records) /\ Len(ch) <= QueueSize
    /\ closed \in BOOLEAN
    /\ hand \in Records \cup {None}
    /\ worker \in {"running", "exited"}
    /\ closer \in [Closers -> {"idle", "locking", "already", "draining", "drained", "timedOut"}]
    /\ flusher \in {"idle", "waiting", "returned"}
    /\ inflt \in Nat
    /\ promised \subseteq Records
    /\ logged \subseteq Records
    /\ failed \subseteq Records

(* mu, "so a send can never race the close": no goroutine is sending on a  *)
(* closed channel, which would panic.                                      *)
NoSendOnClosed == closed => \A r \in Records : at[r] # "sending"

(* Enqueue "does not drop": a record that was handed over is in the        *)
(* buffer, with the worker, or was given to the store - in one of them.    *)
HandedOverOnce ==
    \A r \in Enqueued :
        \/ r \in Queued /\ r # hand /\ r \notin logged \cup failed
        \/ r = hand /\ r \notin Queued \cup logged \cup failed
        \/ r \in logged /\ r \notin Queued \cup failed /\ r # hand
        \/ r \in failed /\ r \notin Queued \cup logged /\ r # hand

(* the Close that closed the channel *)
HasClosed(c) == closer[c] \in {"draining", "drained", "timedOut"}

(* Close "drains what is queued, and waits for the worker to exit": once   *)
(* the Close that closed the channel has returned without an error, every  *)
(* record handed over so far has been given to the store.  A Close that    *)
(* finds the channel closed returns nil at once, drained or not; another   *)
(* Close is then draining, has drained or has given up.  Flush "blocks     *)
(* until every enqueued record has been persisted": when it returns, every *)
(* record handed over before it has been given to the store, closing races *)
(* included.  (The store may have refused it: persist logs that and the    *)
(* record is counted off.)                                                 *)
DrainedOnReturn ==
    /\ \A c \in Closers : closer[c] = "drained" => Enqueued \subseteq logged \cup failed
    /\ \A c \in Closers : closer[c] = "already" => \E e \in Closers : HasClosed(e)
    /\ flusher = "returned" => promised \subseteq logged \cup failed

(* Nobody waits for ever, though a sender blocks with the read lock held,  *)
(* a waiting Close keeps further readers out and appends fail: Enqueue ("a *)
(* blocked send still makes progress") hands its record over, Close        *)
(* "waits for the worker to exit (bounded by ctx)", and Flush returns.     *)
AllReturn ==
    /\ \A r \in Records : (at[r] # "new") ~> (at[r] = "done")
    /\ \A c \in Closers :
         (closer[c] = "locking") ~> (closer[c] \in {"already", "drained", "timedOut"})
    /\ (flusher = "waiting") ~> (flusher = "returned")
=============================================================================
