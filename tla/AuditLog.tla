------------------------------ MODULE AuditLog -------------------------------
(***************************************************************************)
(* PostgresStore.Append (audit/postgres.go) as several service instances   *)
(* run it at once: one transaction that takes the org's advisory lock,     *)
(* reads the tail of the org's hash chain, inserts the record linked to it *)
(* and commits.  Statements are READ COMMITTED: each sees what is          *)
(* committed when it starts.                                               *)
(*                                                                         *)
(* SHA-256 is taken to be injective and a record is in the table at most   *)
(* once, so a record stands for its own hash.                              *)
(***************************************************************************)
EXTENDS Integers, FiniteSets

CONSTANTS
    Appenders,   \* goroutines that call Append, of any number of processes
    Records,     \* decision records
    Org,         \* the org of each record
    Genesis,     \* GenesisPrev
    MaxSeq,      \* bound on the sequence numbers drawn
    Faults       \* a subset of {"storeError", "ambiguousCommit"}

Orgs == { Org[r] : r \in Records }
Free == "free"
NoRec == "none"

ASSUME AuditLogAssumption ==
    /\ Org \in [Records -> Orgs]
    /\ Genesis \notin Records
    /\ Free \notin Appenders
    /\ MaxSeq \in Nat
    /\ Faults \subseteq {"storeError", "ambiguousCommit"}

VARIABLES
    rows,      \* the committed rows of the decisions table
    nextSeq,   \* the BIGSERIAL counter, which no rollback takes back
    lock,      \* who holds each org's advisory lock
    tx,        \* each appender's transaction
    acked,     \* records whose Append returned nil
    refused    \* records whose Append returned an error

vars == <<rows, nextSeq, lock, tx, acked, refused>>

Rows == [rec : Records, seq : Nat, prev : Records \cup {Genesis}]
Idle == [at |-> "idle", rec |-> NoRec, prev |-> Genesis, new |-> {}]
Active(a) == tx[a].at # "idle"

Init ==
    /\ rows = {}
    /\ nextSeq = 0
    /\ lock = [o \in Orgs |-> Free]
    /\ tx = [a \in Appenders |-> Idle]
    /\ acked = {}
    /\ refused = {}

OrgRows(o) == { x \in rows : Org[x.rec] = o }

(* the end of a transaction releases its advisory lock *)
Unlock(a) == [o \in Orgs |-> IF lock[o] = a THEN Free ELSE lock[o]]

-----------------------------------------------------------------------------
(* Append.                                                                 *)

Begin(a, r) ==
    /\ ~Active(a)
    /\ nextSeq + Cardinality({ b \in Appenders : Active(b) }) < MaxSeq
    /\ tx' = [tx EXCEPT ![a] = [Idle EXCEPT !.at = "lock", !.rec = r]]
    /\ UNCHANGED <<rows, nextSeq, lock, acked, refused>>

(* mutant: the advisory lock is tried but not waited for *)
LockTried(a) ==
    /\ tx[a].at = "lock"
    /\ lock' = IF lock[Org[tx[a].rec]] = Free
               THEN [lock EXCEPT ![Org[tx[a].rec]] = a] ELSE lock
    /\ tx' = [tx EXCEPT ![a].at = "tail"]
    /\ UNCHANGED <<rows, nextSeq, acked, refused>>

(* pg_advisory_xact_lock *)
Lock(a) ==
    /\ tx[a].at = "lock"
    /\ lock[Org[tx[a].rec]] = Free
    /\ lock' = [lock EXCEPT ![Org[tx[a].rec]] = a]
    /\ tx' = [tx EXCEPT ![a].at = "tail"]
    /\ UNCHANGED <<rows, nextSeq, acked, refused>>

(* mutant: the newest row of any org *)
ChainTailOfTable(o) ==
    IF rows = {} THEN Genesis
    ELSE (CHOOSE x \in rows : \A y \in rows : y.seq <= x.seq).rec

(* mutant: an org without rows starts from an empty hash *)
ChainTailEmpty(o) ==
    IF OrgRows(o) = {} THEN NoRec
    ELSE (CHOOSE x \in OrgRows(o) : \A y \in OrgRows(o) : y.seq <= x.seq).rec

(* ORDER BY seq DESC LIMIT 1, or the genesis of an org without rows *)
ChainTail(o) ==
    IF OrgRows(o) = {} THEN Genesis
    ELSE (CHOOSE x \in OrgRows(o) : \A y \in OrgRows(o) : y.seq <= x.seq).rec

ReadTail(a) ==
    /\ tx[a].at = "tail"
    /\ tx' = [tx EXCEPT ![a].at = "insert", ![a].prev = ChainTail(Org[tx[a].rec])]
    /\ UNCHANGED <<rows, nextSeq, lock, acked, refused>>

(* the unique indexes: (org_id, decision_id) and (org_id, prev_hash) *)
SameDecision(x, y) == x.rec = y.rec
SamePrev(x, y)     == Org[x.rec] = Org[y.rec] /\ x.prev = y.prev

(* mutant: a plain INSERT into a table without the unique indexes *)
InsertUnchecked(a) ==
    /\ tx[a].at = "insert"
    /\ tx' = [tx EXCEPT ![a].at = "commit",
                        ![a].new = {[rec |-> tx[a].rec, seq |-> nextSeq + 1, prev |-> tx[a].prev]}]
    /\ nextSeq' = nextSeq + 1
    /\ UNCHANGED <<rows, lock, acked, refused>>

(* INSERT ... ON CONFLICT (org_id, decision_id) DO NOTHING: it waits for   *)
(* transactions with conflicting rows and leaves a logged decision as it   *)
(* is; for a second successor of a row see Refused                         *)
Insert(a) ==
    /\ tx[a].at = "insert"
    /\ LET x == [rec |-> tx[a].rec, seq |-> nextSeq + 1, prev |-> tx[a].prev] IN
       /\ \A b \in Appenders \ {a} : \A y \in tx[b].new :
             ~SameDecision(x, y) /\ ~SamePrev(x, y)
       /\ \/ /\ \E y \in rows : SameDecision(x, y)
             /\ tx' = [tx EXCEPT ![a].at = "commit"]
          \/ /\ \A y \in rows : ~SameDecision(x, y) /\ ~SamePrev(x, y)
             /\ tx' = [tx EXCEPT ![a].at = "commit", ![a].new = {x}]
    /\ nextSeq' = nextSeq + 1
    /\ UNCHANGED <<rows, lock, acked, refused>>

(* the row breaks the unique index on (org_id, prev_hash) *)
Refused(a) ==
    /\ tx[a].at = "insert"
    /\ \A y \in rows : ~SameDecision(tx[a], y)
    /\ \E y \in rows : SamePrev(tx[a], y)

(* mutant: the rollback deferred after Begin runs instead of the commit *)
CommitRolledBack(a) ==
    /\ tx[a].at = "commit"
    /\ acked' = acked \cup {tx[a].rec}
    /\ tx' = [tx EXCEPT ![a] = Idle]
    /\ lock' = Unlock(a)
    /\ UNCHANGED <<rows, nextSeq, refused>>

(* mutant: the advisory lock is the session's, not the transaction's *)
CommitKeepsLock(a) ==
    /\ tx[a].at = "commit"
    /\ rows' = rows \cup tx[a].new
    /\ acked' = acked \cup {tx[a].rec}
    /\ tx' = [tx EXCEPT ![a] = Idle]
    /\ UNCHANGED <<nextSeq, lock, refused>>

(* Commit; a connection lost at commit time may hide that it succeeded *)
Commit(a) ==
    /\ tx[a].at = "commit"
    /\ rows' = rows \cup tx[a].new
    /\ \/ acked' = acked \cup {tx[a].rec} /\ UNCHANGED refused
       \/ /\ "ambiguousCommit" \in Faults
          /\ refused' = refused \cup {tx[a].rec} /\ UNCHANGED acked
    /\ tx' = [tx EXCEPT ![a] = Idle]
    /\ lock' = Unlock(a)
    /\ UNCHANGED nextSeq

(* a statement fails, or the process dies: the transaction is rolled back, *)
(* but for a sequence number that the INSERT may have drawn                *)
Rollback(a) ==
    /\ "storeError" \in Faults \/ Refused(a)
    /\ Active(a)
    /\ refused' = refused \cup {tx[a].rec}
    /\ nextSeq' \in IF tx[a].at = "insert" THEN {nextSeq, nextSeq + 1} ELSE {nextSeq}
    /\ tx' = [tx EXCEPT ![a] = Idle]
    /\ lock' = Unlock(a)
    /\ UNCHANGED <<rows, acked>>

Step(a) == Lock(a) \/ ReadTail(a) \/ Insert(a) \/ Commit(a)

Next == \E a \in Appenders :
            (\E r \in Records : Begin(a, r)) \/ Step(a) \/ Rollback(a)

Spec == Init /\ [][Next]_vars

(* Advisory locks queue, so a waiter is served in the end. *)
FairSpec == Spec /\ \A a \in Appenders : SF_vars(Step(a))

-----------------------------------------------------------------------------
(* Properties.                                                             *)

(* Every variable has its type.                                            *)
TypeOK ==
    /\ rows \subseteq Rows
    /\ nextSeq \in Nat
    /\ lock \in [Orgs -> Appenders \cup {Free}]
    /\ tx \in [Appenders -> [at : {"idle", "lock", "tail", "insert", "commit"},
                             rec : Records \cup {NoRec},
                             prev : Records \cup {Genesis},
                             new : SUBSET Rows]]
    /\ acked \subseteq Records
    /\ refused \subseteq Records

(* Append: "so the chain stays linear" - in the order of seq, each row of  *)
(* an org links to the row before it and the first one to the genesis.     *)
Before(x) == { y \in OrgRows(Org[x.rec]) : y.seq < x.seq }

ChainLinear ==
    \A x \in rows :
        \/ Before(x) = {} /\ x.prev = Genesis
        \/ \E y \in Before(x) : x.prev = y.rec /\ \A z \in Before(x) : z.seq <= y.seq

(* Append: what it acknowledged is in the table.                           *)
AckedIsLogged == \A r \in acked : \E x \in rows : x.rec = r

(* Append, "the chain's tail must not move between the read below and the  *)
(* insert": the advisory lock makes appends wait for each other, so that   *)
(* no INSERT ever meets the unique index on (org_id, prev_hash), whatever  *)
(* has failed before.                                                      *)
NeverForks == \A a \in Appenders : ~Refused(a)

(* Append: it returns, however many others compete for the org's lock.     *)
AppendReturns == \A a \in Appenders : Active(a) ~> ~Active(a)

(* audit.Store, "linear and gap-free": rows become visible in the order of *)
(* seq, one at a time and once each, so that a listing that pages by seq   *)
(* never steps over a row that appears behind its cursor.                  *)
OrgChain == [o \in Orgs |->
    [i \in 1..Cardinality(OrgRows(o)) |->
        (CHOOSE x \in OrgRows(o) : Cardinality(Before(x)) = i - 1).rec]]

Chain == INSTANCE AuditChain WITH chain <- OrgChain
ImplementsChain == Chain!Spec
=============================================================================
