---------------------------- MODULE AuditLogProof ----------------------------
(***************************************************************************)
(* The per-org hash chain stays linear and implements AuditChain, for any  *)
(* number of appenders, records and orgs, under every fault of AuditLog.   *)
(***************************************************************************)
EXTENDS AuditLog, Sequences, FiniteSetTheorems, TLAPS

-----------------------------------------------------------------------------
(* The inductive invariant.                                                *)

(* The advisory lock: whoever is past it holds its org's lock.             *)
HoldsLock ==
    \A a \in Appenders : tx[a].at \in {"tail", "insert", "commit"} =>
        lock[Org[tx[a].rec]] = a

(* A row is the newest of its org.                                         *)
Newest(x) == \A y \in OrgRows(Org[x.rec]) : y.seq <= x.seq

(* h is the hash that the next row of org o has to link to.                *)
EndsIn(o, h) ==
    \/ OrgRows(o) = {} /\ h = Genesis
    \/ \E x \in OrgRows(o) : Newest(x) /\ x.rec = h

(* What an active transaction has put together.                            *)
TxOK(t) ==
    /\ t.at # "idle" => t.rec \in Records
    /\ t.at # "commit" => t.new = {}
    /\ t.at \in {"insert", "commit"} => EndsIn(Org[t.rec], t.prev)
    /\ t.at = "commit" /\ t.new = {} => \E y \in rows : y.rec = t.rec
    /\ \A x, y \in t.new : x = y
    /\ \A x \in t.new :
          /\ x.rec = t.rec /\ x.prev = t.prev /\ x.seq <= nextSeq
          /\ \A y \in OrgRows(Org[x.rec]) : y.seq < x.seq /\ y.rec # x.rec

Pending == \A a \in Appenders : TxOK(tx[a])

(* Sequence numbers were drawn, and every org with rows has a newest one.  *)
Ordered ==
    /\ \A x \in rows : x.seq <= nextSeq
    /\ \A o \in Orgs : OrgRows(o) # {} => \E x \in OrgRows(o) : Newest(x)

(* The unique index on (org_id, decision_id): a record has one row.        *)
LoggedOnce == \A x, y \in rows : x.rec = y.rec => x = y

IInv == /\ TypeOK /\ HoldsLock /\ Pending /\ Ordered /\ LoggedOnce
        /\ ChainLinear /\ AckedIsLogged

-----------------------------------------------------------------------------
Txs == [at : {"idle", "lock", "tail", "insert", "commit"},
        rec : Records \cup {NoRec}, prev : Records \cup {Genesis}, new : SUBSET Rows]

LEMMA OrgType ==
  ASSUME NEW r \in Records
  PROVE  Org[r] \in Orgs
BY DEF Orgs

(* The tail that is read is the one to link to.                            *)
LEMMA TailType ==
  ASSUME TypeOK, Ordered, NEW o \in Orgs
  PROVE  EndsIn(o, ChainTail(o)) /\ ChainTail(o) \in Records \cup {Genesis}
<1>1. CASE OrgRows(o) = {}
  BY <1>1 DEF EndsIn, ChainTail
<1>2. CASE OrgRows(o) # {}
  <2>. DEFINE IsLast(x) == \A y \in OrgRows(o) : y.seq <= x.seq
  <2>1. PICK x \in OrgRows(o) : Newest(x)
    BY <1>2 DEF Ordered
  <2>2. IsLast(x)
    BY <2>1 DEF Newest, OrgRows
  <2>. DEFINE t == CHOOSE z \in OrgRows(o) : IsLast(z)
  <2>3. t \in OrgRows(o) /\ IsLast(t)
    BY <2>1, <2>2
  <2>4. ChainTail(o) = t.rec
    BY <1>2 DEF ChainTail
  <2>5. t \in Rows /\ Org[t.rec] = o
    BY <2>3 DEF OrgRows, TypeOK
  <2>6. Newest(t)
    BY <2>3, <2>5 DEF Newest
  <2>. QED  BY <2>3, <2>4, <2>5, <2>6 DEF EndsIn, Rows
<1>. QED  BY <1>1, <1>2

LEMMA TxType ==
  ASSUME TypeOK, NEW a \in Appenders
  PROVE  /\ tx \in [Appenders -> Txs] /\ tx[a] \in Txs
         /\ Idle \in Txs
         /\ Unlock(a) \in [Orgs -> Appenders \cup {Free}]
BY DEF TypeOK, Txs, Idle, Unlock

LEMMA TypeNext ==
  ASSUME TypeOK, Pending, Ordered, Next
  PROVE  TypeOK'
<1>. PICK a \in Appenders : (\E r \in Records : Begin(a, r)) \/ Step(a) \/ Rollback(a)
  BY DEF Next
<1>t. /\ tx \in [Appenders -> Txs] /\ tx[a] \in Txs /\ Idle \in Txs
      /\ Unlock(a) \in [Orgs -> Appenders \cup {Free}]
      /\ tx[a].at # "idle" => tx[a].rec \in Records /\ Org[tx[a].rec] \in Orgs
  BY TxType, OrgType DEF Pending, TxOK
<1>r. /\ rows \subseteq Rows /\ nextSeq \in Nat /\ lock \in [Orgs -> Appenders \cup {Free}]
      /\ acked \subseteq Records /\ refused \subseteq Records
  BY DEF TypeOK
<1>q. ASSUME tx' \in [Appenders -> Txs], rows' \subseteq Rows, nextSeq' \in Nat,
             lock' \in [Orgs -> Appenders \cup {Free}],
             acked' \subseteq Records, refused' \subseteq Records
      PROVE  TypeOK'
  BY <1>q DEF TypeOK, Txs
<1>1. ASSUME NEW r \in Records, Begin(a, r)  PROVE TypeOK'
  <2>1. [Idle EXCEPT !.at = "lock", !.rec = r] \in Txs
    BY DEF Txs, Idle
  <2>2. tx' \in [Appenders -> Txs]
    BY <1>1, <1>t, <2>1 DEF Begin
  <2>. QED  BY <1>1, <1>r, <1>q, <2>2 DEF Begin
<1>2. CASE Lock(a)
  <2>1. [tx[a] EXCEPT !.at = "tail"] \in Txs
    BY <1>t DEF Txs
  <2>2. tx' \in [Appenders -> Txs]
    BY <1>2, <1>t, <2>1 DEF Lock
  <2>3. lock' \in [Orgs -> Appenders \cup {Free}]
    BY <1>2, <1>t, <1>r DEF Lock
  <2>. QED  BY <1>2, <1>r, <1>q, <2>2, <2>3 DEF Lock
<1>3. CASE ReadTail(a)
  <2>1. ChainTail(Org[tx[a].rec]) \in Records \cup {Genesis}
    BY <1>3, <1>t, TailType DEF ReadTail
  <2>2. [tx[a] EXCEPT !.at = "insert", !.prev = ChainTail(Org[tx[a].rec])] \in Txs
    BY <1>t, <2>1 DEF Txs
  <2>3. tx' = [tx EXCEPT ![a] = [tx[a] EXCEPT !.at = "insert", !.prev = ChainTail(Org[tx[a].rec])]]
    BY <1>3, <1>t DEF ReadTail
  <2>4. tx' \in [Appenders -> Txs]
    BY <1>t, <2>2, <2>3
  <2>. QED  BY <1>3, <1>r, <1>q, <2>4 DEF ReadTail
<1>4. CASE Insert(a)
  <2>. DEFINE x == [rec |-> tx[a].rec, seq |-> nextSeq + 1, prev |-> tx[a].prev]
  <2>1. x \in Rows
    BY <1>4, <1>t, <1>r DEF Insert, Rows, Txs
  <2>2. [tx[a] EXCEPT !.at = "commit"] \in Txs /\ [tx[a] EXCEPT !.at = "commit", !.new = {x}] \in Txs
    BY <1>t, <2>1 DEF Txs
  <2>3. \/ tx' = [tx EXCEPT ![a] = [tx[a] EXCEPT !.at = "commit"]]
        \/ tx' = [tx EXCEPT ![a] = [tx[a] EXCEPT !.at = "commit", !.new = {x}]]
    BY <1>4, <1>t DEF Insert
  <2>4. tx' \in [Appenders -> Txs]
    BY <1>t, <2>2, <2>3
  <2>. QED  BY <1>4, <1>r, <1>q, <2>4 DEF Insert
<1>5. CASE Commit(a)
  <2>1. tx' \in [Appenders -> Txs] /\ lock' \in [Orgs -> Appenders \cup {Free}]
    BY <1>5, <1>t DEF Commit
  <2>2. rows' \subseteq Rows
    BY <1>5, <1>t, <1>r DEF Commit, Txs
  <2>3. acked' \subseteq Records /\ refused' \subseteq Records
    BY <1>5, <1>t, <1>r DEF Commit
  <2>. QED  BY <1>5, <1>r, <1>q, <2>1, <2>2, <2>3 DEF Commit
<1>6. CASE Rollback(a)
  <2>1. tx' \in [Appenders -> Txs] /\ lock' \in [Orgs -> Appenders \cup {Free}]
    BY <1>6, <1>t DEF Rollback
  <2>2. refused' \subseteq Records /\ nextSeq' \in Nat
    BY <1>6, <1>t, <1>r DEF Rollback, Active
  <2>. QED  BY <1>6, <1>r, <1>q, <2>1, <2>2 DEF Rollback
<1>. QED  BY <1>1, <1>2, <1>3, <1>4, <1>5, <1>6 DEF Step

-----------------------------------------------------------------------------
(* The steps.                                                              *)

(* A step that adds no row: the committed log is as it was, and what other *)
(* transactions have put together still holds.                             *)
LEMMA NoNewRow ==
  ASSUME IInv, TypeOK', UNCHANGED <<rows, acked>>, nextSeq' >= nextSeq,
         NEW a \in Appenders, HoldsLock', TxOK(tx[a])',
         \A b \in Appenders \ {a} : tx'[b] = tx[b]
  PROVE  IInv'
<1>n. nextSeq \in Nat /\ nextSeq' \in Nat /\ \A x \in rows : x.seq \in Nat
  BY DEF IInv, TypeOK, Rows
<1>o. \A o : OrgRows(o)' = OrgRows(o)
  BY DEF OrgRows
<1>e. \A o, h : EndsIn(o, h)' <=> EndsIn(o, h)
  BY <1>o DEF EndsIn, Newest
<1>1. ASSUME NEW b \in Appenders \ {a}  PROVE TxOK(tx[b])'
  <2>1. TxOK(tx[b]) /\ tx'[b] = tx[b]
    BY DEF IInv, Pending
  <2>2. \A x \in tx[b].new : x.seq \in Nat
    BY TxType DEF IInv, Txs, Rows
  <2>. QED  BY <1>n, <1>o, <1>e, <2>1, <2>2 DEF TxOK
<1>2. Pending'
  BY <1>1 DEF Pending
<1>3. Ordered'
  BY <1>n, <1>o DEF IInv, Ordered, Newest
<1>4. ChainLinear' /\ AckedIsLogged' /\ LoggedOnce'
  BY <1>o DEF IInv, ChainLinear, AckedIsLogged, LoggedOnce, Before
<1>. QED  BY <1>2, <1>3, <1>4 DEF IInv

(* The end of a transaction takes no lock away from another.               *)
LEMMA UnlockKeeps ==
  ASSUME IInv, NEW a \in Appenders, lock' = Unlock(a), tx' = [tx EXCEPT ![a] = Idle]
  PROVE  HoldsLock'
<1>1. tx \in [Appenders -> Txs]
  BY TxType DEF IInv
<1>2. ASSUME NEW b \in Appenders, tx'[b].at \in {"tail", "insert", "commit"}
      PROVE  lock'[Org[tx'[b].rec]] = b
  <2>1. b # a /\ tx'[b] = tx[b]
    BY <1>1, <1>2 DEF Idle
  <2>2. lock[Org[tx[b].rec]] = b
    BY <1>2, <2>1 DEF IInv, HoldsLock
  <2>3. Org[tx[b].rec] \in Orgs
    BY <1>2, <2>1, OrgType DEF IInv, Pending, TxOK
  <2>. QED  BY <2>1, <2>2, <2>3 DEF Unlock
<1>. QED  BY <1>2 DEF HoldsLock

LEMMA IdleOK == ASSUME TypeOK' PROVE TxOK(Idle)'
BY DEF TxOK, Idle

(* The commit of a new row: it is the newest of its org, links to the one  *)
(* that was, and nobody else is at work on the org's chain.                *)
LEMMA CommitInv ==
  ASSUME IInv, TypeOK', NEW a \in Appenders, Commit(a)
  PROVE  IInv'
<1>. PICK t : t = tx[a]
  OBVIOUS
<1>. PICK o : o = Org[t.rec]
  OBVIOUS
<1>t. tx \in [Appenders -> Txs] /\ t \in Txs /\ t.at = "commit"
  BY TxType DEF IInv, Commit
<1>a. /\ TxOK(t) /\ t.rec \in Records /\ lock[o] = a /\ o \in Orgs
  BY <1>t, OrgType DEF IInv, Pending, TxOK, HoldsLock
<1>b. HoldsLock'
  BY UnlockKeeps DEF Commit
<1>c. rows' = rows \cup t.new /\ nextSeq' = nextSeq /\ tx' = [tx EXCEPT ![a] = Idle]
  BY DEF Commit
<1>1. CASE t.new = {}
  <2>1. rows' = rows
    BY <1>c, <1>1
  <2>2. TxOK(tx[a])'
    BY <1>c, <1>t, IdleOK
  <2>3. AckedIsLogged'
    BY <1>a, <1>t, <1>1, <2>1 DEF IInv, AckedIsLogged, TxOK, Commit
  <2>4. \A q : OrgRows(q)' = OrgRows(q)
    BY <2>1 DEF OrgRows
  <2>5. \A q, h : EndsIn(q, h)' <=> EndsIn(q, h)
    BY <2>4 DEF EndsIn, Newest
  <2>6. \A b \in Appenders \ {a} : TxOK(tx[b])'
    BY <1>c, <1>t, <2>1, <2>4, <2>5 DEF IInv, Pending, TxOK
  <2>7. Pending'
    BY <2>2, <2>6 DEF Pending
  <2>8. Ordered' /\ ChainLinear' /\ LoggedOnce'
    BY <1>c, <2>1, <2>4 DEF IInv, Ordered, Newest, ChainLinear, LoggedOnce, Before
  <2>. QED  BY <1>b, <2>3, <2>7, <2>8 DEF IInv
<1>2. CASE t.new # {}
  <2>1. PICK x \in t.new : TRUE
    BY <1>2
  <2>2. /\ x.rec = t.rec /\ x.prev = t.prev /\ x.seq <= nextSeq /\ x \in Rows
        /\ \A y \in OrgRows(o) : y.seq < x.seq /\ y.rec # x.rec
        /\ EndsIn(o, x.prev)
    BY <1>a, <1>t, <2>1 DEF TxOK, Txs
  <2>n. /\ x.seq \in Nat /\ nextSeq \in Nat /\ rows \subseteq Rows
        /\ \A y \in rows : y.seq \in Nat
    BY <2>2 DEF IInv, TypeOK, Rows
  <2>4. rows' = rows \cup {x}
    BY <1>a, <1>c, <2>1 DEF TxOK
  <2>5. /\ OrgRows(o)' = OrgRows(o) \cup {x}
        /\ \A q : q # o => OrgRows(q)' = OrgRows(q)
    BY <2>2, <2>4 DEF OrgRows
  <2>6. Newest(x)'
    BY <2>2, <2>5, <2>n DEF Newest, OrgRows
  <2>7. \A q : q # o => \A h : EndsIn(q, h)' <=> EndsIn(q, h)
    BY <2>5 DEF EndsIn, Newest, OrgRows
  <2>8. ASSUME NEW b \in Appenders \ {a}  PROVE TxOK(tx[b])'
    <3>1. TxOK(tx[b]) /\ tx'[b] = tx[b]
      BY <1>c, <1>t DEF IInv, Pending
    <3>2. tx[b].at \in {"insert", "commit"} => Org[tx[b].rec] # o
      BY <1>a DEF IInv, HoldsLock
    <3>3. \A y \in tx[b].new : OrgRows(Org[y.rec])' = OrgRows(Org[y.rec])
      BY <3>1, <3>2, <2>5 DEF TxOK
    <3>. QED  BY <1>c, <2>4, <2>7, <3>1, <3>2, <3>3 DEF TxOK
  <2>9. Pending'
    BY <1>c, <1>t, <2>8, IdleOK DEF Pending
  <2>10. Ordered'
    <3>1. \A y \in rows' : y.seq <= nextSeq'
      BY <1>c, <2>2, <2>4 DEF IInv, Ordered
    <3>2. ASSUME NEW q \in Orgs, q # o, OrgRows(q)' # {}
          PROVE  \E y \in OrgRows(q)' : Newest(y)'
      <4>1. PICK y \in OrgRows(q) : Newest(y)
        BY <3>2, <2>5 DEF IInv, Ordered
      <4>. QED  BY <3>2, <4>1, <2>5 DEF Newest, OrgRows
    <3>3. x \in OrgRows(o)'
      BY <2>5
    <3>. QED  BY <3>1, <3>2, <3>3, <2>6 DEF Ordered
  <2>11. ChainLinear'
    <3>1. Before(x)' = OrgRows(o)
      BY <2>2, <2>5, <2>n DEF Before, OrgRows
    <3>2. \/ Before(x)' = {} /\ x.prev = Genesis
          \/ \E y \in Before(x)' : x.prev = y.rec /\ \A z \in Before(x)' : z.seq <= y.seq
      BY <3>1, <2>2 DEF EndsIn, Newest, OrgRows
    <3>3. ASSUME NEW z \in rows  PROVE Before(z)' = Before(z)
      <4>1. CASE Org[z.rec] # o
        BY <4>1, <2>5 DEF Before
      <4>2. CASE Org[z.rec] = o
        <5>1. ~(x.seq < z.seq)
          BY <4>2, <2>2, <2>n DEF OrgRows
        <5>. QED  BY <4>2, <5>1, <2>5 DEF Before
      <4>. QED  BY <4>1, <4>2
    <3>. QED  BY <3>2, <3>3, <2>4 DEF IInv, ChainLinear
  <2>12. AckedIsLogged'
    BY <2>2, <2>4 DEF IInv, AckedIsLogged, Commit
  <2>13. LoggedOnce'
    <3>1. \A y \in rows : y.rec # x.rec
      BY <2>2 DEF OrgRows
    <3>. QED  BY <3>1, <2>4 DEF IInv, LoggedOnce
  <2>. QED  BY <1>b, <2>9, <2>10, <2>11, <2>12, <2>13 DEF IInv
<1>. QED  BY <1>1, <1>2

LEMMA InvNext == IInv /\ [Next]_vars => IInv'
<1>. SUFFICES ASSUME IInv, [Next]_vars PROVE IInv'
  OBVIOUS
<1>1. CASE UNCHANGED vars
  <2>1. \A o : OrgRows(o)' = OrgRows(o)
    BY <1>1 DEF vars, OrgRows
  <2>2. \A o, h : EndsIn(o, h)' <=> EndsIn(o, h)
    BY <2>1 DEF EndsIn, Newest
  <2>3. Pending'
    BY <1>1, <2>1, <2>2 DEF vars, IInv, Pending, TxOK
  <2>4. TypeOK' /\ HoldsLock' /\ Ordered' /\ LoggedOnce' /\ ChainLinear' /\ AckedIsLogged'
    BY <1>1, <2>1 DEF vars, IInv, TypeOK, HoldsLock, Ordered, LoggedOnce, Newest,
                     ChainLinear, Before, AckedIsLogged
  <2>. QED  BY <2>3, <2>4 DEF IInv
<1>2. CASE Next
  <2>t. TypeOK'
    BY <1>2, TypeNext DEF IInv
  <2>. PICK a \in Appenders : (\E r \in Records : Begin(a, r)) \/ Step(a) \/ Rollback(a)
    BY <1>2 DEF Next
  <2>a. tx \in [Appenders -> Txs] /\ tx[a] \in Txs /\ TxOK(tx[a]) /\ nextSeq \in Nat
    BY TxType DEF IInv, Pending, TypeOK
  <2>1. ASSUME NEW r \in Records, Begin(a, r)  PROVE IInv'
    <3>1. /\ tx'[a] = [Idle EXCEPT !.at = "lock", !.rec = r]
          /\ \A b \in Appenders \ {a} : tx'[b] = tx[b]
      BY <2>1, <2>a DEF Begin
    <3>2. tx'[a].at = "lock" /\ tx'[a].rec = r /\ tx'[a].new = {}
      BY <3>1 DEF Idle
    <3>3. UNCHANGED <<rows, nextSeq, lock, acked>>
      BY <2>1 DEF Begin
    <3>4. TxOK(tx[a])'
      BY <3>2 DEF TxOK
    <3>5. HoldsLock'
      BY <3>1, <3>2, <3>3 DEF IInv, HoldsLock
    <3>. QED  BY <2>a, <2>t, <3>1, <3>3, <3>4, <3>5, NoNewRow
  <2>2. CASE Lock(a)
    <3>1. /\ tx'[a] = [tx[a] EXCEPT !.at = "tail"]
          /\ \A b \in Appenders \ {a} : tx'[b] = tx[b]
      BY <2>2, <2>a DEF Lock
    <3>2. TxOK(tx[a])'
      BY <2>2, <2>a, <3>1 DEF TxOK, Lock, Txs
    <3>3. Org[tx[a].rec] \in Orgs /\ lock \in [Orgs -> Appenders \cup {Free}]
      BY <2>2, <2>a, OrgType DEF Lock, TxOK, IInv, TypeOK
    <3>4. HoldsLock'
      <4>1. lock'[Org[tx'[a].rec]] = a
        BY <2>2, <2>a, <3>1, <3>3 DEF Lock, Txs
      <4>2. ASSUME NEW b \in Appenders \ {a}, tx[b].at \in {"tail", "insert", "commit"}
            PROVE  lock'[Org[tx[b].rec]] = b
        <5>1. lock[Org[tx[b].rec]] = b /\ Org[tx[b].rec] \in Orgs
          BY <4>2, OrgType DEF IInv, HoldsLock, Pending, TxOK
        <5>2. Org[tx[b].rec] # Org[tx[a].rec]
          BY <5>1, <2>2, AuditLogAssumption DEF Lock
        <5>. QED  BY <2>2, <3>3, <5>1, <5>2 DEF Lock
      <4>. QED  BY <3>1, <4>1, <4>2 DEF HoldsLock
    <3>. QED  BY <2>2, <2>a, <2>t, <3>1, <3>2, <3>4, NoNewRow DEF Lock
  <2>3. CASE ReadTail(a)
    <3>1. /\ tx'[a] = [tx[a] EXCEPT !.at = "insert", !.prev = ChainTail(Org[tx[a].rec])]
          /\ \A b \in Appenders \ {a} : tx'[b] = tx[b]
      BY <2>3, <2>a DEF ReadTail
    <3>2. tx[a].rec \in Records /\ Org[tx[a].rec] \in Orgs /\ tx[a].new = {}
      BY <2>3, <2>a, OrgType DEF ReadTail, TxOK
    <3>3. EndsIn(Org[tx[a].rec], ChainTail(Org[tx[a].rec]))
      BY <3>2, TailType DEF IInv
    <3>5. TxOK(tx[a])'
      BY <2>3, <2>a, <3>1, <3>2, <3>3 DEF TxOK, ReadTail, Txs, EndsIn, Newest, OrgRows
    <3>6. HoldsLock'
      BY <2>3, <2>a, <3>1 DEF ReadTail, IInv, HoldsLock, Txs
    <3>. QED  BY <2>3, <2>a, <2>t, <3>1, <3>5, <3>6, NoNewRow DEF ReadTail
  <2>4. CASE Insert(a)
    <3>. DEFINE x == [rec |-> tx[a].rec, seq |-> nextSeq + 1, prev |-> tx[a].prev]
    <3>1. /\ \/ /\ tx'[a] = [tx[a] EXCEPT !.at = "commit"]
                /\ \E y \in rows : y.rec = tx[a].rec
             \/ /\ tx'[a] = [tx[a] EXCEPT !.at = "commit", !.new = {x}]
                /\ \A y \in rows : y.rec # tx[a].rec
          /\ \A b \in Appenders \ {a} : tx'[b] = tx[b]
      BY <2>4, <2>a DEF Insert, SameDecision
    <3>2. tx[a].new = {} /\ tx[a].rec \in Records /\ EndsIn(Org[tx[a].rec], tx[a].prev)
      BY <2>4, <2>a DEF Insert, TxOK
    <3>3. /\ tx'[a].at = "commit" /\ tx'[a].rec = tx[a].rec /\ tx'[a].prev = tx[a].prev
          /\ \/ tx'[a].new = {} /\ \E y \in rows : y.rec = tx[a].rec
             \/ tx'[a].new = {x} /\ \A y \in rows : y.rec # tx[a].rec
      BY <3>1, <3>2, <2>a DEF Txs
    <3>4. TxOK(tx[a])'
      <4>1. UNCHANGED rows /\ nextSeq' = nextSeq + 1
        BY <2>4 DEF Insert
      <4>2. EndsIn(Org[tx[a].rec], tx[a].prev)'
        BY <3>2, <3>3, <4>1 DEF EndsIn, Newest, OrgRows
      <4>3. \A y \in rows : y.seq < nextSeq + 1
        BY <2>a DEF IInv, Ordered, TypeOK, Rows
      <4>4. \A z \in tx'[a].new :
               /\ z = x /\ z.seq <= nextSeq'
               /\ z.rec = tx'[a].rec /\ z.prev = tx'[a].prev
               /\ \A y \in OrgRows(Org[z.rec])' : y.seq < z.seq /\ y.rec # z.rec
        <5>1. \A q : OrgRows(q)' \subseteq rows
          BY <4>1 DEF OrgRows
        <5>2. x.seq = nextSeq + 1 /\ x.seq <= nextSeq' /\ tx'[a].new \subseteq {x}
          BY <2>a, <3>3, <4>1
        <5>3. \A q : \A y \in OrgRows(q)' : y.seq < x.seq
          BY <5>1, <5>2, <4>3
        <5>4. x \in tx'[a].new => \A q : \A y \in OrgRows(q)' : y.rec # x.rec
          BY <3>3, <5>1
        <5>. QED  BY <3>3, <5>2, <5>3, <5>4
      <4>. QED  BY <3>2, <3>3, <4>1, <4>2, <4>4 DEF TxOK
    <3>5. HoldsLock'
      BY <2>4, <2>a, <3>1 DEF Insert, IInv, HoldsLock, Txs
    <3>. QED  BY <2>4, <2>a, <2>t, <3>1, <3>4, <3>5, NoNewRow DEF Insert
  <2>5. CASE Commit(a)
    BY <2>5, <2>t, CommitInv
  <2>6. CASE Rollback(a)
    <3>1. tx'[a] = Idle /\ \A b \in Appenders \ {a} : tx'[b] = tx[b]
      BY <2>6, <2>a DEF Rollback
    <3>2. TxOK(tx[a])'
      BY <2>t, <3>1, IdleOK
    <3>3. HoldsLock'
      BY <2>6, UnlockKeeps DEF Rollback
    <3>4. nextSeq' >= nextSeq
      BY <2>6, <2>a DEF Rollback
    <3>. QED  BY <2>6, <2>t, <3>1, <3>2, <3>3, <3>4, NoNewRow DEF Rollback
  <2>. QED  BY <2>1, <2>2, <2>3, <2>4, <2>5, <2>6 DEF Step
<1>. QED  BY <1>1, <1>2

LEMMA InvInit == Init => IInv
<1>. SUFFICES ASSUME Init PROVE IInv
  OBVIOUS
<1>1. TypeOK /\ HoldsLock /\ Pending
  BY DEF Init, TypeOK, HoldsLock, Pending, TxOK, Idle, Rows
<1>2. Ordered /\ LoggedOnce /\ ChainLinear /\ AckedIsLogged
  BY DEF Init, Ordered, LoggedOnce, ChainLinear, AckedIsLogged, OrgRows
<1>. QED  BY <1>1, <1>2 DEF IInv

LEMMA Invariance == Spec => []IInv
BY InvInit, InvNext, PTL DEF Spec

-----------------------------------------------------------------------------
(* PostgresStore.Append: its variables keep their types.                   *)
THEOREM LogTypeCorrect == Spec => []TypeOK
<1>1. IInv => TypeOK
  BY DEF IInv
<1>. QED  BY <1>1, Invariance, PTL

(* PostgresStore.Append: however many instances append at once, and        *)
(* whatever fails, each row links to the row before it in its org.         *)
THEOREM ChainStaysLinear == Spec => []ChainLinear
<1>1. IInv => ChainLinear
  BY DEF IInv
<1>. QED  BY <1>1, Invariance, PTL

(* PostgresStore.Append: a nil error means that the record is in the log.  *)
THEOREM AckedStaysLogged == Spec => []AckedIsLogged
<1>1. IInv => AckedIsLogged
  BY DEF IInv
<1>. QED  BY <1>1, Invariance, PTL

(* PostgresStore.Append: the tail an appender has read is still the tail   *)
(* when it inserts, so the unique index on (org_id, prev_hash) never       *)
(* refuses a row.  The newest row of a linear chain has no successor, and  *)
(* its hash names no other row.                                            *)
THEOREM AppendsNeverFork == Spec => []NeverForks
<1>1. IInv => NeverForks
  <2>. SUFFICES ASSUME IInv, NEW a \in Appenders, Refused(a)  PROVE FALSE
    BY DEF NeverForks
  <2>1. EndsIn(Org[tx[a].rec], tx[a].prev)
    BY DEF Refused, IInv, Pending, TxOK
  <2>2. PICK y \in rows : Org[y.rec] = Org[tx[a].rec] /\ y.prev = tx[a].prev
    BY DEF Refused, SamePrev
  <2>3. PICK x \in OrgRows(Org[y.rec]) : Newest(x) /\ x.rec = y.prev
    BY <2>1, <2>2 DEF EndsIn, OrgRows
  <2>4. x \in rows /\ x \in Rows /\ y \in Rows /\ y.seq <= x.seq
    BY <2>3 DEF IInv, TypeOK, OrgRows, Newest
  <2>5. y.prev # Genesis
    BY <2>3, <2>4, AuditLogAssumption DEF Rows
  <2>6. PICK z \in Before(y) : y.prev = z.rec
    BY <2>5 DEF IInv, ChainLinear
  <2>7. z = x
    BY <2>3, <2>4, <2>6 DEF IInv, LoggedOnce, Before, OrgRows
  <2>. QED  BY <2>4, <2>6, <2>7 DEF Before, Rows
<1>. QED  BY <1>1, Invariance, PTL

-----------------------------------------------------------------------------
(* The table as the chain that audit.Store promises.                       *)

(* A row of an org is at the place its predecessors in seq give it, and    *)
(* every place is taken by one row.                                        *)
Numbered ==
    /\ IsFiniteSet(rows)
    /\ \A o \in Orgs : \A i \in 1..Cardinality(OrgRows(o)) :
          \E x \in OrgRows(o) : Cardinality(Before(x)) = i - 1
    /\ \A x, y \in rows :
          Org[x.rec] = Org[y.rec] /\ Cardinality(Before(x)) = Cardinality(Before(y)) => x = y

(* x comes after every row of its org, and its record has no row yet.      *)
Extends(x) == \A y \in OrgRows(Org[x.rec]) : y.seq < x.seq /\ y.rec # x.rec

(* A step commits no row or one, at the end of its org's chain.            *)
LEMMA NextRows ==
  ASSUME IInv, [Next]_vars
  PROVE  \/ UNCHANGED rows
         \/ \E x \in Rows : Extends(x) /\ rows' = rows \cup {x}
<1>1. CASE UNCHANGED vars
  BY <1>1 DEF vars
<1>2. ASSUME NEW a \in Appenders, Commit(a)
      PROVE  \/ UNCHANGED rows
             \/ \E x \in Rows : Extends(x) /\ rows' = rows \cup {x}
  <2>1. tx[a] \in Txs /\ TxOK(tx[a]) /\ rows' = rows \cup tx[a].new
    BY <1>2, TxType DEF IInv, Pending, Commit
  <2>2. CASE tx[a].new = {}
    BY <2>1, <2>2
  <2>3. CASE tx[a].new # {}
    <3>1. PICK x \in tx[a].new : TRUE
      BY <2>3
    <3>2. x \in Rows /\ Extends(x) /\ tx[a].new = {x}
      BY <2>1, <3>1 DEF Txs, TxOK, Extends
    <3>. QED  BY <2>1, <3>2
  <2>. QED  BY <2>2, <2>3
<1>3. ASSUME NEW a \in Appenders,
             (\E r \in Records : Begin(a, r)) \/ Lock(a) \/ ReadTail(a) \/ Insert(a) \/ Rollback(a)
      PROVE  UNCHANGED rows
  BY <1>3 DEF Begin, Lock, ReadTail, Insert, Rollback
<1>. QED  BY <1>1, <1>2, <1>3 DEF Next, Step

LEMMA RowsFinite ==
  ASSUME Numbered, NEW o
  PROVE  /\ IsFiniteSet(OrgRows(o)) /\ Cardinality(OrgRows(o)) \in Nat
         /\ \A y : IsFiniteSet(Before(y)) /\ Cardinality(Before(y)) \in Nat
<1>1. ASSUME NEW q  PROVE IsFiniteSet(OrgRows(q)) /\ Cardinality(OrgRows(q)) \in Nat
  <2>1. OrgRows(q) \in SUBSET rows
    BY DEF OrgRows
  <2>. QED  BY <2>1, FS_Subset, FS_CardinalityType DEF Numbered
<1>2. ASSUME NEW y  PROVE IsFiniteSet(Before(y)) /\ Cardinality(Before(y)) \in Nat
  <2>1. Before(y) \in SUBSET OrgRows(Org[y.rec])
    BY DEF Before
  <2>. QED  BY <1>1, <2>1, FS_Subset, FS_CardinalityType
<1>. QED  BY <1>1, <1>2

(* A row has fewer rows before it than its org has.                        *)
LEMMA PlaceBound ==
  ASSUME TypeOK, Numbered, NEW y \in rows
  PROVE  Cardinality(Before(y)) < Cardinality(OrgRows(Org[y.rec]))
<1>. DEFINE S == OrgRows(Org[y.rec])
<1>1. y \in S /\ y \notin Before(y) /\ Before(y) \in SUBSET S
  BY DEF TypeOK, Rows, OrgRows, Before
<1>2. IsFiniteSet(S) /\ Cardinality(S) \in Nat /\ Cardinality(Before(y)) \in Nat
  BY RowsFinite
<1>. HIDE DEF S
<1>3. Cardinality(Before(y)) <= Cardinality(S)
  BY <1>1, <1>2, FS_Subset
<1>4. Cardinality(Before(y)) # Cardinality(S)
  BY <1>1, <1>2, FS_Subset
<1>5. Cardinality(Before(y)) < Cardinality(S)
  BY <1>2, <1>3, <1>4
<1>. QED  BY <1>5 DEF S

(* A row added at the end takes the next place, and moves nobody.          *)
LEMMA ExtendPlaces ==
  ASSUME TypeOK, Numbered, NEW x \in Rows, Extends(x), rows' = rows \cup {x}
  PROVE  /\ x \notin rows
         /\ OrgRows(Org[x.rec])' = OrgRows(Org[x.rec]) \cup {x}
         /\ \A o : o # Org[x.rec] => OrgRows(o)' = OrgRows(o)
         /\ \A y \in rows : Before(y)' = Before(y)
         /\ Before(x)' = OrgRows(Org[x.rec])
         /\ Cardinality(OrgRows(Org[x.rec])') = Cardinality(OrgRows(Org[x.rec])) + 1
<1>1. x \notin rows
  BY DEF Extends, OrgRows
<1>2. /\ OrgRows(Org[x.rec])' = OrgRows(Org[x.rec]) \cup {x}
      /\ \A o : o # Org[x.rec] => OrgRows(o)' = OrgRows(o)
  BY DEF OrgRows
<1>3. x.seq \in Nat /\ \A y \in rows : y.seq \in Nat
  BY DEF TypeOK, Rows
<1>4. ASSUME NEW y \in rows  PROVE Before(y)' = Before(y)
  <2>1. CASE Org[y.rec] # Org[x.rec]
    BY <2>1, <1>2 DEF Before
  <2>2. CASE Org[y.rec] = Org[x.rec]
    <3>1. ~(x.seq < y.seq)
      BY <2>2, <1>3 DEF Extends, OrgRows
    <3>. QED  BY <2>2, <3>1, <1>2 DEF Before
  <2>. QED  BY <2>1, <2>2
<1>5. Before(x)' = OrgRows(Org[x.rec])
  BY <1>2, <1>3 DEF Before, Extends, OrgRows
<1>6. x \notin OrgRows(Org[x.rec]) /\ IsFiniteSet(OrgRows(Org[x.rec]))
  BY <1>1, RowsFinite DEF OrgRows
<1>7. Cardinality(OrgRows(Org[x.rec]) \cup {x}) = Cardinality(OrgRows(Org[x.rec])) + 1
  BY <1>6, FS_AddElement
<1>. QED  BY <1>1, <1>2, <1>4, <1>5, <1>7

LEMMA ExtendNumbered ==
  ASSUME TypeOK, Numbered, NEW x \in Rows, Extends(x), rows' = rows \cup {x}
  PROVE  Numbered'
<1>. DEFINE p == Org[x.rec]
            n == Cardinality(OrgRows(p))
<1>1. /\ x \notin rows /\ OrgRows(p)' = OrgRows(p) \cup {x}
      /\ \A o : o # p => OrgRows(o)' = OrgRows(o)
      /\ \A y \in rows : Before(y)' = Before(y)
      /\ Before(x)' = OrgRows(p) /\ Cardinality(OrgRows(p)') = n + 1
  BY ExtendPlaces
<1>2. n \in Nat
  BY RowsFinite
<1>3. IsFiniteSet(rows')
  BY FS_AddElement DEF Numbered
<1>4. ASSUME NEW o \in Orgs, NEW i \in 1..Cardinality(OrgRows(o)')
      PROVE  \E y \in OrgRows(o)' : Cardinality(Before(y)') = i - 1
  <2>1. CASE o # p \/ i <= n
    <3>1. i \in 1..Cardinality(OrgRows(o)) /\ OrgRows(o) \subseteq OrgRows(o)'
      BY <2>1, <1>1, <1>2, <1>4
    <3>2. PICK y \in OrgRows(o) : Cardinality(Before(y)) = i - 1
      BY <3>1 DEF Numbered
    <3>3. y \in rows
      BY DEF OrgRows
    <3>. QED  BY <3>1, <3>2, <3>3, <1>1
  <2>2. CASE o = p /\ ~(i <= n)
    <3>1. i = n + 1
      BY <2>2, <1>1, <1>2, <1>4
    <3>2. x \in OrgRows(o)' /\ Cardinality(Before(x)') = i - 1
      BY <3>1, <2>2, <1>1, <1>2
    <3>. QED  BY <3>2
  <2>. QED  BY <2>1, <2>2
<1>5. ASSUME NEW y \in rows, Org[y.rec] = p  PROVE Cardinality(Before(y)') # Cardinality(Before(x)')
  <2>1. Cardinality(Before(y)) < n /\ Cardinality(Before(y)) \in Nat
    BY <1>5, PlaceBound, RowsFinite
  <2>. QED  BY <2>1, <1>1, <1>2
<1>6. ASSUME NEW y \in rows', NEW z \in rows', Org[y.rec] = Org[z.rec],
             Cardinality(Before(y)') = Cardinality(Before(z)')
      PROVE  y = z
  <2>1. CASE y \in rows /\ z \in rows
    BY <2>1, <1>1, <1>6 DEF Numbered
  <2>2. CASE y = x \/ z = x
    BY <2>2, <1>5, <1>6
  <2>. QED  BY <2>1, <2>2, <1>6
<1>. QED  BY <1>3, <1>4, <1>6 DEF Numbered

LEMMA SamePlaces ==
  ASSUME UNCHANGED rows
  PROVE  /\ \A o : OrgRows(o)' = OrgRows(o)
         /\ \A y : Before(y)' = Before(y)
         /\ OrgChain' = OrgChain
         /\ Numbered => Numbered'
<1>1. \A o : OrgRows(o)' = OrgRows(o)
  BY DEF OrgRows
<1>2. \A y : Before(y)' = Before(y)
  BY <1>1 DEF Before
<1>3. OrgChain' = OrgChain
  BY DEF OrgChain, OrgRows, Before
<1>4. Numbered => Numbered'
  BY <1>1, <1>2 DEF Numbered
<1>. QED  BY <1>1, <1>2, <1>3, <1>4

(* What stands at a place of the chain is the record of the row there.     *)
LEMMA AtPlace ==
  ASSUME Numbered, NEW o \in Orgs, NEW x \in OrgRows(o),
         NEW i \in 1..Cardinality(OrgRows(o)), Cardinality(Before(x)) = i - 1
  PROVE  OrgChain[o][i] = x.rec
<1>1. \A y \in OrgRows(o) : Cardinality(Before(y)) = i - 1 => y = x
  BY DEF Numbered, OrgRows
<1>2. (CHOOSE y \in OrgRows(o) : Cardinality(Before(y)) = i - 1) = x
  BY <1>1
<1>. QED  BY <1>2 DEF OrgChain

LEMMA ChainIsSeq ==
  ASSUME Numbered, NEW o \in Orgs
  PROVE  /\ Cardinality(OrgRows(o)) \in Nat
         /\ DOMAIN OrgChain[o] = 1..Cardinality(OrgRows(o))
         /\ \A i \in DOMAIN OrgChain[o] : \E x \in OrgRows(o) :
               Cardinality(Before(x)) = i - 1 /\ OrgChain[o][i] = x.rec
<1>1. Cardinality(OrgRows(o)) \in Nat
  BY RowsFinite
<1>2. DOMAIN OrgChain[o] = 1..Cardinality(OrgRows(o))
  BY DEF OrgChain
<1>3. ASSUME NEW i \in 1..Cardinality(OrgRows(o))
      PROVE  \E x \in OrgRows(o) : Cardinality(Before(x)) = i - 1 /\ OrgChain[o][i] = x.rec
  <2>1. PICK x \in OrgRows(o) : Cardinality(Before(x)) = i - 1
    BY DEF Numbered
  <2>. QED  BY <2>1, AtPlace
<1>. QED  BY <1>1, <1>2, <1>3

(* The committed row is a step of the abstract log.                        *)
LEMMA ExtendAdds ==
  ASSUME TypeOK, Numbered, NEW x \in Rows, Extends(x), rows' = rows \cup {x}
  PROVE  Chain!Add(x.rec)
<1>. DEFINE p == Org[x.rec]
            n == Cardinality(OrgRows(p))
<1>1. /\ x \notin rows /\ OrgRows(p)' = OrgRows(p) \cup {x}
      /\ \A o : o # p => OrgRows(o)' = OrgRows(o)
      /\ \A y \in rows : Before(y)' = Before(y)
      /\ Before(x)' = OrgRows(p) /\ Cardinality(OrgRows(p)') = n + 1
  BY ExtendPlaces
<1>2. x.rec \in Records /\ p \in Orgs
  BY OrgType DEF Rows
<1>3. Numbered'
  BY ExtendNumbered
<1>4. /\ n \in Nat /\ DOMAIN OrgChain[p] = 1..n
      /\ \A i \in 1..n : \E y \in OrgRows(p) :
            Cardinality(Before(y)) = i - 1 /\ OrgChain[p][i] = y.rec
  BY <1>2, ChainIsSeq
<1>. HIDE DEF p, n
<1>5. ~Chain!Logged(x.rec)
  <2>1. ASSUME NEW i \in DOMAIN OrgChain[p], OrgChain[p][i] = x.rec  PROVE FALSE
    <3>1. PICK y \in OrgRows(p) : OrgChain[p][i] = y.rec
      BY <1>4
    <3>. QED  BY <2>1, <3>1 DEF Extends, p
  <2>. QED  BY <2>1 DEF Chain!Logged, p
<1>6. ASSUME NEW o \in Orgs, o # p  PROVE OrgChain'[o] = OrgChain[o]
  <2>1. OrgRows(o)' = OrgRows(o)
    BY <1>1, <1>6
  <2>2. \A y \in OrgRows(o) : Before(y)' = Before(y)
    BY <1>1 DEF OrgRows
  <2>3. ASSUME NEW i \in 1..Cardinality(OrgRows(o))
        PROVE  (CHOOSE y \in OrgRows(o)' : Cardinality(Before(y)') = i - 1).rec = OrgChain[o][i]
    <3>1. PICK y \in OrgRows(o) : Cardinality(Before(y)) = i - 1 /\ OrgChain[o][i] = y.rec
      BY ChainIsSeq
    <3>2. y \in OrgRows(o)' /\ Cardinality(Before(y)') = i - 1
      BY <3>1, <2>1, <2>2
    <3>3. \A z \in OrgRows(o)' : Cardinality(Before(z)') = i - 1 => z = y
      BY <3>2, <1>3 DEF Numbered, OrgRows
    <3>4. (CHOOSE z \in OrgRows(o)' : Cardinality(Before(z)') = i - 1) = y
      BY <3>2, <3>3
    <3>. QED  BY <3>1, <3>4
  <2>4. OrgChain'[o] = [i \in 1..Cardinality(OrgRows(o)) |->
           (CHOOSE y \in OrgRows(o)' : Cardinality(Before(y)') = i - 1).rec]
    BY <2>1 DEF OrgChain
  <2>5. OrgChain[o] = [i \in 1..Cardinality(OrgRows(o)) |-> OrgChain[o][i]]
    BY DEF OrgChain
  <2>. QED  BY <2>3, <2>4, <2>5
<1>7. OrgChain'[p] = [i \in 1..(n + 1) |-> IF i <= n THEN OrgChain[p][i] ELSE x.rec]
  <2>1. OrgChain'[p] = [i \in 1..(n + 1) |->
           (CHOOSE y \in OrgRows(p)' : Cardinality(Before(y)') = i - 1).rec]
    BY <1>1, <1>2 DEF OrgChain
  <2>2. ASSUME NEW i \in 1..(n + 1), i <= n
        PROVE  (CHOOSE y \in OrgRows(p)' : Cardinality(Before(y)') = i - 1).rec = OrgChain[p][i]
    <3>1. PICK y \in OrgRows(p) : Cardinality(Before(y)) = i - 1 /\ OrgChain[p][i] = y.rec
      BY <2>2, <1>4
    <3>2. y \in OrgRows(p)' /\ Cardinality(Before(y)') = i - 1
      BY <3>1, <1>1 DEF OrgRows
    <3>3. \A z \in OrgRows(p)' : Cardinality(Before(z)') = i - 1 => z = y
      BY <3>2, <1>3 DEF Numbered, OrgRows
    <3>4. (CHOOSE z \in OrgRows(p)' : Cardinality(Before(z)') = i - 1) = y
      BY <3>2, <3>3
    <3>. QED  BY <3>1, <3>4
  <2>3. ASSUME NEW i \in 1..(n + 1), ~(i <= n)
        PROVE  (CHOOSE y \in OrgRows(p)' : Cardinality(Before(y)') = i - 1).rec = x.rec
    <3>1. i - 1 = n
      BY <2>3, <1>4
    <3>2. x \in OrgRows(p)' /\ Cardinality(Before(x)') = i - 1
      BY <3>1, <1>1 DEF n
    <3>3. \A z \in OrgRows(p)' : Cardinality(Before(z)') = i - 1 => z = x
      BY <3>2, <1>3 DEF Numbered, OrgRows
    <3>4. (CHOOSE z \in OrgRows(p)' : Cardinality(Before(z)') = i - 1) = x
      BY <3>2, <3>3
    <3>. QED  BY <3>4
  <2>. QED  BY <2>1, <2>2, <2>3
<1>8. OrgChain'[p] = Append(OrgChain[p], x.rec)
  <2>1. OrgChain[p] = [i \in 1..n |-> OrgChain[p][i]]
    BY <1>2 DEF OrgChain, n
  <2>2. OrgChain[p] \in Seq(Records)
    <3>1. \A i \in 1..n : OrgChain[p][i] \in Records
      BY <1>4 DEF TypeOK, Rows, OrgRows
    <3>. QED  BY <1>4, <2>1, <3>1
  <2>3. Len(OrgChain[p]) = n
    BY <1>4, <2>2
  <2>. QED  BY <1>2, <1>7, <2>2, <2>3
<1>9. OrgChain = [o \in Orgs |-> OrgChain[o]] /\ OrgChain' = [o \in Orgs |-> OrgChain'[o]]
  BY DEF OrgChain
<1>10. OrgChain' = [OrgChain EXCEPT ![p] = Append(OrgChain[p], x.rec)]
  BY <1>2, <1>6, <1>8, <1>9
<1>. QED  BY <1>5, <1>10 DEF Chain!Add, p

LEMMA RefinementStep ==
  ASSUME IInv, Numbered, [Next]_vars
  PROVE  Numbered' /\ [Chain!Next]_OrgChain
<1>1. CASE UNCHANGED rows
  BY <1>1, SamePlaces
<1>2. ASSUME NEW x \in Rows, Extends(x), rows' = rows \cup {x}
      PROVE  Numbered' /\ Chain!Next
  <2>1. Numbered' /\ Chain!Add(x.rec) /\ x.rec \in Records
    BY <1>2, ExtendNumbered, ExtendAdds DEF IInv, Rows
  <2>. QED  BY <2>1 DEF Chain!Next
<1>. QED  BY <1>1, <1>2, NextRows

LEMMA RefinementInit ==
  ASSUME Init
  PROVE  Numbered /\ Chain!Init
<1>1. \A o : OrgRows(o) = {}
  BY DEF Init, OrgRows
<1>2. IsFiniteSet(rows) /\ Cardinality({}) = 0
  BY FS_EmptySet DEF Init
<1>3. Numbered
  BY <1>1, <1>2 DEF Init, Numbered
<1>4. OrgChain = [o \in Orgs |-> <<>>]
  BY <1>1, <1>2 DEF OrgChain
<1>. QED  BY <1>3, <1>4 DEF Chain!Init

(* PostgresStore.Append implements what audit.Store promises: each org's   *)
(* rows, in the order of seq, are one sequence that only grows at its end, *)
(* one record at a time and each record once.                              *)
THEOREM LogImplementsChain == Spec => ImplementsChain
<1>1. IInv /\ Numbered /\ [Next]_vars => Numbered' /\ [Chain!Next]_OrgChain
  BY RefinementStep
<1>2. Init => Numbered /\ Chain!Init
  BY RefinementInit
<1>. QED  BY <1>1, <1>2, Invariance, PTL DEF Spec, ImplementsChain, Chain!Spec
=============================================================================
