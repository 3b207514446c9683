-------------------------- MODULE PolicyBundleProof --------------------------
(***************************************************************************)
(* What is served was published, the lineage of versions is a history, and *)
(* an undisturbed publish takes effect as a whole, for every number of     *)
(* policies, requests, readers and instances and without the bounds of the *)
(* run.                                                                    *)
(***************************************************************************)
EXTENDS PolicyBundle, TLAPS

-----------------------------------------------------------------------------
(* The inductive invariant.  A hash that anybody holds names a stored      *)
(* version; a hash on its way into policy_versions is of a valid document; *)
(* and row and hash of a request are of the policy it was made for.        *)

Named(h, H) == h \in H \cup {None}

Own(h, id) == h # None => h.policy = id

RowOK(row, id, H) == Named(row.active, H) /\ Own(row.active, id)

CallOK(k, H) ==
    /\ k \in Call
    /\ Named(k.ref, H)
    /\ k.row # None => RowOK(k.row, k.id, H)
    /\ k.pc \in {"write", "lookup", "put", "target", "activate"} =>
          k.id \in Policies /\ k.row \in Row
    /\ k.pc \in {"lookup", "put", "target", "activate", "point"} =>
          k.hash \in Hash /\ k.hash.policy = k.id
    /\ k.pc \in {"lookup", "put"} => Valid(k.hash.doc)
    /\ k.pc \in {"activate", "point"} => k.hash \in H

PoliciesInv ==
    /\ policies \in [Policies -> Row \cup {None}]
    /\ \A id \in Policies : policies[id] # None => RowOK(policies[id], id, Hashes)

VersionsInv ==
    /\ versions \in Seq(Version)
    /\ \A n \in 1..Len(versions) : Valid(versions[n].hash.doc)
    /\ LineageIsHistory

ProviderInv ==
    /\ Named(bundle, Hashes)
    /\ cache \in [Instances -> Hashes \cup {None}]
    /\ read \in [Readers -> [inst : Instances \cup {None}, ref : Hashes \cup {None}]]
    /\ fresh \in [Instances -> [pc : {"idle", "compare", "compile"}, ref : Hashes \cup {None}]]

CallsInv ==
    /\ call \in [Calls -> Call]
    /\ \A c \in Calls : CallOK(call[c], Hashes)

BoundsInv == started \in 0..MaxOps /\ restarts \in 0..MaxRestarts

IInv == PoliciesInv /\ VersionsInv /\ ProviderInv /\ CallsInv /\ BoundsInv

-----------------------------------------------------------------------------
(* Facts about the pieces.                                                 *)

(* stored hashes are hashes *)
LEMMA HashesAreHashes ==
    ASSUME VersionsInv
    PROVE  Hashes \subseteq Hash
<1>1. versions \in Seq(Version)
  BY DEF VersionsInv
<1>2. \A n \in 1..Len(versions) : versions[n] \in Version
  BY <1>1
<1> QED
  BY <1>2 DEF Hashes, Version

(* more versions never hurt a request *)
LEMMA CallMonotone ==
    ASSUME NEW H, NEW H2, H \subseteq H2, NEW k, CallOK(k, H)
    PROVE  CallOK(k, H2)
BY DEF CallOK, Named, RowOK

(* a request that is over *)
LEMMA NoCallOK ==
    ASSUME NEW H
    PROVE  CallOK(NoCall, H)
BY NoneIsNoRow DEF CallOK, NoCall, Call, CallPC, OptHash, Named

(* a request that others have overtaken *)
LEMMA OvertakenOK ==
    ASSUME NEW H, NEW k, CallOK(k, H)
    PROVE  CallOK([k EXCEPT !.alone = FALSE], H)
BY DEF CallOK, Call

(* Advance: only the request that moves on has to be looked at *)
LEMMA AdvanceOK ==
    ASSUME CallsInv, NEW c \in Calls, NEW new, CallOK(new, Hashes),
           Advance(c, new), Hashes' = Hashes
    PROVE  CallsInv'
<1>1. new \in Call
  BY DEF CallOK
<1>2. call' \in [Calls -> Call]
  BY <1>1 DEF CallsInv, Advance
<1>3. ASSUME NEW d \in Calls PROVE CallOK(call'[d], Hashes)
  BY DEF CallsInv, Advance
<1> QED
  BY <1>2, <1>3 DEF CallsInv

(* AdvanceWritten: the others are overtaken, and the store may have grown *)
LEMMA AdvanceWrittenOK ==
    ASSUME CallsInv, NEW c \in Calls, NEW new, CallOK(new, Hashes'),
           AdvanceWritten(c, new), Hashes \subseteq Hashes'
    PROVE  CallsInv'
<1>1. PICK answered \in BOOLEAN :
         call' = [d \in Calls |-> IF d # c THEN [call[d] EXCEPT !.alone = FALSE]
                                  ELSE IF answered THEN new ELSE NoCall]
  BY DEF AdvanceWritten
<1>2. ASSUME NEW d \in Calls PROVE CallOK(call'[d], Hashes')
  <2>1. CASE d = c
    <3>1. call'[d] = new \/ call'[d] = NoCall
      BY <1>1, <2>1
    <3> QED
      BY <3>1, NoCallOK
  <2>2. CASE d # c
    <3>1. CallOK(call[d], Hashes')
      BY CallMonotone DEF CallsInv
    <3>2. call'[d] = [call[d] EXCEPT !.alone = FALSE]
      BY <1>1, <2>2
    <3> QED
      BY <3>1, <3>2, OvertakenOK
  <2> QED
    BY <2>1, <2>2
<1>3. \A d \in Calls : call'[d] \in Call
  BY <1>2 DEF CallOK
<1>4. call' \in [Calls -> Call]
  BY <1>1, <1>3
<1> QED
  BY <1>2, <1>4 DEF CallsInv

(* PutVersion adds at most one hash and keeps the lineage a history *)
LEMMA PutVersionOK ==
    ASSUME VersionsInv, NEW h \in Hash, Valid(h.doc),
           NEW parent, Named(parent, Hashes), Own(parent, h.policy),
           PutVersion(h, parent)
    PROVE  VersionsInv' /\ Hashes' = Hashes \cup {h}
<1>0. versions \in Seq(Version) /\ Hashes \subseteq Hash
  BY HashesAreHashes DEF VersionsInv
<1>1. CASE h \in Hashes
  <2>1. versions' = versions
    BY <1>1 DEF PutVersion
  <2> QED
    BY <1>1, <2>1 DEF VersionsInv, LineageIsHistory, Hashes
<1>2. CASE h \notin Hashes
  <2> DEFINE v == [hash |-> h, parent |-> parent]
             L == Len(versions)
  <2>1. versions' = Append(versions, v)
    BY <1>2 DEF PutVersion
  <2>2. v \in Version
    BY <1>0 DEF Version, OptHash, Named
  <2>3. versions' \in Seq(Version)
    BY <1>0, <2>1, <2>2
  <2>4. L \in Nat /\ Len(versions') = L + 1
    BY <1>0, <2>1, <2>2
  <2>5. versions'[L + 1] = v /\ \A n \in 1..L : versions'[n] = versions[n]
    BY <1>0, <2>1, <2>2
  <2>6. Hashes' = Hashes \cup {h}
    BY <2>4, <2>5 DEF Hashes
  <2>7. \A n \in 1..(L + 1) : Valid(versions'[n].hash.doc)
    BY <2>4, <2>5 DEF VersionsInv
  <2>8. ASSUME NEW n \in 1..(L + 1)
        PROVE  /\ \A m \in 1..(n - 1) : versions'[m].hash # versions'[n].hash
               /\ versions'[n].parent # None =>
                     /\ versions'[n].parent.policy = versions'[n].hash.policy
                     /\ \E m \in 1..(n - 1) : versions'[m].hash = versions'[n].parent
    <3>1. CASE n \in 1..L
      BY <2>4, <2>5, <3>1 DEF VersionsInv, LineageIsHistory
    <3>2. CASE n = L + 1
      <4>1. versions'[n] = v /\ n - 1 = L
        BY <2>4, <2>5, <3>2
      <4>2. \A m \in 1..L : versions'[m].hash # h
        BY <1>2, <2>5 DEF Hashes
      <4>3. parent # None => \E m \in 1..L : versions'[m].hash = parent
        BY <2>5 DEF Named, Hashes
      <4> QED
        BY <4>1, <4>2, <4>3 DEF Own
    <3> QED
      BY <2>4, <3>1, <3>2
  <2>9. LineageIsHistory'
    BY <2>4, <2>8 DEF LineageIsHistory
  <2> QED
    BY <2>3, <2>4, <2>6, <2>7, <2>9 DEF VersionsInv
<1> QED
  BY <1>1, <1>2

-----------------------------------------------------------------------------
(* Control-plane requests.  Each lemma is a step that preserves IInv.      *)

(* a step that stores no version keeps what is known of them *)
LEMMA StoredUnchanged ==
    ASSUME VersionsInv, UNCHANGED versions
    PROVE  VersionsInv' /\ Hashes' = Hashes
BY DEF VersionsInv, LineageIsHistory, Hashes

(* the provider is left alone and the store may have grown *)
LEMMA ProviderUnchanged ==
    ASSUME ProviderInv, UNCHANGED provider, Named(bundle', Hashes'), Hashes \subseteq Hashes'
    PROVE  ProviderInv'
<1>1. UNCHANGED <<cache, read, fresh>>
  BY DEF provider
<1>2. cache \in [Instances -> Hashes' \cup {None}]
  BY DEF ProviderInv
<1>3. read \in [Readers -> [inst : Instances \cup {None}, ref : Hashes' \cup {None}]]
  BY DEF ProviderInv
<1>4. fresh \in [Instances -> [pc : {"idle", "compare", "compile"}, ref : Hashes' \cup {None}]]
  BY DEF ProviderInv
<1> QED
  BY <1>1, <1>2, <1>3, <1>4 DEF ProviderInv

(* a row of the right kind is written *)
LEMMA RowWritten ==
    ASSUME PoliciesInv, NEW id \in Policies, NEW row \in Row, RowOK(row, id, Hashes),
           policies' = [policies EXCEPT ![id] = row], Hashes' = Hashes
    PROVE  PoliciesInv'
BY DEF PoliciesInv

(* the rows are left alone and the store may have grown *)
LEMMA RowsUnchanged ==
    ASSUME PoliciesInv, UNCHANGED policies, Hashes \subseteq Hashes'
    PROVE  PoliciesInv'
BY DEF PoliciesInv, RowOK, Named

(* the steps of a request that only read, and those that give up *)
LEMMA CallReads ==
    ASSUME IInv, NEW c \in Calls, NEW new, CallOK(new, Hashes), Advance(c, new),
           UNCHANGED <<tables, provider>>, BoundsInv'
    PROVE  IInv'
<1>1. UNCHANGED <<policies, versions, bundle>>
  BY DEF tables
<1>2. VersionsInv' /\ Hashes' = Hashes
  BY <1>1, StoredUnchanged DEF IInv
<1>3. PoliciesInv'
  BY <1>1, <1>2, RowsUnchanged DEF IInv
<1>4. ProviderInv'
  BY <1>1, <1>2, ProviderUnchanged DEF IInv, ProviderInv
<1>5. CallsInv'
  BY <1>2, AdvanceOK DEF IInv
<1> QED
  BY <1>2, <1>3, <1>4, <1>5 DEF IInv

(* the steps of a request that write a row *)
LEMMA CallWritesRow ==
    ASSUME IInv, NEW c \in Calls, NEW new, CallOK(new, Hashes), AdvanceWritten(c, new),
           NEW id \in Policies, NEW row \in Row, RowOK(row, id, Hashes),
           policies' = [policies EXCEPT ![id] = row],
           UNCHANGED <<versions, bundle, provider, bounds>>
    PROVE  IInv'
<1>2. VersionsInv' /\ Hashes' = Hashes
  BY StoredUnchanged DEF IInv
<1>3. PoliciesInv'
  BY <1>2, RowWritten DEF IInv
<1>4. ProviderInv'
  BY <1>2, ProviderUnchanged DEF IInv, ProviderInv
<1>5. CallsInv'
  BY <1>2, AdvanceWrittenOK DEF IInv
<1>6. BoundsInv'
  BY DEF IInv, BoundsInv, bounds
<1> QED
  BY <1>2, <1>3, <1>4, <1>5, <1>6 DEF IInv

(* a policy is created as a draft that serves nothing *)
LEMMA CreateStep ==
    ASSUME IInv, NEW c \in Calls, NEW id \in Policies, NEW d \in Document, Create(c, id, d)
    PROVE  IInv'
<1> DEFINE row == [doc |-> d, status |-> "draft", active |-> None]
<1>1. row \in Row /\ RowOK(row, id, Hashes)
  BY DEF Row, OptHash, RowOK, Named, Own
<1>2. policies' = [policies EXCEPT ![id] = row]
  BY DEF Create, InsertPolicy
<1>3. AdvanceWritten(c, NoCall) /\ UNCHANGED <<versions, bundle, provider, bounds>>
  BY DEF Create
<1> QED
  BY <1>1, <1>2, <1>3, NoCallOK, CallWritesRow

(* what a handler makes of the row it reads *)
LEMMA GetPolicyStep ==
    ASSUME IInv, NEW c \in Calls, NEW i \in Instances, NEW id \in Policies,
           NEW pc, NEW row \in Row, RowOK(row, id, Hashes), NEW h \in OptHash,
           \/ pc = "write"
           \/ pc = "lookup" /\ h \in Hash /\ h.policy = id /\ Valid(h.doc)
           \/ pc = "target" /\ h \in Hash /\ h.policy = id,
           GetPolicy(c, i, id, pc, row, h)
    PROVE  IInv'
<1> DEFINE new == [pc |-> pc, inst |-> i, id |-> id, row |-> row,
                   hash |-> h, ref |-> None, alone |-> TRUE]
<1>1. new \in Call
  BY DEF Call, CallPC, OptHash
<1>2. CallOK(new, Hashes)
  BY <1>1, NoneIsNoRow DEF CallOK, Named
<1>3. Advance(c, new) /\ UNCHANGED <<tables, provider>>
  BY DEF GetPolicy
<1>4. BoundsInv'
  BY BoundsAssumption DEF GetPolicy, IInv, BoundsInv
<1> QED
  BY <1>2, <1>3, <1>4, CallReads

(* Update reads the row it will write back *)
LEMMA UpdateStep ==
    ASSUME IInv, NEW c \in Calls, NEW i \in Instances, NEW id \in Policies, policies[id] # None,
           NEW name \in Names \cup {None}, NEW rules \in RuleSets, Update(c, i, id, name, rules)
    PROVE  IInv'
<1> DEFINE p == policies[id]
           d == [name |-> IF name = None THEN p.doc.name ELSE name, rules |-> rules]
           row == [p EXCEPT !.doc = d]
<1>1. p \in Row /\ RowOK(p, id, Hashes)
  BY DEF IInv, PoliciesInv
<1>2. d \in Document
  BY <1>1 DEF Row, Document
<1>3. row \in Row /\ RowOK(row, id, Hashes)
  BY <1>1, <1>2 DEF Row, RowOK
<1>4. GetPolicy(c, i, id, "write", row, None)
  BY DEF Update, SelectPolicy
<1> QED
  BY <1>3, <1>4, GetPolicyStep DEF OptHash

(* Publish reads the row and hashes a document it has validated *)
LEMMA PublishStep ==
    ASSUME IInv, NEW c \in Calls, NEW i \in Instances, NEW id \in Policies, Publish(c, i, id)
    PROVE  IInv'
<1> DEFINE p == policies[id]
           h == [policy |-> id, doc |-> p.doc]
<1>1. p \in Row /\ RowOK(p, id, Hashes)
  BY DEF IInv, PoliciesInv, Publish
<1>2. h \in Hash /\ h.policy = id /\ Valid(h.doc)
  BY <1>1 DEF Row, Hash, Publish, SelectPolicy
<1>3. GetPolicy(c, i, id, "lookup", p, h)
  BY DEF Publish, SelectPolicy
<1> QED
  BY <1>1, <1>2, <1>3, GetPolicyStep DEF OptHash

(* Rollback reads the row and names a version of the same policy *)
LEMMA RollbackStep ==
    ASSUME IInv, NEW c \in Calls, NEW i \in Instances, NEW id \in Policies, policies[id] # None,
           NEW d \in Document, Rollback(c, i, id, d)
    PROVE  IInv'
<1> DEFINE p == policies[id]
           h == [policy |-> id, doc |-> d]
<1>1. p \in Row /\ RowOK(p, id, Hashes)
  BY DEF IInv, PoliciesInv
<1>2. h \in Hash /\ h.policy = id
  BY DEF Hash
<1>3. GetPolicy(c, i, id, "target", p, h)
  BY DEF Rollback, SelectPolicy
<1> QED
  BY <1>1, <1>2, <1>3, GetPolicyStep DEF OptHash

(* Update writes the whole row, stale or not *)
LEMMA WriteWorkingCopyStep ==
    ASSUME IInv, NEW c \in Calls, WriteWorkingCopy(c)
    PROVE  IInv'
<1>1. /\ call[c].id \in Policies /\ call[c].row \in Row
      /\ RowOK(call[c].row, call[c].id, Hashes)
  BY NoneIsNoRow DEF IInv, CallsInv, CallOK, WriteWorkingCopy
<1>2. /\ policies' = [policies EXCEPT ![call[c].id] = call[c].row]
      /\ AdvanceWritten(c, NoCall)
      /\ UNCHANGED <<versions, bundle, provider, bounds>>
  BY DEF WriteWorkingCopy, UpdatePolicy
<1> QED
  BY <1>1, <1>2, NoCallOK, CallWritesRow

(* Publish finds its version stored, or goes on to insert it *)
LEMMA LookupVersionStep ==
    ASSUME IInv, NEW c \in Calls, LookupVersion(c)
    PROVE  IInv'
<1> DEFINE new == [call[c] EXCEPT !.pc = IF call[c].hash \in Hashes THEN "activate" ELSE "put"]
<1>1. CallOK(call[c], Hashes) /\ call[c].pc = "lookup"
  BY DEF IInv, CallsInv, LookupVersion
<1>2. CallOK(new, Hashes)
  BY <1>1 DEF CallOK, Call, CallPC
<1>3. Advance(c, new) /\ UNCHANGED <<tables, provider>> /\ BoundsInv'
  BY DEF LookupVersion, IInv, BoundsInv, bounds
<1> QED
  BY <1>2, <1>3, CallReads

(* PutVersion: the only step that makes a hash a stored one *)
LEMMA InsertVersionStep ==
    ASSUME IInv, NEW c \in Calls, InsertVersion(c)
    PROVE  IInv'
<1> DEFINE h == call[c].hash
           new == [call[c] EXCEPT !.pc = "activate"]
<1>1. CallOK(call[c], Hashes) /\ call[c].pc = "put"
  BY DEF IInv, CallsInv, InsertVersion
<1>2. /\ h \in Hash /\ Valid(h.doc) /\ h.policy = call[c].id
      /\ Named(call[c].row.active, Hashes) /\ Own(call[c].row.active, h.policy)
  BY <1>1, NoneIsNoRow DEF CallOK, RowOK
<1>3. PutVersion(h, call[c].row.active)
  BY DEF InsertVersion
<1>4. VersionsInv' /\ Hashes' = Hashes \cup {h}
  BY <1>2, <1>3, PutVersionOK DEF IInv
<1>5. PoliciesInv'
  BY <1>4, RowsUnchanged DEF IInv, InsertVersion
<1>6. ProviderInv'
  BY <1>4, ProviderUnchanged DEF IInv, ProviderInv, InsertVersion, Named
<1>7. CallOK(call[c], Hashes')
  BY <1>1, <1>4, CallMonotone
<1>8. CallOK(new, Hashes')
  BY <1>1, <1>4, <1>7 DEF CallOK, Call, CallPC
<1>9. AdvanceWritten(c, new)
  BY DEF InsertVersion
<1>10. CallsInv'
  BY <1>4, <1>8, <1>9, AdvanceWrittenOK DEF IInv
<1>11. BoundsInv'
  BY DEF InsertVersion, IInv, BoundsInv, bounds
<1> QED
  BY <1>4, <1>5, <1>6, <1>10, <1>11 DEF IInv

(* Rollback goes on only to a version that is stored *)
LEMMA FindTargetStep ==
    ASSUME IInv, NEW c \in Calls, FindTarget(c)
    PROVE  IInv'
<1> DEFINE k == call[c]
           found == [k EXCEPT !.pc = "activate", !.row.doc = k.hash.doc]
           new == IF k.hash \in Hashes THEN found ELSE NoCall
<1>1. CallOK(k, Hashes) /\ k.pc = "target"
  BY DEF IInv, CallsInv, FindTarget
<1>2. ASSUME k.hash \in Hashes PROVE CallOK(found, Hashes)
  <2>1. k \in Call /\ k.row \in Row /\ k.hash \in Hash /\ RowOK(k.row, k.id, Hashes)
    BY <1>1, NoneIsNoRow DEF CallOK
  <2> DEFINE row == [k.row EXCEPT !.doc = k.hash.doc]
  <2>2. row \in Row /\ RowOK(row, k.id, Hashes)
    BY <2>1 DEF Row, Hash, RowOK
  <2>3. found = [k EXCEPT !.pc = "activate", !.row = row]
    BY <2>1 DEF Call
  <2>4. found \in Call
    BY <2>1, <2>2, <2>3 DEF Call, CallPC
  <2> QED
    BY <1>1, <1>2, <2>1, <2>2, <2>3, <2>4 DEF CallOK, Call
<1>3. CallOK(new, Hashes)
  BY <1>2, NoCallOK
<1>4. Advance(c, new) /\ UNCHANGED <<tables, provider>> /\ BoundsInv'
  BY DEF FindTarget, IInv, BoundsInv, bounds
<1> QED
  BY <1>3, <1>4, CallReads

(* the active hash of a row is a stored version *)
LEMMA SetActiveStep ==
    ASSUME IInv, NEW c \in Calls, SetActive(c)
    PROVE  IInv'
<1> DEFINE k == call[c]
           row == [k.row EXCEPT !.status = "published", !.active = k.hash]
           new == [k EXCEPT !.pc = "point", !.row = None]
<1>1. CallOK(k, Hashes) /\ k.pc = "activate"
  BY DEF IInv, CallsInv, SetActive
<1>2. row \in Row /\ RowOK(row, k.id, Hashes)
  BY <1>1 DEF CallOK, Row, RowOK, OptHash, Named, Own
<1>3. CallOK(new, Hashes)
  BY <1>1 DEF CallOK, Call, CallPC
<1>4. /\ policies' = [policies EXCEPT ![k.id] = row] /\ k.id \in Policies
      /\ AdvanceWritten(c, new)
      /\ UNCHANGED <<versions, bundle, provider, bounds>>
  BY <1>1 DEF SetActive, UpdatePolicy, CallOK
<1> QED
  BY <1>2, <1>3, <1>4, CallWritesRow

(* the organisation's bundle is a stored version *)
LEMMA PointOrgBundleStep ==
    ASSUME IInv, NEW c \in Calls, PointOrgBundle(c)
    PROVE  IInv'
<1> DEFINE k == call[c]
           new == [k EXCEPT !.pc = "load"]
<1>1. CallOK(k, Hashes) /\ k.pc = "point"
  BY DEF IInv, CallsInv, PointOrgBundle
<1>2. VersionsInv' /\ Hashes' = Hashes
  BY StoredUnchanged DEF IInv, PointOrgBundle
<1>3. Named(bundle', Hashes')
  BY <1>1, <1>2 DEF PointOrgBundle, SetActiveBundle, CallOK, Named
<1>4. ProviderInv'
  BY <1>2, <1>3, ProviderUnchanged DEF IInv, PointOrgBundle
<1>5. PoliciesInv'
  BY <1>2, RowsUnchanged DEF IInv, PointOrgBundle
<1>6. CallOK(new, Hashes')
  BY <1>1, <1>2 DEF CallOK, Call, CallPC
<1>7. CallsInv'
  BY <1>2, <1>6, AdvanceWrittenOK DEF IInv, PointOrgBundle
<1>8. BoundsInv'
  BY DEF PointOrgBundle, IInv, BoundsInv, bounds
<1> QED
  BY <1>2, <1>4, <1>5, <1>7, <1>8 DEF IInv

(* the reload of the local cache reads the pointer *)
LEMMA InvalidateReadStep ==
    ASSUME IInv, NEW c \in Calls, InvalidateRead(c)
    PROVE  IInv'
<1> DEFINE new == [call[c] EXCEPT !.pc = "store", !.ref = bundle]
<1>1. CallOK(call[c], Hashes) /\ call[c].pc = "load" /\ Named(bundle, Hashes)
  BY DEF IInv, CallsInv, ProviderInv, InvalidateRead
<1>2. bundle \in OptHash
  BY <1>1, HashesAreHashes DEF IInv, Named, OptHash
<1>3. CallOK(new, Hashes)
  BY <1>1, <1>2 DEF CallOK, Call, CallPC
<1>4. Advance(c, new) /\ UNCHANGED <<tables, provider>> /\ BoundsInv'
  BY DEF InvalidateRead, GetActiveBundle, IInv, BoundsInv, bounds
<1> QED
  BY <1>3, <1>4, CallReads

(* a request gives up *)
LEMMA CallFailsStep ==
    ASSUME IInv, NEW c \in Calls, CallFails(c)
    PROVE  IInv'
<1>1. Advance(c, NoCall) /\ UNCHANGED <<tables, provider>> /\ BoundsInv'
  BY DEF CallFails, IInv, BoundsInv, bounds
<1> QED
  BY <1>1, NoCallOK, CallReads

-----------------------------------------------------------------------------
(* The provider: the tables are left alone.                                *)

(* only the provider and the bounds move *)
LEMMA ProviderMoves ==
    ASSUME IInv, UNCHANGED tables, BoundsInv',
           cache' \in [Instances -> Hashes \cup {None}],
           read' \in [Readers -> [inst : Instances \cup {None}, ref : Hashes \cup {None}]],
           fresh' \in [Instances -> [pc : {"idle", "compare", "compile"}, ref : Hashes \cup {None}]],
           Hashes' = Hashes => CallsInv'
    PROVE  IInv'
<1>1. UNCHANGED <<policies, versions, bundle>>
  BY DEF tables
<1>2. VersionsInv' /\ Hashes' = Hashes
  BY <1>1, StoredUnchanged DEF IInv
<1>3. PoliciesInv'
  BY <1>1, <1>2, RowsUnchanged DEF IInv
<1>4. ProviderInv'
  BY <1>1, <1>2 DEF IInv, ProviderInv
<1> QED
  BY <1>2, <1>3, <1>4 DEF IInv

(* the requests and the store are left alone *)
LEMMA CallsUnchanged ==
    ASSUME CallsInv, UNCHANGED call, Hashes' = Hashes
    PROVE  CallsInv'
BY DEF CallsInv

(* the reload stores what it compiled *)
LEMMA InvalidateStoreStep ==
    ASSUME IInv, NEW c \in Calls, InvalidateStore(c)
    PROVE  IInv'
<1>1. call[c].ref \in Hashes
  BY DEF InvalidateStore, Compiled
<1>2. /\ cache' = [cache EXCEPT ![call[c].inst] = call[c].ref]
      /\ UNCHANGED <<read, fresh>> /\ UNCHANGED tables /\ Advance(c, NoCall)
  BY DEF InvalidateStore, StoreEntry
<1>3. cache' \in [Instances -> Hashes \cup {None}]
  BY <1>1, <1>2 DEF IInv, ProviderInv
<1>4. Hashes' = Hashes => CallsInv'
  BY <1>2, AdvanceOK, NoCallOK DEF IInv
<1>5. BoundsInv'
  BY DEF InvalidateStore, IInv, BoundsInv, bounds
<1> QED
  BY <1>2, <1>3, <1>4, <1>5, ProviderMoves DEF IInv, ProviderInv

(* a cold load reads, stores or fails *)
LEMMA ReadMoves ==
    ASSUME IInv, NEW r \in Readers, ReadStep(r)
    PROVE  IInv'
<1>1. BoundsInv' /\ UNCHANGED tables /\ UNCHANGED <<call, fresh>>
  BY DEF ReadStep, ColdMiss, ColdStore, ColdFails, IInv, BoundsInv, bounds
<1>2. Hashes' = Hashes => CallsInv'
  BY <1>1, CallsUnchanged DEF IInv
<1>3. NoRead \in [inst : Instances \cup {None}, ref : Hashes \cup {None}]
  BY DEF NoRead
<1>4. CASE \E i \in Instances : ColdMiss(r, i)
  <2>1. PICK i \in Instances : ColdMiss(r, i)
    BY <1>4
  <2>2. [inst |-> i, ref |-> bundle] \in [inst : Instances \cup {None}, ref : Hashes \cup {None}]
    BY DEF IInv, ProviderInv, Named
  <2>3. read' = [read EXCEPT ![r] = [inst |-> i, ref |-> bundle]] /\ UNCHANGED cache
    BY <2>1 DEF ColdMiss, GetActiveBundle
  <2> QED
    BY <1>1, <1>2, <2>2, <2>3, ProviderMoves DEF IInv, ProviderInv
<1>5. CASE ColdStore(r)
  <2>1. /\ read[r].ref \in Hashes
        /\ cache' = [cache EXCEPT ![read[r].inst] = read[r].ref]
        /\ read' = [read EXCEPT ![r] = NoRead]
    BY <1>5 DEF ColdStore, Compiled, StoreEntry
  <2> QED
    BY <1>1, <1>2, <1>3, <2>1, ProviderMoves DEF IInv, ProviderInv
<1>6. CASE ColdFails(r)
  <2>1. read' = [read EXCEPT ![r] = NoRead] /\ UNCHANGED cache
    BY <1>6 DEF ColdFails
  <2> QED
    BY <1>1, <1>2, <1>3, <2>1, ProviderMoves DEF IInv, ProviderInv
<1> QED
  BY <1>4, <1>5, <1>6 DEF ReadStep

(* the refresher reads, compares, stores or fails *)
LEMMA RefreshMoves ==
    ASSUME IInv, NEW i \in Instances, RefreshStep(i)
    PROVE  IInv'
<1> DEFINE Refresher == [pc : {"idle", "compare", "compile"}, ref : Hashes \cup {None}]
<1>1. BoundsInv' /\ UNCHANGED tables /\ UNCHANGED <<call, read>>
  BY DEF RefreshStep, RefreshRead, RefreshCompare, RefreshStore, RefreshFails,
         IInv, BoundsInv, bounds
<1>2. Hashes' = Hashes => CallsInv'
  BY <1>1, CallsUnchanged DEF IInv
<1>3. NotRefreshing \in Refresher
  BY DEF NotRefreshing
<1>4. \/ UNCHANGED cache
      \/ fresh[i].ref \in Hashes /\ cache' = [cache EXCEPT ![i] = fresh[i].ref]
  BY DEF RefreshStep, RefreshRead, RefreshCompare, RefreshStore, RefreshFails,
         Compiled, StoreEntry
<1>5. cache' \in [Instances -> Hashes \cup {None}]
  BY <1>4 DEF IInv, ProviderInv
<1>6. [pc |-> "compare", ref |-> bundle] \in Refresher
  BY DEF IInv, ProviderInv, Named
<1>7. fresh[i] \in Refresher /\ [fresh[i] EXCEPT !.pc = "compile"] \in Refresher
  BY DEF IInv, ProviderInv
<1>8. \E new \in Refresher : fresh' = [fresh EXCEPT ![i] = new]
  BY <1>3, <1>6, <1>7 DEF RefreshStep, RefreshRead, RefreshCompare, RefreshStore,
         RefreshFails, GetActiveBundle
<1>9. fresh' \in [Instances -> Refresher]
  BY <1>8 DEF IInv, ProviderInv
<1> QED
  BY <1>1, <1>2, <1>5, <1>9, ProviderMoves DEF IInv, ProviderInv

(* a restart loses what the instance held in memory *)
LEMMA RestartStep ==
    ASSUME IInv, NEW i \in Instances, Restart(i)
    PROVE  IInv'
<1>1. BoundsInv' /\ UNCHANGED tables
  BY BoundsAssumption DEF Restart, IInv, BoundsInv
<1>2. cache' \in [Instances -> Hashes \cup {None}]
  BY DEF Restart, IInv, ProviderInv
<1>3. read' \in [Readers -> [inst : Instances \cup {None}, ref : Hashes \cup {None}]]
  BY DEF Restart, IInv, ProviderInv, NoRead
<1>4. fresh' \in [Instances -> [pc : {"idle", "compare", "compile"}, ref : Hashes \cup {None}]]
  BY DEF Restart, IInv, ProviderInv, NotRefreshing
<1>5. ASSUME NEW c \in Calls PROVE CallOK(call'[c], Hashes)
  <2>1. call'[c] = NoCall \/ call'[c] = call[c]
    BY DEF Restart
  <2> QED
    BY <2>1, NoCallOK DEF IInv, CallsInv
<1>6. \A c \in Calls : call'[c] \in Call
  BY <1>5 DEF CallOK
<1>7. call' \in [Calls -> Call]
  BY <1>6 DEF Restart
<1>8. Hashes' = Hashes => CallsInv'
  BY <1>5, <1>7 DEF CallsInv
<1> QED
  BY <1>1, <1>2, <1>3, <1>4, <1>8, ProviderMoves

-----------------------------------------------------------------------------
(* The invariant.                                                          *)

(* nothing is stored and nobody holds a hash *)
LEMMA InitIInv == Init => IInv
<1> SUFFICES ASSUME Init PROVE IInv
  OBVIOUS
<1>1. versions = <<>> /\ Hashes = {}
  BY DEF Init, Hashes
<1>2. VersionsInv
  BY <1>1 DEF VersionsInv, LineageIsHistory
<1>3. PoliciesInv
  BY DEF Init, PoliciesInv
<1>4. ProviderInv
  BY DEF Init, ProviderInv, Named, NoRead, NotRefreshing
<1>5. CallsInv
  <2>1. \A c \in Calls : call[c] = NoCall
    BY DEF Init
  <2>2. CallOK(NoCall, Hashes) /\ NoCall \in Call
    BY NoCallOK DEF CallOK
  <2> QED
    BY <2>1, <2>2 DEF CallsInv, Init
<1>6. BoundsInv
  BY BoundsAssumption DEF Init, BoundsInv
<1> QED
  BY <1>2, <1>3, <1>4, <1>5, <1>6 DEF IInv

(* every step of a request *)
LEMMA CallMoves ==
    ASSUME IInv, NEW c \in Calls, CallStep(c)
    PROVE  IInv'
<1>1. CASE \E id \in Policies, d \in Document : Create(c, id, d)
  BY <1>1, CreateStep
<1>2. CASE \E i \in Instances, id \in {p \in Policies : policies[p] # None} :
             \E name \in Names \cup {None}, rules \in RuleSets : Update(c, i, id, name, rules)
  BY <1>2, UpdateStep
<1>3. CASE \E i \in Instances, id \in Policies : Publish(c, i, id)
  BY <1>3, PublishStep
<1>4. CASE \E i \in Instances, id \in {p \in Policies : policies[p] # None} :
             \E d \in Document : Rollback(c, i, id, d)
  BY <1>4, RollbackStep
<1>5. CASE WriteWorkingCopy(c)
  BY <1>5, WriteWorkingCopyStep
<1>6. CASE LookupVersion(c)
  BY <1>6, LookupVersionStep
<1>7. CASE InsertVersion(c)
  BY <1>7, InsertVersionStep
<1>8. CASE FindTarget(c)
  BY <1>8, FindTargetStep
<1>9. CASE SetActive(c)
  BY <1>9, SetActiveStep
<1>10. CASE PointOrgBundle(c)
  BY <1>10, PointOrgBundleStep
<1>11. CASE InvalidateRead(c)
  BY <1>11, InvalidateReadStep
<1>12. CASE InvalidateStore(c)
  BY <1>12, InvalidateStoreStep
<1>13. CASE CallFails(c)
  BY <1>13, CallFailsStep
<1> QED
  BY <1>1, <1>2, <1>3, <1>4, <1>5, <1>6, <1>7, <1>8, <1>9, <1>10, <1>11, <1>12, <1>13
     DEF CallStep

(* a stuttering step *)
LEMMA StutterIInv ==
    ASSUME IInv, UNCHANGED vars
    PROVE  IInv'
<1>1. UNCHANGED tables /\ UNCHANGED <<cache, read, fresh, call, started, restarts>>
  BY DEF vars, provider, bounds
<1>2. BoundsInv'
  BY <1>1 DEF IInv, BoundsInv
<1>3. Hashes' = Hashes => CallsInv'
  BY <1>1, CallsUnchanged DEF IInv
<1> QED
  BY <1>1, <1>2, <1>3, ProviderMoves DEF IInv, ProviderInv

(* every step *)
LEMMA NextIInv == IInv /\ [Next]_vars => IInv'
<1> SUFFICES ASSUME IInv, [Next]_vars PROVE IInv'
  OBVIOUS
<1>1. CASE \E c \in Calls : CallStep(c)
  BY <1>1, CallMoves
<1>2. CASE \E r \in Readers : ReadStep(r)
  BY <1>2, ReadMoves
<1>3. CASE \E i \in Instances : RefreshStep(i)
  BY <1>3, RefreshMoves
<1>4. CASE \E i \in Instances : Restart(i)
  BY <1>4, RestartStep
<1>5. CASE UNCHANGED vars
  BY <1>5, StutterIInv
<1> QED
  BY <1>1, <1>2, <1>3, <1>4, <1>5 DEF Next

(* the invariant of the specification *)
LEMMA InvariantHolds == Spec => []IInv
BY InitIInv, NextIInv, PTL DEF Spec

-----------------------------------------------------------------------------
(* The theorems.                                                           *)

(* what is served is among the hashes that somebody holds *)
LEMMA IInvServed == IInv => ServedIsPublished
<1> SUFFICES ASSUME IInv PROVE ServedIsPublished
  OBVIOUS
<1>1. \A h \in Hashes : Valid(h.doc)
  BY DEF IInv, VersionsInv, Hashes
<1>2. bundle \in Hashes \cup {None} /\ \A i \in Instances : cache[i] \in Hashes \cup {None}
  BY DEF IInv, ProviderInv, Named
<1>3. /\ \A r \in Readers : read[r].ref \in Hashes \cup {None}
      /\ \A i \in Instances : fresh[i].ref \in Hashes \cup {None}
  BY DEF IInv, ProviderInv
<1>4. \A c \in Calls : call[c].ref \in Hashes \cup {None}
  BY DEF IInv, CallsInv, CallOK, Named
<1>5. \A id \in Policies : policies[id] # None => policies[id].active \in Hashes \cup {None}
  BY DEF IInv, PoliciesInv, RowOK, Named
<1>6. \A c \in Calls :
         /\ call[c].row # None => call[c].row.active \in Hashes \cup {None}
         /\ call[c].pc \in {"activate", "point"} => call[c].hash \in Hashes
  BY DEF IInv, CallsInv, CallOK, RowOK, Named
<1> QED
  BY <1>1, <1>2, <1>3, <1>4, <1>5, <1>6 DEF ServedIsPublished

(* Type correctness of the control plane and the provider: every table,    *)
(* cache and request keeps its type, however requests, refreshes, failures *)
(* and restarts interleave.                                                *)
THEOREM PolicyTypeCorrect == Spec => []TypeOK
<1>1. IInv => TypeOK
  <2> SUFFICES ASSUME IInv PROVE TypeOK
    OBVIOUS
  <2>1. Hashes \cup {None} \subseteq OptHash
    BY HashesAreHashes DEF IInv, OptHash
  <2>2. policies \in [Policies -> Row \cup {None}] /\ versions \in Seq(Version)
    BY DEF IInv, PoliciesInv, VersionsInv
  <2>3. bundle \in OptHash /\ cache \in [Instances -> OptHash]
    BY <2>1 DEF IInv, ProviderInv, Named
  <2>4. read \in [Readers -> [inst : Instances \cup {None}, ref : OptHash]]
    BY <2>1 DEF IInv, ProviderInv
  <2>5. fresh \in [Instances -> [pc : {"idle", "compare", "compile"}, ref : OptHash]]
    BY <2>1 DEF IInv, ProviderInv
  <2>6. call \in [Calls -> Call] /\ started \in 0..MaxOps /\ restarts \in 0..MaxRestarts
    BY DEF IInv, CallsInv, BoundsInv
  <2> QED
    BY <2>2, <2>3, <2>4, <2>5, <2>6 DEF TypeOK
<1> QED
  BY <1>1, InvariantHolds, PTL

(* What Provider.Active serves, and everything it can come to serve, is a  *)
(* published and validated version: the calls of Publish and Rollback are  *)
(* in an order that no race, failure or restart can break.                 *)
THEOREM OnlyPublishedIsServed == Spec => []ServedIsPublished
BY InvariantHolds, IInvServed, PTL

(* The parents that Publish records form a history per policy, whoever     *)
(* publishes or rolls back at the same time.                               *)
THEOREM LineageStaysHistory == Spec => []LineageIsHistory
<1>1. IInv => LineageIsHistory
  BY DEF IInv, VersionsInv
<1> QED
  BY <1>1, InvariantHolds, PTL

-----------------------------------------------------------------------------
(* An undisturbed publish or rollback.                                     *)

(* the row a publish or rollback to h leaves behind *)
ActiveRow(h) == [doc |-> h.doc, status |-> "published", active |-> h]

(* What a request has made true of the rows P, the bundle b and the stored *)
(* hashes H: it writes back the document it hashed, and as long as nobody  *)
(* else writes, what it wrote stays.                                       *)
EffectOK(k, P, b, H) ==
    /\ k.pc \in {"lookup", "put", "activate"} => k.row.doc = k.hash.doc
    /\ k.alone /\ k.pc \in {"point", "load", "store"} => P[k.hash.policy] = ActiveRow(k.hash)
    /\ k.alone /\ k.pc \in {"load", "store"} => b = k.hash /\ k.hash \in H

Effects == \A c \in Calls : EffectOK(call[c], policies, bundle, Hashes)

LEMMA NoCallEffect ==
    ASSUME NEW P, NEW b, NEW H
    PROVE  EffectOK(NoCall, P, b, H)
BY DEF EffectOK, NoCall

(* a request that does not write leaves the others' effects alone *)
LEMMA AdvanceEffect ==
    ASSUME IInv, Effects, NEW c \in Calls, NEW new, Advance(c, new), UNCHANGED tables,
           EffectOK(new, policies, bundle, Hashes)
    PROVE  Effects'
<1>1. policies' = policies /\ bundle' = bundle /\ Hashes' = Hashes
  BY DEF tables, Hashes
<1>2. \A d \in Calls : call'[d] = IF d = c THEN new ELSE call[d]
  BY DEF Advance, IInv, CallsInv
<1> QED
  BY <1>1, <1>2 DEF Effects

(* one that writes disturbs them *)
LEMMA WrittenEffect ==
    ASSUME IInv, Effects, NEW c \in Calls, NEW new, AdvanceWritten(c, new),
           EffectOK(new, policies', bundle', Hashes')
    PROVE  Effects'
<1>1. PICK answered \in BOOLEAN :
         call' = [d \in Calls |-> IF d # c THEN [call[d] EXCEPT !.alone = FALSE]
                                  ELSE IF answered THEN new ELSE NoCall]
  BY DEF AdvanceWritten
<1>2. ASSUME NEW d \in Calls PROVE EffectOK(call'[d], policies', bundle', Hashes')
  <2>1. CASE d = c
    <3>1. call'[d] = new \/ call'[d] = NoCall
      BY <1>1, <2>1
    <3> QED
      BY <3>1, NoCallEffect
  <2>2. CASE d # c
    <3>1. call'[d] = [call[d] EXCEPT !.alone = FALSE] /\ call[d] \in Call
      BY <1>1, <2>2 DEF IInv, CallsInv
    <3>2. /\ call'[d].alone = FALSE /\ call'[d].pc = call[d].pc
          /\ call'[d].row = call[d].row /\ call'[d].hash = call[d].hash
      BY <3>1 DEF Call
    <3>3. EffectOK(call[d], policies, bundle, Hashes)
      BY DEF Effects
    <3> QED
      BY <3>2, <3>3 DEF EffectOK
  <2> QED
    BY <2>1, <2>2
<1> QED
  BY <1>2 DEF Effects

(* the reads of Update, Publish and Rollback *)
LEMMA GetPolicyEffect ==
    ASSUME IInv, Effects, NEW c \in Calls, NEW i, NEW id, NEW pc, NEW row, NEW h,
           \/ pc \in {"write", "target"}
           \/ pc = "lookup" /\ row.doc = h.doc,
           GetPolicy(c, i, id, pc, row, h)
    PROVE  Effects'
<1> DEFINE new == [pc |-> pc, inst |-> i, id |-> id, row |-> row,
                   hash |-> h, ref |-> None, alone |-> TRUE]
<1>1. EffectOK(new, policies, bundle, Hashes)
  BY DEF EffectOK
<1>2. Advance(c, new) /\ UNCHANGED tables
  BY DEF GetPolicy
<1> QED
  BY <1>1, <1>2, AdvanceEffect

(* Rollback puts the document of its target into the row it read *)
LEMMA FindTargetEffect ==
    ASSUME IInv, Effects, NEW c \in Calls, FindTarget(c)
    PROVE  Effects'
<1> DEFINE k == call[c]
           found == [k EXCEPT !.pc = "activate", !.row.doc = k.hash.doc]
           new == IF k.hash \in Hashes THEN found ELSE NoCall
<1>1. k \in Call /\ k.row \in Row
  BY DEF IInv, CallsInv, FindTarget, CallOK
<1>2. found.pc = "activate" /\ found.row.doc = k.hash.doc /\ found.hash = k.hash
  BY <1>1 DEF Call, Row
<1>3. EffectOK(new, policies, bundle, Hashes)
  BY <1>2, NoCallEffect DEF EffectOK
<1>4. Advance(c, new) /\ UNCHANGED tables
  BY DEF FindTarget
<1> QED
  BY <1>3, <1>4, AdvanceEffect

LEMMA ActivatedRow ==
    ASSUME NEW w \in Row, NEW h, w.doc = h.doc
    PROVE  [w EXCEPT !.status = "published", !.active = h] = ActiveRow(h)
<1> DEFINE u == [w EXCEPT !.status = "published", !.active = h]
<1>1. u \in [doc : {h.doc}, status : {"published"}, active : {h}]
  BY DEF Row
<1>2. \A v \in [doc : {h.doc}, status : {"published"}, active : {h}] :
         v = [doc |-> h.doc, status |-> "published", active |-> h]
  OBVIOUS
<1> QED
  BY <1>1, <1>2 DEF ActiveRow

(* setActive writes the row the property speaks of *)
LEMMA SetActiveEffect ==
    ASSUME IInv, Effects, NEW c \in Calls, SetActive(c)
    PROVE  Effects'
<1> DEFINE k == call[c]
           row == [k.row EXCEPT !.status = "published", !.active = k.hash]
           new == [k EXCEPT !.pc = "point", !.row = None]
<1>1. k \in Call /\ k.row \in Row /\ k.id \in Policies /\ k.hash.policy = k.id /\ k.pc = "activate"
  BY DEF IInv, CallsInv, SetActive, CallOK
<1>2. k.row.doc = k.hash.doc
  BY <1>1 DEF Effects, EffectOK
<1>3. row = ActiveRow(k.hash)
  BY <1>1, <1>2, ActivatedRow
<1>4. policies'[k.hash.policy] = ActiveRow(k.hash)
  BY <1>1, <1>3 DEF SetActive, UpdatePolicy, IInv, PoliciesInv
<1>5. new.pc = "point" /\ new.hash = k.hash
  BY <1>1 DEF Call
<1>6. EffectOK(new, policies', bundle', Hashes')
  BY <1>4, <1>5 DEF EffectOK
<1> QED
  BY <1>6, WrittenEffect DEF SetActive

(* pointOrgBundle completes it *)
LEMMA PointOrgBundleEffect ==
    ASSUME IInv, Effects, NEW c \in Calls, PointOrgBundle(c)
    PROVE  Effects'
<1> DEFINE k == call[c]
           new == [k EXCEPT !.pc = "load"]
<1>1. k \in Call /\ k.hash \in Hashes /\ k.pc = "point"
  BY DEF IInv, CallsInv, PointOrgBundle, CallOK
<1>2. policies' = policies /\ Hashes' = Hashes /\ bundle' = k.hash
  BY DEF PointOrgBundle, SetActiveBundle, Hashes
<1>3. new.pc = "load" /\ new.hash = k.hash /\ new.alone = k.alone
  BY <1>1 DEF Call
<1>4. EffectOK(k, policies, bundle, Hashes)
  BY DEF Effects
<1>5. EffectOK(new, policies', bundle', Hashes')
  BY <1>1, <1>2, <1>3, <1>4 DEF EffectOK
<1> QED
  BY <1>5, WrittenEffect DEF PointOrgBundle

(* the other steps of a request *)
LEMMA CallMovesEffect ==
    ASSUME IInv, Effects, NEW c \in Calls, CallStep(c)
    PROVE  Effects'
<1> DEFINE k == call[c]
<1>k. k \in Call /\ EffectOK(k, policies, bundle, Hashes)
  BY DEF IInv, CallsInv, Effects
<1>1. ASSUME NEW id \in Policies, NEW d \in Document, Create(c, id, d)  PROVE Effects'
  BY <1>1, NoCallEffect, WrittenEffect DEF Create
<1>2. ASSUME NEW i \in Instances, NEW id \in Policies, NEW name, NEW rules, Update(c, i, id, name, rules)
      PROVE  Effects'
  BY <1>2, GetPolicyEffect DEF Update
<1>3. ASSUME NEW i \in Instances, NEW id \in Policies, Publish(c, i, id)  PROVE Effects'
  BY <1>3, GetPolicyEffect DEF Publish
<1>4. ASSUME NEW i \in Instances, NEW id \in Policies, NEW d, Rollback(c, i, id, d)  PROVE Effects'
  BY <1>4, GetPolicyEffect DEF Rollback
<1>5. CASE WriteWorkingCopy(c)
  BY <1>5, NoCallEffect, WrittenEffect DEF WriteWorkingCopy
<1>6. CASE LookupVersion(c)
  <2> DEFINE new == [k EXCEPT !.pc = IF k.hash \in Hashes THEN "activate" ELSE "put"]
  <2>1. new.pc \in {"activate", "put"} /\ new.row = k.row /\ new.hash = k.hash /\ k.pc = "lookup"
    BY <1>6, <1>k DEF Call, LookupVersion
  <2>2. EffectOK(new, policies, bundle, Hashes)
    BY <1>k, <2>1 DEF EffectOK
  <2>3. Advance(c, new) /\ UNCHANGED tables
    BY <1>6 DEF LookupVersion
  <2> QED
    BY <2>2, <2>3, AdvanceEffect
<1>7. CASE InsertVersion(c)
  <2> DEFINE new == [k EXCEPT !.pc = "activate"]
  <2>1. new.pc = "activate" /\ new.row = k.row /\ new.hash = k.hash /\ k.pc = "put"
    BY <1>7, <1>k DEF Call, InsertVersion
  <2>2. EffectOK(new, policies', bundle', Hashes')
    BY <1>k, <2>1 DEF EffectOK
  <2>3. AdvanceWritten(c, new)
    BY <1>7 DEF InsertVersion
  <2> QED
    BY <2>2, <2>3, WrittenEffect
<1>8. CASE InvalidateRead(c)
  <2> DEFINE new == [k EXCEPT !.pc = "store", !.ref = GetActiveBundle]
  <2>1. new.pc = "store" /\ new.alone = k.alone /\ new.hash = k.hash /\ k.pc = "load"
    BY <1>8, <1>k DEF Call, InvalidateRead
  <2>2. EffectOK(new, policies, bundle, Hashes)
    BY <1>k, <2>1 DEF EffectOK
  <2>3. Advance(c, new) /\ UNCHANGED tables
    BY <1>8 DEF InvalidateRead
  <2> QED
    BY <2>2, <2>3, AdvanceEffect
<1>9. CASE InvalidateStore(c) \/ CallFails(c)
  BY <1>9, NoCallEffect, AdvanceEffect DEF InvalidateStore, CallFails
<1> QED
  BY <1>1, <1>2, <1>3, <1>4, <1>5, <1>6, <1>7, <1>8, <1>9,
     FindTargetEffect, SetActiveEffect, PointOrgBundleEffect DEF CallStep

LEMMA NextEffects == IInv /\ Effects /\ [Next]_vars => Effects'
<1> SUFFICES ASSUME IInv, Effects, [Next]_vars PROVE Effects'
  OBVIOUS
<1>1. CASE \E c \in Calls : CallStep(c)
  BY <1>1, CallMovesEffect
<1>2. ASSUME UNCHANGED tables, \A c \in Calls : call'[c] = call[c] \/ call'[c] = NoCall
      PROVE  Effects'
  <2>1. policies' = policies /\ bundle' = bundle /\ Hashes' = Hashes
    BY <1>2 DEF tables, Hashes
  <2> QED
    BY <1>2, <2>1, NoCallEffect DEF Effects
<1>3. CASE \E r \in Readers : ReadStep(r)
  BY <1>2, <1>3 DEF ReadStep, ColdMiss, ColdStore, ColdFails
<1>4. CASE \E i \in Instances : RefreshStep(i)
  BY <1>2, <1>4 DEF RefreshStep, RefreshRead, RefreshCompare, RefreshStore, RefreshFails
<1>5. CASE \E i \in Instances : Restart(i)
  BY <1>2, <1>5 DEF Restart
<1>6. CASE UNCHANGED vars
  BY <1>2, <1>6 DEF vars
<1> QED
  BY <1>1, <1>3, <1>4, <1>5, <1>6 DEF Next

(* A publish or rollback that nobody else wrote into has taken effect as a *)
(* whole when it reports success: Service.Publish and Service.Rollback may *)
(* be retried after any failure between their store calls.                 *)
THEOREM UndisturbedPublishTakesEffect == Spec => []UndisturbedTakesEffect
<1>1. Init => Effects
  BY NoCallEffect DEF Init, Effects
<1>2. Effects => UndisturbedTakesEffect
  BY DEF Effects, EffectOK, ActiveRow, UndisturbedTakesEffect
<1>3. Spec => []Effects
  BY <1>1, NextEffects, InvariantHolds, PTL DEF Spec
<1> QED
  BY <1>2, <1>3, PTL
=============================================================================
