---------------------------- MODULE PolicyBundle ----------------------------
(***************************************************************************)
(* The policy control plane of one organisation (policyctl.Service over    *)
(* its Postgres store, behind /v1/policies) and the decision plane's       *)
(* bundle.Provider on every instance.                                      *)
(*                                                                         *)
(* No operation is a transaction: a publish is GetPolicy, GetVersion,      *)
(* PutVersion, UpdatePolicy, SetActiveBundle and then a reload of the      *)
(* local cache, each a call of its own, and UpdatePolicy writes the WHOLE  *)
(* row as it was read.  The model has one action per store call.  A call   *)
(* may fail before it takes effect, or after (the answer is lost or the    *)
(* client's context is cancelled), and an instance may restart.            *)
(*                                                                         *)
(* A version hash is a pure function of the policy's identity and its      *)
(* document, so it is modelled as that pair: ContentHash is assumed to be  *)
(* collision free.                                                         *)
(***************************************************************************)
EXTENDS Naturals, Sequences, FiniteSets

CONSTANTS
    Policies,       \* policy ids that Create can mint
    Names,          \* policy names
    RuleSets,       \* agents and rules of a document
    Publishable,    \* the rule sets that Validate accepts
    Calls,          \* slots of concurrent control-plane requests
    Readers,        \* decision requests that may miss the cache
    Instances,      \* processes, each with its own provider
    MaxOps,         \* bound: updates, publishes and rollbacks ever started
    MaxRestarts,    \* bound: restarts of instances
    None            \* SQL NULL, a missing row, an empty cache entry

ASSUME PublishableAssumption == Publishable \subseteq RuleSets
ASSUME BoundsAssumption == MaxOps \in Nat /\ MaxRestarts \in Nat
ASSUME NoneAssumption == None \notin Names

Document == [name : Names, rules : RuleSets]

\* ContentHash: identity and document, nothing else.
Hash == [policy : Policies, doc : Document]

OptHash == Hash \cup {None}

ASSUME NoneIsNoHash == None \notin Hash

\* Validate: what Publish and Simulate demand of a working copy.
Valid(d) == d.rules \in Publishable

\* A row of policies: the mutable working copy.
Row == [doc : Document, status : {"draft", "published"}, active : OptHash]

ASSUME NoneIsNoRow == None \notin Row

\* A row of policy_versions, in the order of insertion (append-only).
Version == [hash : Hash, parent : OptHash]

\* Where a request stands: the store call it makes next.
CallPC == {"idle", "write", "lookup", "put", "target", "activate", "point",
           "load", "store"}

VARIABLES
    policies,   \* policies: id -> row
    versions,   \* policy_versions
    bundle,     \* org_active_bundles: the version the organisation serves
    cache,      \* Provider.cache of each instance
    call,       \* the control-plane requests in flight
    read,       \* the cold loads in flight
    fresh,      \* the refresher of each instance
    started,    \* updates, publishes and rollbacks started so far
    restarts    \* restarts so far

tables   == <<policies, versions, bundle>>
provider == <<cache, read, fresh>>
bounds   == <<started, restarts>>
vars     == <<tables, provider, call, bounds>>

(***************************************************************************)
(* A request: the instance that handles it, the policy it names, p as the  *)
(* handler holds it for as long as it needs it, the hash it publishes or   *)
(* restores, the bundle pointer its reload read, and whether no other      *)
(* request has written since it read p (for the properties only).          *)
(***************************************************************************)
Call == [pc : CallPC, inst : Instances \cup {None},
         id : Policies \cup {None}, row : Row \cup {None}, hash : OptHash,
         ref : OptHash, alone : BOOLEAN]

NoCall == [pc |-> "idle", inst |-> None, id |-> None,
           row |-> None, hash |-> None, ref |-> None, alone |-> FALSE]

NoRead == [inst |-> None, ref |-> None]

NotRefreshing == [pc |-> "idle", ref |-> None]

TypeOK ==
    /\ policies \in [Policies -> Row \cup {None}]
    /\ versions \in Seq(Version)
    /\ bundle \in OptHash
    /\ cache \in [Instances -> OptHash]
    /\ call \in [Calls -> Call]
    /\ read \in [Readers -> [inst : Instances \cup {None}, ref : OptHash]]
    /\ fresh \in [Instances -> [pc : {"idle", "compare", "compile"}, ref : OptHash]]
    /\ started \in 0..MaxOps
    /\ restarts \in 0..MaxRestarts

Init ==
    /\ policies = [id \in Policies |-> None]
    /\ versions = <<>>
    /\ bundle = None
    /\ cache = [i \in Instances |-> None]
    /\ call = [c \in Calls |-> NoCall]
    /\ read = [r \in Readers |-> NoRead]
    /\ fresh = [i \in Instances |-> NotRefreshing]
    /\ started = 0
    /\ restarts = 0

-----------------------------------------------------------------------------
(* The store *)

Hashes == {versions[n].hash : n \in 1..Len(versions)}

\* mutant: the conflict is not looked at
PutVersionBlind(h, parent) ==
    versions' = Append(versions, [hash |-> h, parent |-> parent])

\* PutVersion: ON CONFLICT (version_hash) DO NOTHING.
PutVersion(h, parent) ==
    versions' = IF h \in Hashes THEN versions
                ELSE Append(versions, [hash |-> h, parent |-> parent])

\* CreatePolicy: one INSERT of a new row.
InsertPolicy(id, row) ==
    /\ policies[id] = None
    /\ policies' = [policies EXCEPT ![id] = row]

SelectPolicy(id) == policies[id]

\* UpdatePolicy writes every column of the row it is given.
UpdatePolicy(id, row) == policies' = [policies EXCEPT ![id] = row]

\* org_active_bundles: an upsert, and the read that every load starts with.
SetActiveBundle(h) == bundle' = h

GetActiveBundle == bundle

\* compileRef: the version is fetched and compiles (MCVerdict shows that what
\* Validate accepted does).
Compiled(ref) == ref \in Hashes /\ Valid(ref.doc)

\* Provider.store
StoreEntry(i, ref) == cache' = [cache EXCEPT ![i] = ref]

-----------------------------------------------------------------------------
(* Control-plane requests *)

\* The request moves on, and no other request has written.
Advance(c, new) == call' = [call EXCEPT ![c] = new]

(***************************************************************************)
(* The request has written: every other one now holds a stale p.  Its      *)
(* answer may be lost, and then the handler returns the error.             *)
(***************************************************************************)
AdvanceWritten(c, new) ==
    \E answered \in BOOLEAN :
        call' = [d \in Calls |-> IF d # c THEN [call[d] EXCEPT !.alone = FALSE]
                                 ELSE IF answered THEN new ELSE NoCall]

\* mutant: the INSERT leaves the status out
CreateNoStatus(c, id, d) ==
    /\ call[c].pc = "idle"
    /\ InsertPolicy(id, [doc |-> d, status |-> None, active |-> None])
    /\ AdvanceWritten(c, NoCall)
    /\ UNCHANGED <<versions, bundle, provider, bounds>>

\* Service.Create: a fresh id (a ULID) and one INSERT of a draft.
Create(c, id, d) ==
    /\ call[c].pc = "idle"
    /\ InsertPolicy(id, [doc |-> d, status |-> "draft", active |-> None])
    /\ AdvanceWritten(c, NoCall)
    /\ UNCHANGED <<versions, bundle, provider, bounds>>

\* A handler reads the working copy; what it does next depends on the endpoint.
GetPolicy(c, i, id, pc, row, h) ==
    /\ call[c].pc = "idle"
    /\ started < MaxOps
    /\ policies[id] # None
    /\ Advance(c, [pc |-> pc, inst |-> i, id |-> id, row |-> row,
                   hash |-> h, ref |-> None, alone |-> TRUE])
    /\ started' = started + 1
    /\ UNCHANGED <<tables, provider, restarts>>

\* Service.Update, its read: an empty name keeps the old one.
Update(c, i, id, name, rules) ==
    LET p == SelectPolicy(id)
        d == [name |-> IF name = None THEN p.doc.name ELSE name, rules |-> rules]
    IN  GetPolicy(c, i, id, "write", [p EXCEPT !.doc = d], None)

\* Service.Publish, its read: an invalid working copy is a 422 and nothing follows.
Publish(c, i, id) ==
    /\ policies[id] # None
    /\ Valid(SelectPolicy(id).doc)
    /\ GetPolicy(c, i, id, "lookup", SelectPolicy(id),
                 [policy |-> id, doc |-> SelectPolicy(id).doc])

\* Service.Rollback, its read; the request names the version to restore.
Rollback(c, i, id, d) ==
    GetPolicy(c, i, id, "target", SelectPolicy(id),
              [policy |-> id, doc |-> d])

\* Service.Update writes the working copy back.
WriteWorkingCopy(c) ==
    /\ call[c].pc = "write"
    /\ UpdatePolicy(call[c].id, call[c].row)
    /\ AdvanceWritten(c, NoCall)
    /\ UNCHANGED <<versions, bundle, provider, bounds>>

\* mutant: republishing the version the working copy has active does nothing more
LookupVersionEarly(c) ==
    /\ call[c].pc = "lookup"
    /\ Advance(c, [call[c] EXCEPT
           !.pc = IF call[c].hash = call[c].row.active THEN "load"
                  ELSE IF call[c].hash \in Hashes THEN "activate" ELSE "put"])
    /\ UNCHANGED <<tables, provider, bounds>>

\* Publish asks whether the hash is already versioned; if so it is reused.
LookupVersion(c) ==
    /\ call[c].pc = "lookup"
    /\ Advance(c, [call[c] EXCEPT
           !.pc = IF call[c].hash \in Hashes THEN "activate" ELSE "put"])
    /\ UNCHANGED <<tables, provider, bounds>>

\* Publish stores the signed version, naming as parent the version p had active.
InsertVersion(c) ==
    /\ call[c].pc = "put"
    /\ PutVersion(call[c].hash, call[c].row.active)
    /\ AdvanceWritten(c, [call[c] EXCEPT !.pc = "activate"])
    /\ UNCHANGED <<policies, bundle, provider, bounds>>

\* mutant: the version to restore is taken from the request unseen
FindTargetUnseen(c) ==
    /\ call[c].pc = "target"
    /\ Advance(c, [call[c] EXCEPT !.pc = "activate", !.row.doc = call[c].hash.doc])
    /\ UNCHANGED <<tables, provider, bounds>>

\* Rollback reads its target, a version of this policy, and restores its document.
FindTarget(c) ==
    /\ call[c].pc = "target"
    /\ Advance(c, IF call[c].hash \in Hashes
                  THEN [call[c] EXCEPT !.pc = "activate",
                                       !.row.doc = call[c].hash.doc]
                  ELSE NoCall)
    /\ UNCHANGED <<tables, provider, bounds>>

\* setActive, and the same assignments at the end of Rollback.
SetActive(c) ==
    /\ call[c].pc = "activate"
    /\ UpdatePolicy(call[c].id,
                    [call[c].row EXCEPT !.status = "published",
                                        !.active = call[c].hash])
    /\ AdvanceWritten(c, [call[c] EXCEPT !.pc = "point", !.row = None])
    /\ UNCHANGED <<versions, bundle, provider, bounds>>

\* pointOrgBundle: SetActiveBundle, an upsert.
PointOrgBundle(c) ==
    /\ call[c].pc = "point"
    /\ SetActiveBundle(call[c].hash)
    /\ AdvanceWritten(c, [call[c] EXCEPT !.pc = "load"])
    /\ UNCHANGED <<policies, versions, provider, bounds>>

\* invalidateBundle: Provider.load reads the pointer ...
InvalidateRead(c) ==
    /\ call[c].pc = "load"
    /\ Advance(c, [call[c] EXCEPT !.pc = "store", !.ref = GetActiveBundle])
    /\ UNCHANGED <<tables, provider, bounds>>

\* ... and then fetches and compiles that version and stores it.
InvalidateStore(c) ==
    /\ call[c].pc = "store"
    /\ Compiled(call[c].ref)
    /\ StoreEntry(call[c].inst, call[c].ref)
    /\ Advance(c, NoCall)
    /\ UNCHANGED <<tables, read, fresh, bounds>>

\* A store call errs without effect: the handler answers 503, or, when only the
\* reload failed, logs it.
CallFails(c) ==
    /\ call[c].pc # "idle"
    /\ Advance(c, NoCall)
    /\ UNCHANGED <<tables, provider, bounds>>

-----------------------------------------------------------------------------
(* Provider, on the decision path and in the background *)

\* Provider.Active misses: load reads the pointer. Without a bundle it returns
\* ErrNoActiveBundle and changes nothing here; the engine then decides under the
\* static boot policy, if it was given one, which never enters this cache.
ColdMiss(r, i) ==
    /\ read[r] = NoRead
    /\ cache[i] = None
    /\ GetActiveBundle # None
    /\ read' = [read EXCEPT ![r] = [inst |-> i, ref |-> GetActiveBundle]]
    /\ UNCHANGED <<tables, cache, fresh, call, bounds>>

\* load fetches, compiles and stores the version it read the pointer to.
ColdStore(r) ==
    /\ read[r] # NoRead
    /\ Compiled(read[r].ref)
    /\ StoreEntry(read[r].inst, read[r].ref)
    /\ read' = [read EXCEPT ![r] = NoRead]
    /\ UNCHANGED <<tables, fresh, call, bounds>>

\* load fails or times out: the request is answered with the error.
ColdFails(r) ==
    /\ read[r] # NoRead
    /\ read' = [read EXCEPT ![r] = NoRead]
    /\ UNCHANGED <<tables, cache, fresh, call, bounds>>

\* Run's tick: refreshAll covers the organisations in the cache; GetActiveBundle.
RefreshRead(i) ==
    /\ fresh[i].pc = "idle"
    /\ cache[i] # None
    /\ GetActiveBundle # None
    /\ fresh' = [fresh EXCEPT ![i] = [pc |-> "compare", ref |-> GetActiveBundle]]
    /\ UNCHANGED <<tables, cache, read, call, bounds>>

\* mutant: an organisation that is cached counts as unchanged
RefreshCompareCached(i) ==
    /\ fresh[i].pc = "compare"
    /\ fresh' = [fresh EXCEPT ![i] = IF cache[i] # None
                                     THEN NotRefreshing
                                     ELSE [fresh[i] EXCEPT !.pc = "compile"]]
    /\ UNCHANGED <<tables, cache, read, call, bounds>>

\* refreshOrg returns when the cached hash is the one it read.
RefreshCompare(i) ==
    /\ fresh[i].pc = "compare"
    /\ fresh' = [fresh EXCEPT ![i] = IF cache[i] = fresh[i].ref
                                     THEN NotRefreshing
                                     ELSE [fresh[i] EXCEPT !.pc = "compile"]]
    /\ UNCHANGED <<tables, cache, read, call, bounds>>

\* refreshOrg fetches and compiles the version and swaps the cached bundle.
RefreshStore(i) ==
    /\ fresh[i].pc = "compile"
    /\ Compiled(fresh[i].ref)
    /\ StoreEntry(i, fresh[i].ref)
    /\ fresh' = [fresh EXCEPT ![i] = NotRefreshing]
    /\ UNCHANGED <<tables, read, call, bounds>>

\* Any error keeps the last-known-good bundle.
RefreshFails(i) ==
    /\ fresh[i].pc = "compile"
    /\ fresh' = [fresh EXCEPT ![i] = NotRefreshing]
    /\ UNCHANGED <<tables, cache, read, call, bounds>>

\* The process restarts: its cache and everything in flight on it are gone.
Restart(i) ==
    /\ restarts < MaxRestarts
    /\ restarts' = restarts + 1
    /\ cache' = [cache EXCEPT ![i] = None]
    /\ fresh' = [fresh EXCEPT ![i] = NotRefreshing]
    /\ read' = [r \in Readers |-> IF read[r].inst = i THEN NoRead ELSE read[r]]
    /\ call' = [c \in Calls |-> IF call[c].inst = i THEN NoCall ELSE call[c]]
    /\ UNCHANGED <<tables, started>>

-----------------------------------------------------------------------------
CallStep(c) ==
    \/ \E id \in Policies, d \in Document : Create(c, id, d)
    \/ \E i \in Instances, id \in {p \in Policies : policies[p] # None} :
          \/ \E name \in Names \cup {None}, rules \in RuleSets :
                Update(c, i, id, name, rules)
          \/ Publish(c, i, id)
          \/ \E d \in Document : Rollback(c, i, id, d)
    \/ WriteWorkingCopy(c)
    \/ LookupVersion(c)
    \/ InsertVersion(c)
    \/ FindTarget(c)
    \/ SetActive(c)
    \/ PointOrgBundle(c)
    \/ InvalidateRead(c)
    \/ InvalidateStore(c)
    \/ CallFails(c)

ReadStep(r) ==
    \/ \E i \in Instances : ColdMiss(r, i)
    \/ ColdStore(r)
    \/ ColdFails(r)

RefreshStep(i) ==
    \/ RefreshRead(i)
    \/ RefreshCompare(i)
    \/ RefreshStore(i)
    \/ RefreshFails(i)

Next ==
    \/ \E c \in Calls : CallStep(c)
    \/ \E r \in Readers : ReadStep(r)
    \/ \E i \in Instances : RefreshStep(i)
    \/ \E i \in Instances : Restart(i)

Spec == Init /\ [][Next]_vars

(***************************************************************************)
(* Only the refresher is fair: its ticker fires for as long as the process *)
(* runs, and the store, which may refuse any single read of a version,     *)
(* does not refuse all of them.  Requests may hang or be abandoned.        *)
(***************************************************************************)
Fairness ==
    \A i \in Instances :
        /\ WF_vars(RefreshRead(i))
        /\ WF_vars(RefreshCompare(i))
        /\ SF_vars(RefreshStore(i))

FairSpec == Spec /\ Fairness

-----------------------------------------------------------------------------
(* Properties *)

(***************************************************************************)
(* Whatever races, fails or restarts, the provider serves nothing but      *)
(* published versions: the cached bundle, every pointer a load or a        *)
(* refresh holds, the organisation's bundle and the active hash of every   *)
(* row, in the table or in a handler's hands, name rows of                 *)
(* policy_versions, and only validated documents are there.  No foreign    *)
(* key guards policies.active_version_hash: the order of Publish's and     *)
(* Rollback's store calls has to.  (An organisation without a bundle is    *)
(* not served by the provider: Engine.Authorize falls back to the static   *)
(* boot policy, which nobody publishes.)                                   *)
(***************************************************************************)
ServedIsPublished ==
    /\ \A h \in Hashes : Valid(h.doc)
    /\ {bundle} \cup {cache[i] : i \in Instances}
         \cup {read[r].ref : r \in Readers}
         \cup {fresh[i].ref : i \in Instances}
         \cup {call[c].ref : c \in Calls} \subseteq Hashes \cup {None}
    /\ \A id \in Policies : policies[id] # None =>
           policies[id].active \in Hashes \cup {None}
    /\ \A c \in Calls :
           /\ call[c].row # None => call[c].row.active \in Hashes \cup {None}
           /\ call[c].pc \in {"activate", "point"} => call[c].hash \in Hashes

(***************************************************************************)
(* The parent hashes of the versions are a history: a version is stored    *)
(* once, and its parent, if any, is a version of the same policy that was  *)
(* stored before it.  Two publishers may read the same p, publish the same *)
(* document at once or revive an old one: no cycle and no dangling parent. *)
(***************************************************************************)
LineageIsHistory ==
    \A n \in 1..Len(versions) :
        /\ \A m \in 1..(n - 1) : versions[m].hash # versions[n].hash
        /\ versions[n].parent # None =>
              /\ versions[n].parent.policy = versions[n].hash.policy
              /\ \E m \in 1..(n - 1) : versions[m].hash = versions[n].parent

(***************************************************************************)
(* A publish or rollback during which no other request wrote has taken     *)
(* effect as a whole when it reports success, whatever half-finished       *)
(* request failed before it: the working copy, its active hash and the     *)
(* organisation's bundle agree.  This is what makes retrying the remedy    *)
(* for a publish that failed between its store calls.                      *)
(***************************************************************************)
UndisturbedTakesEffect ==
    \A c \in Calls : call[c].pc \in {"load", "store"} /\ call[c].alone =>
        LET h == call[c].hash
        IN  /\ bundle = h
            /\ h \in Hashes
            /\ policies[h.policy] = [doc |-> h.doc, status |-> "published", active |-> h]

(***************************************************************************)
(* Every instance that serves a bundle converges to the organisation's     *)
(* active one, although a slow load may store an older version over a      *)
(* newer one and refreshes fail.                                           *)
(***************************************************************************)
Converges == <>[](\A i \in Instances : cache[i] # None => cache[i] = bundle)

=============================================================================
