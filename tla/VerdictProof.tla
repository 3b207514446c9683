---------------------------- MODULE VerdictProof ----------------------------
(***************************************************************************)
(* Proofs about the verdict algebra and the rules, for lists of results,   *)
(* policies and requests of every kind and length.                         *)
(*                                                                         *)
(* Both are loops over lists.  What a loop computes is proved by induction *)
(* on the number of turns it has taken; the induction rests on the well-   *)
(* foundedness of the natural numbers and is stated for sets, which the    *)
(* provers can instantiate.                                                *)
(***************************************************************************)
EXTENDS MCVerdict, SequenceTheorems, WellFoundedInduction, TLAPS

-----------------------------------------------------------------------------
(* Induction.                                                              *)

LessThan == { p \in Nat \X Nat : p[1] < p[2] }

(* A non-empty set of natural numbers has a least element.                 *)
LEMMA LeastNatural ==
  ASSUME NEW T \in SUBSET Nat, T # {}
  PROVE  \E n \in T : \A m \in T : n <= m
<1>1. IsWellFoundedOn(LessThan, Nat)
  BY NatLessThanWellFounded DEF OpToRel, LessThan
<1>2. PICK n \in T : \A m \in T : ~(<<m, n>> \in LessThan)
  BY <1>1, WFMin
<1>3. ASSUME NEW m \in T  PROVE n <= m
  <2>1. m \in Nat /\ n \in Nat /\ ~(<<m, n>> \in LessThan)
    BY <1>2
  <2>. QED  BY <2>1 DEF LessThan
<1>. QED  BY <1>3

(* A set with zero and the successors of its elements has all of them.     *)
LEMMA Induction ==
  ASSUME NEW S, 0 \in S, \A n \in Nat : n \in S => n + 1 \in S
  PROVE  \A n \in Nat : n \in S
<1>. SUFFICES ASSUME Nat \ S # {}  PROVE FALSE
  OBVIOUS
<1>1. PICK n \in Nat \ S : \A m \in Nat \ S : n <= m
  BY LeastNatural
<1>2. n # 0 /\ n - 1 \in Nat /\ n - 1 \in S
  BY <1>1
<1>. QED  BY <1>1, <1>2

-----------------------------------------------------------------------------
(* The loop of Combine.                                                    *)

(* Its turn i: from what it has come to before, what it comes to.          *)
Turn(f, s, i) ==
    IF i = 0 THEN "SATISFIED"
    ELSE IF f[i - 1] = "DENIED" \/ EffectiveOutcome(s[i]) = "SATISFIED" THEN f[i - 1]
    ELSE EffectiveOutcome(s[i])

(* f is a run of the loop over the first n results of s.                   *)
IsRun(f, s, n) == f = [i \in 0..n |-> Turn(f, s, i)]

LEMMA RunExists ==
  ASSUME NEW s
  PROVE  \A n \in Nat : \E f : IsRun(f, s, n)
<1>. DEFINE S == { n \in Nat : \E f : IsRun(f, s, n) }
<1>1. 0 \in S
  <2>1. IsRun([i \in 0..0 |-> "SATISFIED"], s, 0)
    BY DEF IsRun, Turn
  <2>. QED  BY <2>1
<1>2. ASSUME NEW n \in Nat, n \in S  PROVE n + 1 \in S
  <2>1. PICK g : IsRun(g, s, n)
    BY <1>2
  <2>2. \A i \in 0..n : g[i] = Turn(g, s, i)
    BY <2>1 DEF IsRun
  <2>. DEFINE f == [i \in 0..(n + 1) |-> IF i = n + 1 THEN Turn(g, s, i) ELSE g[i]]
  <2>3. ASSUME NEW i \in 0..(n + 1)  PROVE f[i] = Turn(f, s, i)
    <3>1. i # 0 => f[i - 1] = g[i - 1]
      OBVIOUS
    <3>2. f[i] = Turn(g, s, i)
      BY <2>2
    <3>. QED  BY <3>1, <3>2 DEF Turn
  <2>4. f = [i \in 0..(n + 1) |-> Turn(f, s, i)]
    BY <2>3
  <2>5. IsRun(f, s, n + 1)
    BY <2>4 DEF IsRun
  <2>. HIDE DEF f
  <2>. QED  BY <2>5
<1>. HIDE DEF S
<1>3. \A n \in Nat : n \in S
  BY <1>1, <1>2, Induction
<1>. QED  BY <1>3 DEF S

(* The outcomes that are left once fail modes are resolved.                *)
Effective == {"SATISFIED", "DENIED", "REVIEW"}

(* The first n results of s have an outcome o among them.                  *)
Among(s, n, o) == \E i \in 1..n : EffectiveOutcome(s[i]) = o

(* What they come to, by precedence.                                       *)
ComesTo(s, n) ==
    IF Among(s, n, "DENIED") THEN "DENIED"
    ELSE IF Among(s, n, "REVIEW") THEN "REVIEW"
    ELSE "SATISFIED"

LEMMA RunEnds ==
  ASSUME NEW s, NEW n \in Nat, \A i \in 1..n : EffectiveOutcome(s[i]) \in Effective,
         NEW f, IsRun(f, s, n)
  PROVE  f[n] = ComesTo(s, n)
<1>. DEFINE S == { k \in Nat : k <= n => f[k] = ComesTo(s, k) }
<1>1. 0 \in S
  BY DEF IsRun, Turn, ComesTo, Among
<1>2. ASSUME NEW k \in Nat, k \in S  PROVE k + 1 \in S
  <2>. SUFFICES ASSUME k + 1 <= n  PROVE f[k + 1] = ComesTo(s, k + 1)
    OBVIOUS
  <2>1. f[k] = ComesTo(s, k)
    BY <1>2
  <2>. DEFINE e == EffectiveOutcome(s[k + 1])
  <2>2. e \in Effective
    OBVIOUS
  <2>3. f[k + 1] = IF f[k] = "DENIED" \/ e = "SATISFIED" THEN f[k] ELSE e
    <3>1. k + 1 \in 0..n /\ k + 1 # 0 /\ (k + 1) - 1 = k
      OBVIOUS
    <3>2. f[k + 1] = Turn(f, s, k + 1)
      BY <3>1 DEF IsRun
    <3>. QED  BY <3>1, <3>2 DEF Turn
  <2>4. ASSUME NEW o  PROVE Among(s, k + 1, o) <=> Among(s, k, o) \/ e = o
    <3>1. \A i : i \in 1..(k + 1) <=> i \in 1..k \/ i = k + 1
      OBVIOUS
    <3>. QED  BY <3>1 DEF Among
  <2>. HIDE DEF e
  <2>. QED  BY <2>1, <2>2, <2>3, <2>4 DEF ComesTo, Effective
<1>. HIDE DEF S
<1>3. n \in S
  BY <1>1, <1>2, Induction
<1>. QED  BY <1>3 DEF S

(* Over every list, the loop computes the precedence of Combine.           *)
LEMMA LoopIsCombine ==
  ASSUME NEW V, NEW s \in Seq(V), \A i \in 1..Len(s) : EffectiveOutcome(s[i]) \in Effective
  PROVE  CombineLoop(s) = Combine(s)
<1>. DEFINE n   == Len(s)
            saw == CHOOSE f : IsRun(f, s, n)
<1>0. n \in Nat
  OBVIOUS
<1>1. IsRun(saw, s, n)
  BY <1>0, RunExists
<1>2. saw[n] = ComesTo(s, n)
  BY <1>0, <1>1, RunEnds
<1>3. \A o : Some(s, o) <=> Among(s, n, o)
  BY DEF Some, Among
<1>4. CombineLoop(s) = CASE s = <<>>          -> "DENY"
                         [] saw[n] = "DENIED" -> "DENY"
                         [] saw[n] = "REVIEW" -> "REVIEW"
                         [] OTHER             -> "APPROVE"
  BY DEF CombineLoop, IsRun, Turn
<1>. HIDE DEF saw
<1>5. CASE s = <<>>
  <2>1. saw[n] # "REVIEW" /\ saw[n] # "DENIED"
    BY <1>2, <1>5 DEF ComesTo, Among
  <2>. QED  BY <1>4, <1>5, <2>1 DEF Combine
<1>6. CASE s # <<>> /\ Some(s, "DENIED")
  <2>1. saw[n] = "DENIED" /\ "DENIED" # "REVIEW"
    BY <1>2, <1>3, <1>6 DEF ComesTo
  <2>. QED  BY <1>4, <1>6, <2>1 DEF Combine
<1>7. CASE s # <<>> /\ ~Some(s, "DENIED") /\ Some(s, "REVIEW")
  <2>1. saw[n] = "REVIEW" /\ "DENIED" # "REVIEW"
    BY <1>2, <1>3, <1>7 DEF ComesTo
  <2>. QED  BY <1>4, <1>7, <2>1 DEF Combine
<1>8. CASE s # <<>> /\ ~Some(s, "DENIED") /\ ~Some(s, "REVIEW")
  <2>1. saw[n] # "REVIEW" /\ saw[n] # "DENIED"
    BY <1>2, <1>3, <1>8 DEF ComesTo
  <2>. QED  BY <1>4, <1>8, <2>1 DEF Combine
<1>. QED  BY <1>5, <1>6, <1>7, <1>8

LEMMA OutcomeType ==
  ASSUME NEW r \in PredicateResults
  PROVE  EffectiveOutcome(r) \in Effective
BY DEF EffectiveOutcome, PredicateResults, PredicateOutcomes, FailModes, Effective

LEMMA LoopOfResults ==
  ASSUME NEW s \in Seq(PredicateResults)
  PROVE  CombineLoop(s) = Combine(s)
<1>1. \A i \in 1..Len(s) : s[i] \in PredicateResults
  OBVIOUS
<1>. QED  BY <1>1, LoopIsCombine, OutcomeType

(* An outcome is somewhere in a list after an append iff it was there or   *)
(* is that of the new result.                                              *)
LEMMA SomeAppend ==
  ASSUME NEW s \in Seq(PredicateResults), NEW r \in PredicateResults, NEW o
  PROVE  Some(Append(s, r), o) <=> Some(s, o) \/ EffectiveOutcome(r) = o
<1>. DEFINE t == Append(s, r)
<1>1. /\ Len(s) \in Nat /\ Len(t) = Len(s) + 1
      /\ \A i \in 1..Len(s) : t[i] = s[i]
      /\ t[Len(s) + 1] = r
  OBVIOUS
<1>2. Some(t, o) => Some(s, o) \/ EffectiveOutcome(r) = o
  <2>. SUFFICES ASSUME NEW i \in 1..Len(t), EffectiveOutcome(t[i]) = o
               PROVE  Some(s, o) \/ EffectiveOutcome(r) = o
    BY DEF Some
  <2>1. CASE i \in 1..Len(s)
    BY <1>1, <2>1 DEF Some
  <2>2. CASE i = Len(s) + 1
    BY <1>1, <2>2
  <2>. QED  BY <1>1, <2>1, <2>2
<1>3. Some(s, o) => Some(t, o)
  <2>. SUFFICES ASSUME NEW i \in 1..Len(s), EffectiveOutcome(s[i]) = o
               PROVE  Some(t, o)
    BY DEF Some
  <2>1. i \in 1..Len(t) /\ t[i] = s[i]
    BY <1>1
  <2>. QED  BY <2>1 DEF Some
<1>4. EffectiveOutcome(r) = o => Some(t, o)
  <2>1. Len(s) + 1 \in 1..Len(t) /\ t[Len(s) + 1] = r
    BY <1>1
  <2>. QED  BY <2>1 DEF Some
<1>. QED  BY <1>2, <1>3, <1>4

-----------------------------------------------------------------------------
(* The loop of Kept.                                                       *)

KeepTurn(f, s, keep, i) ==
    IF i = 0 THEN <<>>
    ELSE IF i \in keep THEN Append(f[i - 1], s[i])
    ELSE f[i - 1]

IsKeeping(f, s, keep, n) == f = [i \in 0..n |-> KeepTurn(f, s, keep, i)]

LEMMA KeepingExists ==
  ASSUME NEW s, NEW keep
  PROVE  \A n \in Nat : \E f : IsKeeping(f, s, keep, n)
<1>. DEFINE S == { n \in Nat : \E f : IsKeeping(f, s, keep, n) }
<1>1. 0 \in S
  <2>1. IsKeeping([i \in 0..0 |-> <<>>], s, keep, 0)
    BY DEF IsKeeping, KeepTurn
  <2>. QED  BY <2>1
<1>2. ASSUME NEW n \in Nat, n \in S  PROVE n + 1 \in S
  <2>1. PICK g : IsKeeping(g, s, keep, n)
    BY <1>2
  <2>2. \A i \in 0..n : g[i] = KeepTurn(g, s, keep, i)
    BY <2>1 DEF IsKeeping
  <2>. DEFINE f == [i \in 0..(n + 1) |-> IF i = n + 1 THEN KeepTurn(g, s, keep, i) ELSE g[i]]
  <2>3. ASSUME NEW i \in 0..(n + 1)  PROVE f[i] = KeepTurn(f, s, keep, i)
    <3>1. i # 0 => f[i - 1] = g[i - 1]
      OBVIOUS
    <3>2. f[i] = KeepTurn(g, s, keep, i)
      BY <2>2
    <3>. QED  BY <3>1, <3>2 DEF KeepTurn
  <2>4. f = [i \in 0..(n + 1) |-> KeepTurn(f, s, keep, i)]
    BY <2>3
  <2>5. IsKeeping(f, s, keep, n + 1)
    BY <2>4 DEF IsKeeping
  <2>. HIDE DEF f
  <2>. QED  BY <2>5
<1>. HIDE DEF S
<1>3. \A n \in Nat : n \in S
  BY <1>1, <1>2, Induction
<1>. QED  BY <1>3 DEF S

(* t holds the elements of s at the positions in keep up to n, no others.  *)
Holds(t, s, keep, n) ==
    /\ \A j \in 1..Len(t) : \E i \in keep : i <= n /\ t[j] = s[i]
    /\ \A i \in keep : i <= n => \E j \in 1..Len(t) : t[j] = s[i]

LEMMA KeepingHolds ==
  ASSUME NEW V, NEW s \in Seq(V), NEW keep \in SUBSET (1..Len(s)),
         NEW f, IsKeeping(f, s, keep, Len(s)), NEW n \in 0..Len(s)
  PROVE  f[n] \in Seq(V) /\ Holds(f[n], s, keep, n)
<1>. DEFINE S == { k \in Nat : k <= Len(s) => f[k] \in Seq(V) /\ Holds(f[k], s, keep, k) }
<1>0. Len(s) \in Nat /\ keep \subseteq Nat /\ 0 \notin keep
  OBVIOUS
<1>1. 0 \in S
  <2>1. f[0] = <<>>
    BY <1>0 DEF IsKeeping, KeepTurn
  <2>2. <<>> \in Seq(V) /\ \A i \in keep : ~(i <= 0)
    BY <1>0
  <2>3. Len(<<>>) = 0 /\ 1..0 = {}
    OBVIOUS
  <2>4. Holds(<<>>, s, keep, 0)
    BY <2>2, <2>3 DEF Holds
  <2>. QED  BY <2>1, <2>2, <2>4
<1>2. ASSUME NEW k \in Nat, k \in S  PROVE k + 1 \in S
  <2>. SUFFICES ASSUME k + 1 <= Len(s)
               PROVE  f[k + 1] \in Seq(V) /\ Holds(f[k + 1], s, keep, k + 1)
    OBVIOUS
  <2>. DEFINE t == f[k]
              x == s[k + 1]
  <2>1. t \in Seq(V) /\ Holds(t, s, keep, k) /\ x \in V
    BY <1>0, <1>2
  <2>2. f[k + 1] = IF k + 1 \in keep THEN Append(t, x) ELSE t
    <3>1. k + 1 \in 0..Len(s) /\ k + 1 # 0 /\ (k + 1) - 1 = k
      BY <1>0
    <3>2. f[k + 1] = KeepTurn(f, s, keep, k + 1)
      BY <3>1 DEF IsKeeping
    <3>. QED  BY <3>1, <3>2 DEF KeepTurn
  <2>3. \A i \in keep : i <= k + 1 <=> i <= k \/ i = k + 1
    BY <1>0
  <2>. HIDE DEF t, x
  <2>4. CASE k + 1 \in keep
    <3>. DEFINE u == Append(t, x)
    <3>1. /\ u \in Seq(V) /\ Len(t) \in Nat /\ Len(u) = Len(t) + 1
          /\ \A j \in 1..Len(t) : u[j] = t[j]
          /\ u[Len(t) + 1] = x
      BY <2>1
    <3>. HIDE DEF u
    <3>2. ASSUME NEW j \in 1..Len(u)  PROVE \E i \in keep : i <= k + 1 /\ u[j] = s[i]
      <4>1. CASE j = Len(t) + 1
        <5>1. u[j] = s[k + 1] /\ k + 1 <= k + 1
          BY <3>1, <4>1 DEF x
        <5>. QED  BY <5>1, <2>4
      <4>2. CASE j # Len(t) + 1
        <5>1. j \in 1..Len(t) /\ u[j] = t[j]
          BY <3>1, <4>2
        <5>2. PICK i \in keep : i <= k /\ t[j] = s[i]
          BY <5>1, <2>1 DEF Holds
        <5>. QED  BY <5>1, <5>2, <2>3
      <4>. QED  BY <4>1, <4>2
    <3>3. ASSUME NEW i \in keep, i <= k + 1  PROVE \E j \in 1..Len(u) : u[j] = s[i]
      <4>1. CASE i = k + 1
        <5>1. Len(t) + 1 \in 1..Len(u) /\ u[Len(t) + 1] = s[i]
          BY <3>1, <4>1 DEF x
        <5>. QED  BY <5>1
      <4>2. CASE i <= k
        <5>1. PICK j \in 1..Len(t) : t[j] = s[i]
          BY <4>2, <2>1 DEF Holds
        <5>2. j \in 1..Len(u) /\ u[j] = s[i]
          BY <3>1, <5>1
        <5>. QED  BY <5>2
      <4>. QED  BY <3>3, <2>3, <4>1, <4>2
    <3>4. Holds(u, s, keep, k + 1)
      BY <3>2, <3>3 DEF Holds
    <3>. QED  BY <2>2, <2>4, <3>1, <3>4 DEF u
  <2>5. CASE k + 1 \notin keep
    <3>1. \A i \in keep : i <= k + 1 <=> i <= k
      BY <2>3, <2>5
    <3>2. Holds(t, s, keep, k + 1)
      BY <2>1, <3>1 DEF Holds
    <3>. QED  BY <2>1, <2>2, <2>5, <3>2
  <2>. QED  BY <2>4, <2>5
<1>. HIDE DEF S
<1>3. n \in Nat /\ n \in S
  BY <1>0, <1>1, <1>2, Induction
<1>. QED  BY <1>3 DEF S

(* What is kept is what was to be kept.                                    *)
LEMMA KeptHolds ==
  ASSUME NEW V, NEW s \in Seq(V), NEW keep \in SUBSET (1..Len(s))
  PROVE  /\ Kept(s, keep) \in Seq(V)
         /\ \A j \in 1..Len(Kept(s, keep)) : \E i \in keep : Kept(s, keep)[j] = s[i]
         /\ \A i \in keep : \E j \in 1..Len(Kept(s, keep)) : Kept(s, keep)[j] = s[i]
         /\ Kept(s, keep) = <<>> <=> keep = {}
<1>. DEFINE n   == Len(s)
            out == CHOOSE f : IsKeeping(f, s, keep, n)
<1>0. n \in Nat /\ n \in 0..n /\ \A i \in keep : i <= n
  OBVIOUS
<1>1. IsKeeping(out, s, keep, n)
  BY <1>0, KeepingExists
<1>2. out[n] \in Seq(V) /\ Holds(out[n], s, keep, n)
  BY <1>0, <1>1, KeepingHolds
<1>3. Kept(s, keep) = out[n]
  BY DEF Kept, IsKeeping, KeepTurn
<1>. HIDE DEF out
<1>4. /\ \A j \in 1..Len(out[n]) : \E i \in keep : out[n][j] = s[i]
      /\ \A i \in keep : \E j \in 1..Len(out[n]) : out[n][j] = s[i]
  BY <1>0, <1>2 DEF Holds
<1>5. out[n] = <<>> <=> keep = {}
  <2>1. CASE out[n] = <<>>
    BY <1>4, <2>1
  <2>2. CASE out[n] # <<>>
    <3>1. 1 \in 1..Len(out[n])
      BY <1>2, <2>2
    <3>. QED  BY <1>4, <2>2, <3>1
  <2>. QED  BY <2>1, <2>2
<1>. QED  BY <1>2, <1>3, <1>4, <1>5

-----------------------------------------------------------------------------
(* The specification.                                                      *)

VerdictInv == results \in Seq(PredicateResults)

(* Only AddResult touches the list.                                        *)
LEMMA ResultsGrow ==
  ASSUME [Next]_vars
  PROVE  \/ results' = results
         \/ \E r \in PredicateResults : results' = Append(results, r)
BY DEF Next, vars, AddResult, AddRule, DecidePublished, DecideFromFile, Decide, DryRun

LEMMA VerdictInvariance == Spec => []VerdictInv
<1>1. Init => VerdictInv
  BY DEF Init, VerdictInv
<1>2. VerdictInv /\ [Next]_vars => VerdictInv'
  BY ResultsGrow DEF VerdictInv
<1>. QED  BY <1>1, <1>2, PTL DEF Spec

(* The policy is a list of drafts: documents, each with an id.             *)
Ids       == {"r1", "r2", "r3", ""}
Copies(d) == { WithId(d, id) : id \in Ids }
Drafts    == UNION { Copies(d) : d \in Documents }

DraftInv == rules \in Seq(Drafts)

LEMMA Appended ==
  ASSUME NEW S, NEW s \in Seq(S), NEW x \in S
  PROVE  Append(s, x) \in Seq(S)
OBVIOUS

LEMMA DraftInvariance == Spec => []DraftInv
<1>1. Init => DraftInv
  BY DEF Init, DraftInv
<1>2. DraftInv /\ [Next]_vars => DraftInv'
  <2>. SUFFICES ASSUME DraftInv, [Next]_vars  PROVE DraftInv'
    OBVIOUS
  <2>1. CASE rules' = rules
    BY <2>1 DEF DraftInv
  <2>2. CASE AddRule
    <3>1. PICK d \in Documents, id \in Ids : rules' = Append(rules, WithId(d, id))
      BY <2>2 DEF AddRule, Ids
    <3>2. WithId(d, id) \in Drafts
      <4>1. WithId(d, id) \in Copies(d)
        BY Zenon DEF Copies
      <4>2. Copies(d) \in { Copies(e) : e \in Documents }
        BY Zenon
      <4>. QED  BY <4>1, <4>2, Zenon DEF Drafts
    <3>3. Append(rules, WithId(d, id)) \in Seq(Drafts)
      BY <3>2, Appended, Zenon DEF DraftInv
    <3>. QED  BY <3>1, <3>3 DEF DraftInv
  <2>. QED  BY <2>1, <2>2 DEF Next, vars, AddResult, DecidePublished, DecideFromFile, Decide, DryRun
<1>. QED  BY <1>1, <1>2, PTL DEF Spec

(* Combine ("order-independent"): for lists of every length, the loop with *)
(* its early return computes the precedence deny > review > approve.       *)
THEOREM CombineIsPrecedence == Spec => []LoopIsPrecedence
<1>1. VerdictInv => LoopIsPrecedence
  BY LoopOfResults DEF VerdictInv, LoopIsPrecedence
<1>. QED  BY <1>1, VerdictInvariance, PTL

(* No approval without at least one result, nor over a result that did not *)
(* complete, but for an opt-in to fail open - whatever the list.           *)
THEOREM ApprovalsAreEarned == Spec => []NoFabricatedApprove
<1>1. VerdictInv => NoFabricatedApprove
  <2>. SUFFICES ASSUME VerdictInv, CombineLoop(results) = "APPROVE"
               PROVE  /\ results # <<>>
                      /\ \A i \in 1..Len(results) :
                            \/ results[i].outcome = "SATISFIED"
                            \/ results[i].outcome = "UNAVAILABLE" /\ results[i].failMode = "FAIL_OPEN"
    BY DEF NoFabricatedApprove
  <2>1. Combine(results) = "APPROVE"
    BY LoopOfResults DEF VerdictInv
  <2>2. results # <<>> /\ ~Some(results, "DENIED") /\ ~Some(results, "REVIEW")
    BY <2>1 DEF Combine
  <2>3. ASSUME NEW i \in 1..Len(results)
        PROVE  EffectiveOutcome(results[i]) = "SATISFIED" /\ results[i] \in PredicateResults
    <3>1. results[i] \in PredicateResults
      BY DEF VerdictInv
    <3>. QED  BY <2>2, <3>1, OutcomeType DEF Some, Effective
  <2>4. ASSUME NEW r \in PredicateResults, EffectiveOutcome(r) = "SATISFIED"
        PROVE  \/ r.outcome = "SATISFIED"
               \/ r.outcome = "UNAVAILABLE" /\ r.failMode = "FAIL_OPEN"
    <3>1. CASE r.outcome # "UNAVAILABLE"
      BY <2>4, <3>1, Zenon DEF EffectiveOutcome
    <3>2. CASE r.outcome = "UNAVAILABLE" /\ r.failMode = "FAIL_CLOSED_DENY"
      <4>1. EffectiveOutcome(r) = "DENIED"
        BY <3>2, Zenon DEF EffectiveOutcome
      <4>. QED  BY <2>4, <4>1
    <3>3. CASE r.outcome = "UNAVAILABLE" /\ r.failMode \notin {"FAIL_CLOSED_DENY", "FAIL_OPEN"}
      <4>1. EffectiveOutcome(r) = "REVIEW"
        BY <3>3, Zenon DEF EffectiveOutcome
      <4>. QED  BY <2>4, <4>1
    <3>. QED  BY <3>1, <3>2, <3>3
  <2>. QED  BY <2>2, <2>3, <2>4
<1>. QED  BY <1>1, VerdictInvariance, PTL

(* What Authorize relies on when it folds the budget in last: appending a  *)
(* result to a list, however long, never makes its verdict more            *)
(* permissive.                                                             *)
THEOREM ResultsOnlyTighten == Spec => NeverMorePermissive
<1>1. VerdictInv /\ VerdictInv' /\ [Next]_vars =>
         [results # <<>> => Strictness[CombineLoop(results')] >= Strictness[CombineLoop(results)]]_results
  <2>. SUFFICES ASSUME VerdictInv, VerdictInv', results # <<>>,
                      NEW r \in PredicateResults, results' = Append(results, r)
               PROVE  Strictness[CombineLoop(results')] >= Strictness[CombineLoop(results)]
    BY ResultsGrow
  <2>1. CombineLoop(results) = Combine(results) /\ CombineLoop(results') = Combine(results')
    BY LoopOfResults DEF VerdictInv
  <2>2. Strictness["APPROVE"] = 0 /\ Strictness["REVIEW"] = 1 /\ Strictness["DENY"] = 2
    BY DEF Strictness, Verdicts
  <2>3. \A o : Some(results, o) => Some(results', o)
    BY SomeAppend DEF VerdictInv
  <2>4. CASE Some(results, "DENIED")
    <3>1. Combine(results) = "DENY" /\ Combine(results') = "DENY"
      BY <2>3, <2>4 DEF Combine
    <3>. QED  BY <2>1, <2>2, <3>1
  <2>5. CASE ~Some(results, "DENIED") /\ Some(results, "REVIEW")
    <3>1. Combine(results) = "REVIEW" /\ Combine(results') \in {"REVIEW", "DENY"}
      BY <2>3, <2>5 DEF Combine
    <3>. QED  BY <2>1, <2>2, <3>1
  <2>6. CASE ~Some(results, "DENIED") /\ ~Some(results, "REVIEW")
    <3>1. Combine(results) = "APPROVE" /\ Combine(results') \in {"APPROVE", "REVIEW", "DENY"}
      BY <2>6 DEF Combine
    <3>. QED  BY <2>1, <2>2, <3>1
  <2>. QED  BY <2>4, <2>5, <2>6
<1>. QED  BY <1>1, VerdictInvariance, PTL DEF Spec, NeverMorePermissive

-----------------------------------------------------------------------------
(* Single documents.                                                       *)

(* The schema's rules for the fields that the loader looks at again.       *)
LEMMA IdWellFormed ==
  ASSUME NEW v, WellFormed("id", v)
  PROVE  v # ""
BY DEF WellFormed, ListFields

LEMMA MaxWellFormed ==
  ASSUME NEW v, WellFormed("max", v)
  PROVE  v \in Canonical
BY DEF WellFormed, ListFields

LEMMA MinuteWellFormed ==
  ASSUME NEW v, WellFormed("start_minute", v) \/ WellFormed("end_minute", v)
  PROVE  v \in 0..1439
<1>1. CASE WellFormed("start_minute", v)
  BY <1>1 DEF WellFormed, ListFields
<1>2. CASE WellFormed("end_minute", v)
  BY <1>2 DEF WellFormed, ListFields
<1>. QED  BY <1>1, <1>2

LEMMA WeekdaysWellFormed ==
  ASSUME NEW v, WellFormed("weekdays", v)
  PROVE  v \subseteq 0..6
BY DEF WellFormed, ListFields

LEMMA LocalFields ==
  ASSUME NEW t \in LocalTypes
  PROVE  /\ {"id", "type"} \subseteq Required[t]
         /\ Required[t] \cup Optional[t] \subseteq PredicateDocFields
         /\ t = "per_transaction_limit" => "max" \in Required[t]
         /\ t = "vendor_allowlist" => "vendors" \in Required[t]
         /\ t = "time_window" => {"start_minute", "end_minute"} \subseteq Required[t]
         /\ t = "jurisdiction_currency" => "allowed" \in Required[t]
BY DEF LocalTypes, Required, Optional, PredicateDocFields, ListFields

(* What rulesToWire leaves of a rule: a list that is written is not empty. *)
LEMMA WireLists ==
  ASSUME NEW r, NEW f \in ListFields, f \in DOMAIN Wire(r)
  PROVE  Wire(r)[f] # {}
BY DEF Wire

(* A rule that passes the schema.                                          *)
Admitted(r) == InSchema(Wire(r)) /\ Wire(r).type \in LocalTypes

(* What the schema admits, the loader knows all fields of, and can build.  *)
LEMMA AdmittedIsBuildable ==
  ASSUME NEW r, Admitted(r)
  PROVE  /\ DOMAIN Wire(r) \subseteq PredicateDocFields
         /\ Wire(r).id # ""
         /\ Buildable(Wire(r))
<1>. DEFINE w == Wire(r)
            t == w.type
<1>1. /\ t \in LocalTypes /\ Required[t] \subseteq DOMAIN w
      /\ DOMAIN w \subseteq Required[t] \cup Optional[t]
      /\ \A f \in DOMAIN w : WellFormed(f, w[f])
  BY DEF Admitted, InSchema
<1>2. DOMAIN w \subseteq PredicateDocFields /\ {"id", "type"} \subseteq DOMAIN w
  BY <1>1, LocalFields
<1>3. w.id # ""
  BY <1>1, <1>2, IdWellFormed
<1>4. Buildable(w)
  <2>1. CASE t = "per_transaction_limit"
    <3>1. "max" \in DOMAIN w
      BY <1>1, <2>1, LocalFields
    <3>2. w["max"] \in Canonical
      BY <1>1, <3>1, MaxWellFormed
    <3>3. Field(w, "max", "") # ""
      BY <3>1, <3>2 DEF Field, Canonical
    <3>. QED  BY <2>1, <3>3 DEF Buildable
  <2>2. CASE t = "vendor_allowlist"
    <3>1. "vendors" \in DOMAIN w /\ w.vendors # {}
      BY <1>1, <2>2, LocalFields DEF Admitted, InSchema
    <3>2. Field(w, "vendors", {}) # {}
      BY <3>1 DEF Field
    <3>. QED  BY <2>2, <3>2 DEF Buildable
  <2>3. CASE t = "vendor_blocklist"
    BY <2>3 DEF Buildable
  <2>4. CASE t = "agent_permission"
    <3>1. PICK f \in {"allowed_actions", "allowed_targets"} : f \in DOMAIN w
      BY <2>4 DEF Admitted, InSchema
    <3>2. w[f] # {}
      BY <3>1, WireLists DEF ListFields
    <3>3. Field(w, f, {}) # {}
      BY <3>1, <3>2 DEF Field
    <3>4. Field(w, "allowed_actions", {}) \cup Field(w, "allowed_targets", {}) # {}
      BY <3>3
    <3>. QED  BY <2>4, <3>4 DEF Buildable
  <2>5. CASE t = "time_window"
    <3>1. {"start_minute", "end_minute"} \subseteq DOMAIN w
      BY <1>1, <2>5, LocalFields
    <3>2. w.start_minute \in 0..1439 /\ w.end_minute \in 0..1439
      BY <1>1, <3>1, MinuteWellFormed
    <3>3. Field(w, "weekdays", {}) \subseteq 0..6
      BY <1>1, WeekdaysWellFormed DEF Field
    <3>. QED  BY <2>5, <3>1, <3>2, <3>3 DEF Buildable
  <2>6. CASE t = "jurisdiction_currency"
    <3>1. "allowed" \in DOMAIN w /\ DOMAIN w.allowed # {}
      BY <1>1, <2>6, LocalFields DEF Admitted, InSchema
    <3>. QED  BY <2>6, <3>1 DEF Buildable
  <2>. QED  BY <1>1, <2>1, <2>2, <2>3, <2>4, <2>5, <2>6 DEF LocalTypes
<1>. QED  BY <1>2, <1>3, <1>4

(* Validate ("can never be one the decision node rejects at load"): every  *)
(* list of distinct local rules that the schema admits, whatever their     *)
(* fields hold, is one that the loader's own tables accept.  This is so    *)
(* only because omitempty drops empty lists before either looks: the       *)
(* schema alone admits an agent_permission of an empty list.               *)
THEOREM AdmittedIsLoadable ==
  ASSUME NEW docs,
         \A i \in DOMAIN docs : \E r : Admitted(r) /\ docs[i] = Wire(r),
         \A i, j \in DOMAIN docs : docs[i].id = docs[j].id => i = j
  PROVE  Parse(docs).ok
<1>1. ASSUME NEW i \in DOMAIN docs
      PROVE  /\ DOMAIN docs[i] \subseteq PredicateDocFields
             /\ docs[i].id # ""
             /\ Buildable(docs[i])
  <2>1. PICK r : Admitted(r) /\ docs[i] = Wire(r)
    OBVIOUS
  <2>. QED  BY <2>1, AdmittedIsBuildable
<1>. QED  BY <1>1 DEF Parse

-----------------------------------------------------------------------------
(* Published policies.                                                     *)

LocalAt(rs)  == { i \in DOMAIN rs : rs[i].type \in LocalTypes }
BudgetAt(rs) == { i \in DOMAIN rs : rs[i].type = "rolling_budget" }

(* A rule that the schema admits keeps its id and type on the wire, and    *)
(* every string that is not empty.                                         *)
LEMMA WireKeeps ==
  ASSUME NEW r, InSchema(Wire(r))
  PROVE  /\ {"id", "type"} \subseteq DOMAIN r
         /\ Wire(r).id = r.id /\ Wire(r).type = r.type /\ r.id # ""
         /\ r.type \in LocalTypes \cup EnrichedTypes
<1>. DEFINE w == Wire(r)
<1>1. w.type \in LocalTypes \cup EnrichedTypes /\ Required[w.type] \subseteq DOMAIN w
      /\ \A f \in DOMAIN w : WellFormed(f, w[f])
  BY DEF InSchema
<1>2. \A t \in LocalTypes \cup EnrichedTypes : {"id", "type"} \subseteq Required[t]
  BY DEF Required
<1>3. {"id", "type"} \subseteq DOMAIN w
  BY <1>1, <1>2
<1>4. DOMAIN w \subseteq DOMAIN r /\ \A f \in DOMAIN w : w[f] = r[f]
  BY DEF Wire
<1>5. w.id # ""
  BY <1>1, <1>3, IdWellFormed
<1>. HIDE DEF w
<1>. QED  BY <1>1, <1>3, <1>4, <1>5 DEF w

(* What Validate passes, Compile splits in two: the local rules, which     *)
(* are the ones the parity check has loaded, and the budgets.              *)
LEMMA CompiledParts ==
  ASSUME NEW S, NEW rs \in Seq(S), Validate(rs)
  PROVE  /\ CompileRules(rs).ok
         /\ Parse(WireAll(Kept(rs, LocalAt(rs)))).ok
         /\ CompileRules(rs).predicates =
               [i \in DOMAIN Kept(rs, LocalAt(rs)) |-> Build(Wire(Kept(rs, LocalAt(rs))[i]))]
         /\ CompileRules(rs).budgets =
               [i \in DOMAIN Kept(rs, BudgetAt(rs)) |-> BudgetDecl(Kept(rs, BudgetAt(rs))[i])]
<1>1. \A i \in DOMAIN rs : rs[i].type \in LocalTypes \cup EnrichedTypes
  BY WireKeeps DEF Validate
<1>. DEFINE dropped == { i \in DOMAIN rs : rs[i].type \in DroppedTypes }
<1>2. DOMAIN rs \ (BudgetAt(rs) \cup dropped) = LocalAt(rs)
  BY <1>1 DEF LocalAt, BudgetAt, LocalTypes, EnrichedTypes, DroppedTypes
<1>3. Parse(WireAll(Kept(rs, LocalAt(rs)))).ok
  BY DEF Validate, CheckEngineParity, LocalAt
<1>. DEFINE docs   == WireAll(Kept(rs, LocalAt(rs)))
            loaded == Parse(docs)
            bs     == Kept(rs, BudgetAt(rs))
            decls  == [i \in DOMAIN bs |-> BudgetDecl(bs[i])]
<1>4. CompileRules(rs) =
        [ok |-> loaded.ok, predicates |-> loaded.predicates, budgets |-> decls]
  BY <1>2, Zenon DEF CompileRules, BudgetAt
<1>5. loaded.predicates = [i \in DOMAIN docs |-> Build(docs[i])]
  BY DEF Parse
<1>6. DOMAIN docs = DOMAIN Kept(rs, LocalAt(rs))
      /\ \A i \in DOMAIN docs : docs[i] = Wire(Kept(rs, LocalAt(rs))[i])
  BY DEF WireAll
<1>7. loaded.predicates =
        [i \in DOMAIN Kept(rs, LocalAt(rs)) |-> Build(Wire(Kept(rs, LocalAt(rs))[i]))]
  BY <1>5, <1>6
<1>. HIDE DEF loaded, decls
<1>8. /\ CompileRules(rs).ok = loaded.ok /\ CompileRules(rs).predicates = loaded.predicates
      /\ CompileRules(rs).budgets = decls
  BY <1>4
<1>9. loaded.ok
  BY <1>3 DEF loaded
<1>. QED  BY <1>3, <1>7, <1>8, <1>9 DEF decls

(* Validate ("a policy that validates here can never be one the decision   *)
(* node rejects at load"): any policy at all that may be published         *)
(* compiles, is served in full but for the placeholders, and every max in  *)
(* it can be read by the predicate it is for.  A budget's limit need not   *)
(* be readable to the reserver, whose toCents wants whole cents; what that *)
(* comes to is HoldsFit.                                                   *)
THEOREM ValidIsServable ==
  ASSUME NEW S, NEW rs \in Seq(S), Validate(rs)
  PROVE  Servable(rs)
<1>. DEFINE pol  == CompileRules(rs)
            ps   == Kept(rs, LocalAt(rs))
            bs   == Kept(rs, BudgetAt(rs))
            kept == { j \in DOMAIN rs : rs[j].type \notin {"sanctions_screen", "vendor_risk"} }
            served == { pol.predicates[i].id : i \in DOMAIN pol.predicates }
                         \cup { pol.budgets[i].id : i \in DOMAIN pol.budgets }
<1>0. DOMAIN rs = 1..Len(rs)
  OBVIOUS
<1>1. \A i \in DOMAIN rs : InSchema(Wire(rs[i]))
  BY DEF Validate
<1>2. kept = LocalAt(rs) \cup BudgetAt(rs)
  BY <1>1, WireKeeps DEF LocalAt, BudgetAt, LocalTypes, EnrichedTypes
<1>3. /\ ps \in Seq(S) /\ bs \in Seq(S)
      /\ \A j \in 1..Len(ps) : \E i \in LocalAt(rs) : ps[j] = rs[i]
      /\ \A i \in LocalAt(rs) : \E j \in 1..Len(ps) : ps[j] = rs[i]
      /\ \A j \in 1..Len(bs) : \E i \in BudgetAt(rs) : bs[j] = rs[i]
      /\ \A i \in BudgetAt(rs) : \E j \in 1..Len(bs) : bs[j] = rs[i]
  <2>1. LocalAt(rs) \in SUBSET (1..Len(rs)) /\ BudgetAt(rs) \in SUBSET (1..Len(rs))
    BY <1>0 DEF LocalAt, BudgetAt
  <2>2. /\ ps \in Seq(S)
        /\ \A j \in 1..Len(ps) : \E i \in LocalAt(rs) : ps[j] = rs[i]
        /\ \A i \in LocalAt(rs) : \E j \in 1..Len(ps) : ps[j] = rs[i]
    BY <2>1, KeptHolds
  <2>3. /\ bs \in Seq(S)
        /\ \A j \in 1..Len(bs) : \E i \in BudgetAt(rs) : bs[j] = rs[i]
        /\ \A i \in BudgetAt(rs) : \E j \in 1..Len(bs) : bs[j] = rs[i]
    BY <2>1, KeptHolds
  <2>. QED  BY <2>2, <2>3
<1>. HIDE DEF ps, bs
<1>4. DOMAIN ps = 1..Len(ps) /\ DOMAIN bs = 1..Len(bs)
  BY <1>3
<1>5. /\ DOMAIN pol.predicates = DOMAIN ps
      /\ \A j \in DOMAIN ps : pol.predicates[j] = Build(Wire(ps[j]))
  BY CompiledParts DEF ps
<1>6. /\ DOMAIN pol.budgets = DOMAIN bs
      /\ \A j \in DOMAIN bs : pol.budgets[j].id = bs[j].id
  <2>1. DOMAIN pol.budgets = DOMAIN bs /\ \A j \in DOMAIN bs : pol.budgets[j] = BudgetDecl(bs[j])
    BY CompiledParts DEF bs
  <2>2. \A r : BudgetDecl(r).id = r.id
    BY DEF BudgetDecl
  <2>. QED  BY <2>1, <2>2
<1>7. \A j \in DOMAIN ps : pol.predicates[j].id = ps[j].id
  <2>. SUFFICES ASSUME NEW j \in DOMAIN ps  PROVE Build(Wire(ps[j])).id = ps[j].id
    BY <1>5
  <2>1. PICK i \in LocalAt(rs) : ps[j] = rs[i]
    BY <1>3, <1>4
  <2>2. Wire(ps[j]).id = ps[j].id
    BY <2>1, <1>1, WireKeeps DEF LocalAt
  <2>. QED  BY <2>2 DEF Build
<1>8. served = { rs[i].id : i \in kept }
  <2>. HIDE DEF pol
  <2>1. ASSUME NEW x \in served  PROVE \E i \in kept : x = rs[i].id
    <3>1. CASE \E j \in DOMAIN ps : x = ps[j].id
      BY <3>1, <1>2, <1>3, <1>4
    <3>2. CASE \E j \in DOMAIN bs : x = bs[j].id
      BY <3>2, <1>2, <1>3, <1>4
    <3>. QED  BY <2>1, <3>1, <3>2, <1>5, <1>6, <1>7
  <2>2. ASSUME NEW i \in kept  PROVE rs[i].id \in served
    <3>1. CASE i \in LocalAt(rs)
      <4>1. PICK j \in DOMAIN ps : ps[j] = rs[i]
        BY <3>1, <1>3, <1>4
      <4>. QED  BY <4>1, <1>5, <1>7
    <3>2. CASE i \in BudgetAt(rs)
      <4>1. PICK j \in DOMAIN bs : bs[j] = rs[i]
        BY <3>2, <1>3, <1>4
      <4>. QED  BY <4>1, <1>6
    <3>. QED  BY <1>2, <3>1, <3>2
  <2>. HIDE DEF served, kept
  <2>. QED  BY <2>1, <2>2
<1>9. ASSUME NEW i \in DOMAIN rs, Field(rs[i], "max", "") # ""
      PROVE  ParseMoney(rs[i].max) # {}
  <2>1. "max" \in DOMAIN rs[i] /\ rs[i]["max"] # ""
    BY <1>9 DEF Field
  <2>2. "max" \in DOMAIN Wire(rs[i]) /\ Wire(rs[i])["max"] = rs[i]["max"]
    BY <2>1 DEF Wire, ListFields, StringFields
  <2>3. WellFormed("max", rs[i]["max"])
    BY <1>1, <2>2 DEF InSchema
  <2>4. rs[i].max \in Canonical
    BY <2>3, MaxWellFormed
  <2>5. Canonical \subseteq DOMAIN MoneyValue
    BY DEF MoneyValue
  <2>. QED  BY <2>4, <2>5 DEF ParseMoney
<1>10. pol.ok
  BY CompiledParts
<1>. QED  BY <1>8, <1>9, <1>10 DEF Servable

(* The run's property, on the specification.                               *)
THEOREM PublishedServes == Spec => []PublishedIsServable
<1>1. Spec => []DraftInv
  BY DraftInvariance
<1>2. DraftInv => PublishedIsServable
  BY ValidIsServable DEF DraftInv, PublishedIsServable
<1>. QED  BY <1>1, <1>2, PTL

-----------------------------------------------------------------------------
(* Single predicates.                                                      *)

(* The minutes of a day, as a clock shows them. *)
Minutes == 0..1439

(* The three comparisons of the time window are one on the clock's circle. *)
OnTheCircle(m, s, e) ==
    (e - s) % 1440 = 0 \/ (m - s) % 1440 < (e - s) % 1440

LEMMA WindowIsCircular ==
  ASSUME NEW m \in Minutes, NEW s \in Minutes, NEW e \in Minutes
  PROVE  WithinWindow(m, s, e) <=> OnTheCircle(m, s, e)
<1>. USE DEF Minutes
<1>. DEFINE x == (e - s) % 1440
            y == (m - s) % 1440
<1>1. x = IF e >= s THEN e - s ELSE e - s + 1440
  OBVIOUS
<1>2. y = IF m >= s THEN m - s ELSE m - s + 1440
  OBVIOUS
<1>. HIDE DEF x, y
<1>3. WithinWindow(m, s, e) <=> x = 0 \/ y < x
  BY <1>1, <1>2 DEF WithinWindow
<1>. QED  BY <1>3 DEF x, y, OnTheCircle

(* What the loader can build is of a local type.                           *)
LEMMA BuildableIsLocal ==
  ASSUME NEW d, Buildable(d)
  PROVE  d.type \in LocalTypes
BY DEF Buildable, LocalTypes

(* A predicate is satisfied by exactly the requests its document permits,  *)
(* for every document that the loader can build, with a schema or without, *)
(* and it always completes.                                                *)
LEMMA PredicateFollowsDocument ==
  ASSUME NEW w, Buildable(w), NEW req, BuildInput(req).time.minute \in Minutes
  PROVE  /\ Evaluate(Build(w), BuildInput(req)) \in Effective
         /\ Evaluate(Build(w), BuildInput(req)) = "SATISFIED" <=> Permits(w, req)
<1>. DEFINE t  == w.type
            in == BuildInput(req)
            p  == Build(w)
<1>1. t \in LocalTypes
  BY BuildableIsLocal
<1>2. p.type = t /\ p.doc = w
  BY DEF Build
<1>3. /\ in.agent = req.agent /\ in.action = req.action /\ in.currency = req.currency
      /\ in.targetType = req.targetType /\ in.target = req.target
      /\ in.jurisdiction = req.jurisdiction /\ in.amount = ParseMoney(req.amount)
  BY DEF BuildInput
<1>. SUFFICES Evaluate(p, in) \in Effective /\ (Evaluate(p, in) = "SATISFIED" <=> Permits(w, req))
  OBVIOUS
<1>. HIDE DEF in, p
<1>. USE DEF Effective
<1>4. CASE t = "per_transaction_limit"
  <2>1. Evaluate(p, in) = PerTransactionLimit(w, in)
    BY <1>2, <1>4 DEF Evaluate
  <2>2. Permits(w, req) <=>
          /\ Field(w, "currency", "") \in {"", req.currency}
          /\ \E m \in ParseMoney(w.max), a \in ParseMoney(req.amount) : a <= m
    BY <1>4 DEF Permits
  <2>3. ASSUME NEW x
        PROVE  ParseMoney(x) = {} \/ \E y : ParseMoney(x) = {y}
    BY DEF ParseMoney
  <2>4. PerTransactionLimit(w, in) = "SATISFIED" <=>
          /\ ParseMoney(w.max) # {} /\ in.amount # {}
          /\ Field(w, "currency", "") \in {"", in.currency}
          /\ \A a \in in.amount, m \in ParseMoney(w.max) : a <= m
    BY DEF PerTransactionLimit, SatisfiedIf
  <2>. DEFINE M == ParseMoney(w.max)
              A == ParseMoney(req.amount)
  <2>5. (\E m \in M, a \in A : a <= m) <=> M # {} /\ A # {} /\ \A a \in A, m \in M : a <= m
    <3>1. CASE M = {} \/ A = {}
      BY <3>1
    <3>2. CASE M # {} /\ A # {}
      <4>1. PICK y, z : M = {y} /\ A = {z}
        BY <3>2, <2>3
      <4>. HIDE DEF M, A
      <4>. QED  BY <4>1
    <3>. QED  BY <3>1, <3>2
  <2>6. PerTransactionLimit(w, in) \in Effective
    BY DEF PerTransactionLimit, SatisfiedIf
  <2>. QED  BY <1>3, <2>1, <2>2, <2>4, <2>5, <2>6
<1>5. CASE t = "vendor_allowlist"
  <2>1. Evaluate(p, in) = VendorAllowlist(w, in)
    BY <1>2, <1>5 DEF Evaluate
  <2>2. Permits(w, req) <=> (req.targetType = "vendor" => req.target \in w.vendors)
    BY <1>5 DEF Permits
  <2>3. "vendors" \in DOMAIN w
    <3>1. Field(w, "vendors", {}) # {}
      BY <1>5 DEF Buildable
    <3>. QED  BY <3>1 DEF Field
  <2>4. Field(w, "vendors", {}) = w.vendors
    BY <2>3 DEF Field
  <2>5. VendorAllowlist(w, in) = "SATISFIED" <=> (in.targetType = "vendor" => in.target \in w.vendors)
    BY <2>4 DEF VendorAllowlist, SatisfiedIf
  <2>6. VendorAllowlist(w, in) \in Effective
    BY DEF VendorAllowlist, SatisfiedIf
  <2>. QED  BY <1>3, <2>1, <2>2, <2>5, <2>6
<1>6. CASE t = "vendor_blocklist"
  <2>1. Evaluate(p, in) = VendorBlocklist(w, in)
    BY <1>2, <1>6 DEF Evaluate
  <2>2. Permits(w, req) <=> (req.targetType = "vendor" => req.target \notin Field(w, "vendors", {}))
    BY <1>6 DEF Permits
  <2>3. VendorBlocklist(w, in) = "SATISFIED" <=>
          ~ (in.targetType = "vendor" /\ in.target \in Field(w, "vendors", {}))
    BY DEF VendorBlocklist, SatisfiedIf
  <2>6. VendorBlocklist(w, in) \in Effective
    BY DEF VendorBlocklist, SatisfiedIf
  <2>. QED  BY <1>3, <2>1, <2>2, <2>3, <2>6
<1>7. CASE t = "agent_permission"
  <2>1. Evaluate(p, in) = AgentPermission(w, in)
    BY <1>2, <1>7 DEF Evaluate
  <2>2. Permits(w, req) <=> /\ Listed(w, "allowed_actions", req.action)
                            /\ Listed(w, "allowed_targets", req.target)
    BY <1>7 DEF Permits
  <2>3. ASSUME NEW f, NEW v
        PROVE  Listed(w, f, v) <=> Field(w, f, {}) = {} \/ v \in Field(w, f, {})
    BY DEF Listed, Field
  <2>4. AgentPermission(w, in) = "SATISFIED" <=>
          /\ \/ Field(w, "allowed_actions", {}) = {}
             \/ in.action \in Field(w, "allowed_actions", {})
          /\ \/ Field(w, "allowed_targets", {}) = {}
             \/ in.target \in Field(w, "allowed_targets", {})
    BY DEF AgentPermission, SatisfiedIf
  <2>6. AgentPermission(w, in) \in Effective
    BY DEF AgentPermission, SatisfiedIf
  <2>. QED  BY <1>3, <2>1, <2>2, <2>3, <2>4, <2>6
<1>8. CASE t = "time_window"
  <2>1. Evaluate(p, in) = TimeWindow(w, in)
    BY <1>2, <1>8 DEF Evaluate
  <2>2. Permits(w, req) <=>
          /\ Listed(w, "weekdays", in.time.weekday)
          /\ OnTheCircle(in.time.minute, w.start_minute, w.end_minute)
    BY <1>8 DEF Permits, OnTheCircle, in
  <2>3. Listed(w, "weekdays", in.time.weekday) <=>
          Field(w, "weekdays", {}) = {} \/ in.time.weekday \in Field(w, "weekdays", {})
    BY DEF Listed, Field
  <2>4. w.start_minute \in Minutes /\ w.end_minute \in Minutes
    BY <1>8 DEF Buildable, Minutes
  <2>5. in.time.minute \in Minutes
    BY DEF in
  <2>6. WithinWindow(in.time.minute, w.start_minute, w.end_minute) <=>
          OnTheCircle(in.time.minute, w.start_minute, w.end_minute)
    BY <2>4, <2>5, WindowIsCircular
  <2>7. TimeWindow(w, in) = "SATISFIED" <=>
          /\ Field(w, "weekdays", {}) = {} \/ in.time.weekday \in Field(w, "weekdays", {})
          /\ WithinWindow(in.time.minute, w.start_minute, w.end_minute)
    BY DEF TimeWindow, SatisfiedIf
  <2>8. TimeWindow(w, in) \in Effective
    BY DEF TimeWindow, SatisfiedIf
  <2>. QED  BY <2>1, <2>2, <2>3, <2>6, <2>7, <2>8
<1>9. CASE t = "jurisdiction_currency"
  <2>1. Evaluate(p, in) = JurisdictionCurrency(w, in)
    BY <1>2, <1>9 DEF Evaluate
  <2>2. Permits(w, req) <=>
          \A j \in DOMAIN w.allowed \ {""} : j = req.jurisdiction => req.currency \in w.allowed[j]
    BY <1>9 DEF Permits
  <2>3. JurisdictionCurrency(w, in) = "SATISFIED" <=>
          (in.jurisdiction # "" /\ in.jurisdiction \in DOMAIN w.allowed
             => in.currency \in w.allowed[in.jurisdiction])
    BY DEF JurisdictionCurrency, SatisfiedIf
  <2>4. JurisdictionCurrency(w, in) \in Effective
    BY DEF JurisdictionCurrency, SatisfiedIf
  <2>. QED  BY <1>3, <2>1, <2>2, <2>3, <2>4
<1>. QED  BY <1>1, <1>4, <1>5, <1>6, <1>7, <1>8, <1>9 DEF LocalTypes

(* The same for every rule that the schema admits, as it is served.        *)
THEOREM PredicatesFollowDocuments ==
  ASSUME NEW r, Admitted(r), NEW req, BuildInput(req).time.minute \in Minutes
  PROVE  Evaluate(Build(Wire(r)), BuildInput(req)) = "SATISFIED" <=> Permits(Wire(r), req)
BY AdmittedIsBuildable, PredicateFollowsDocument

-----------------------------------------------------------------------------
(* What the wire changes: nothing that is read with its zero value.        *)

LEMMA WireFields ==
  ASSUME NEW r
  PROVE  /\ \A f \in ListFields : Field(Wire(r), f, {}) = Field(r, f, {})
         /\ \A f \in StringFields : Field(Wire(r), f, "") = Field(r, f, "")
         /\ DOMAIN Wire(r) \subseteq DOMAIN r
         /\ \A f \in DOMAIN Wire(r) : Wire(r)[f] = r[f]
<1>1. ASSUME NEW f \in ListFields  PROVE Field(Wire(r), f, {}) = Field(r, f, {})
  <2>1. f \notin StringFields /\ f # "allowed"
    BY DEF ListFields, StringFields
  <2>. QED  BY <2>1 DEF Wire, Field
<1>2. ASSUME NEW f \in StringFields  PROVE Field(Wire(r), f, "") = Field(r, f, "")
  <2>1. f \notin ListFields /\ f # "allowed"
    BY DEF ListFields, StringFields
  <2>. QED  BY <2>1 DEF Wire, Field
<1>3. DOMAIN Wire(r) \subseteq DOMAIN r /\ \A f \in DOMAIN Wire(r) : Wire(r)[f] = r[f]
  BY DEF Wire
<1>. QED  BY <1>1, <1>2, <1>3

(* The document and its wire form build to predicates that judge alike.    *)
LEMMA WireJudgesAlike ==
  ASSUME NEW r, Wire(r).type = r.type, Buildable(Wire(r)), NEW in
  PROVE  Buildable(r) /\ Evaluate(Build(Wire(r)), in) = Evaluate(Build(r), in)
<1>. DEFINE w == Wire(r)
<1>1. /\ \A f \in ListFields : Field(w, f, {}) = Field(r, f, {})
      /\ \A f \in StringFields : Field(w, f, "") = Field(r, f, "")
      /\ DOMAIN w \subseteq DOMAIN r
      /\ \A f \in DOMAIN w : w[f] = r[f]
  BY WireFields
<1>2. w.type = r.type /\ r.type \in LocalTypes /\ Buildable(w)
  BY BuildableIsLocal
<1>. HIDE DEF w
<1>3. Build(w).type = r.type /\ Build(w).doc = w /\ Build(r).type = r.type /\ Build(r).doc = r
  BY <1>2 DEF Build
<1>4. \A f \in {"vendors", "allowed_actions", "allowed_targets", "weekdays"} :
         Field(w, f, {}) = Field(r, f, {})
  BY <1>1 DEF ListFields
<1>5. \A f \in {"max", "currency"} : Field(w, f, "") = Field(r, f, "")
  BY <1>1 DEF StringFields
<1>. SUFFICES Buildable(r) /\ Evaluate(Build(w), in) = Evaluate(Build(r), in)
  BY DEF w
<1>6. CASE r.type = "per_transaction_limit"
  <2>1. Field(w, "max", "") # ""
    BY <1>2, <1>6 DEF Buildable
  <2>2. Field(r, "max", "") # ""
    BY <2>1, <1>5
  <2>3. w.max = r.max
    BY <2>1, <1>1 DEF Field
  <2>4. PerTransactionLimit(w, in) = PerTransactionLimit(r, in)
    BY <2>3, <1>5 DEF PerTransactionLimit
  <2>. QED  BY <1>3, <1>6, <2>2, <2>4 DEF Buildable, Evaluate
<1>7. CASE r.type = "vendor_allowlist"
  <2>1. Buildable(r)
    BY <1>2, <1>4, <1>7 DEF Buildable
  <2>2. VendorAllowlist(w, in) = VendorAllowlist(r, in)
    BY <1>4 DEF VendorAllowlist
  <2>. QED  BY <1>3, <1>7, <2>1, <2>2 DEF Evaluate
<1>8. CASE r.type = "vendor_blocklist"
  <2>1. Buildable(r)
    BY <1>8 DEF Buildable
  <2>2. VendorBlocklist(w, in) = VendorBlocklist(r, in)
    BY <1>4 DEF VendorBlocklist
  <2>. QED  BY <1>3, <1>8, <2>1, <2>2 DEF Evaluate
<1>9. CASE r.type = "agent_permission"
  <2>1. Buildable(r)
    BY <1>2, <1>4, <1>9 DEF Buildable
  <2>2. AgentPermission(w, in) = AgentPermission(r, in)
    BY <1>4 DEF AgentPermission
  <2>. QED  BY <1>3, <1>9, <2>1, <2>2 DEF Evaluate
<1>10. CASE r.type = "time_window"
  <2>1. /\ {"start_minute", "end_minute"} \subseteq DOMAIN w
        /\ w.start_minute \in 0..1439 /\ w.end_minute \in 0..1439
        /\ Field(w, "weekdays", {}) \subseteq 0..6
    BY <1>2, <1>10 DEF Buildable
  <2>2. /\ {"start_minute", "end_minute"} \subseteq DOMAIN r
        /\ w.start_minute = r.start_minute /\ w.end_minute = r.end_minute
    <3>1. "start_minute" \in DOMAIN w /\ "end_minute" \in DOMAIN w
      BY <2>1
    <3>2. "start_minute" \in DOMAIN r /\ "end_minute" \in DOMAIN r
      BY <3>1, <1>1
    <3>3. w["start_minute"] = r["start_minute"] /\ w["end_minute"] = r["end_minute"]
      BY <3>1, <1>1
    <3>. QED  BY <3>2, <3>3
  <2>3. Buildable(r)
    BY <1>4, <1>10, <2>1, <2>2 DEF Buildable
  <2>4. TimeWindow(w, in) = TimeWindow(r, in)
    BY <1>4, <2>2 DEF TimeWindow
  <2>. QED  BY <1>3, <1>10, <2>3, <2>4 DEF Evaluate
<1>11. CASE r.type = "jurisdiction_currency"
  <2>1. "allowed" \in DOMAIN w /\ DOMAIN w.allowed # {}
    BY <1>2, <1>11 DEF Buildable
  <2>2. "allowed" \in DOMAIN r /\ w.allowed = r.allowed
    BY <2>1, <1>1
  <2>3. Buildable(r)
    BY <1>11, <2>1, <2>2 DEF Buildable
  <2>4. JurisdictionCurrency(w, in) = JurisdictionCurrency(r, in)
    BY <2>2 DEF JurisdictionCurrency
  <2>. QED  BY <1>3, <1>11, <2>3, <2>4 DEF Evaluate
<1>. QED  BY <1>2, <1>6, <1>7, <1>8, <1>9, <1>10, <1>11 DEF LocalTypes

-----------------------------------------------------------------------------
(* What a policy in force has of the rules it was made of.                 *)

(* Predicate p is that of rule r: it is named like it, concerns the same   *)
(* agents, and judges the request as the document itself would.            *)
Enforces(p, r, req) ==
    /\ p.id = r.id /\ p.id # ""
    /\ AppliesTo(p, req.agent) <=> Listed(r, "agents", req.agent)
    /\ Evaluate(p, BuildInput(req)) = Evaluate(Build(r), BuildInput(req))
    /\ Evaluate(p, BuildInput(req)) \in Effective
    /\ Evaluate(p, BuildInput(req)) = "SATISFIED" <=> Permits(r, req)

(* Budget b is that of rule r.                                             *)
Budgets(b, r, req) ==
    /\ b.id = r.id /\ b.id # "" /\ b.limit = Field(r, "limit", "")
    /\ AppliesTo(b, req.agent) <=> Listed(r, "agents", req.agent)

(* Every local rule has its predicate and every budget its declaration,    *)
(* and there are no others.                                                *)
Stands(pol, rs, req) ==
    /\ \E V : pol.predicates \in Seq(V)
    /\ \E V : pol.budgets \in Seq(V)
    /\ \A j \in DOMAIN pol.predicates :
          \E i \in LocalAt(rs) : Enforces(pol.predicates[j], rs[i], req)
    /\ \A i \in LocalAt(rs) :
          \E j \in DOMAIN pol.predicates : Enforces(pol.predicates[j], rs[i], req)
    /\ \A j \in DOMAIN pol.budgets :
          \E i \in BudgetAt(rs) : Budgets(pol.budgets[j], rs[i], req)
    /\ \A i \in BudgetAt(rs) :
          \E j \in DOMAIN pol.budgets : Budgets(pol.budgets[j], rs[i], req)

LEMMA ScopeIsListed ==
  ASSUME NEW p, NEW d, p.agents = Field(d, "agents", {}), NEW agent
  PROVE  AppliesTo(p, agent) <=> Listed(d, "agents", agent)
BY DEF AppliesTo, Listed, Field

LEMMA BuiltEnforces ==
  ASSUME NEW d, Buildable(d), d.id # "", NEW req, BuildInput(req).time.minute \in Minutes
  PROVE  Enforces(Build(d), d, req)
<1>1. Build(d).id = d.id /\ Build(d).agents = Field(d, "agents", {})
  BY DEF Build
<1>2. AppliesTo(Build(d), req.agent) <=> Listed(d, "agents", req.agent)
  BY <1>1, ScopeIsListed
<1>. QED  BY <1>1, <1>2, PredicateFollowsDocument DEF Enforces

LEMMA WireEnforces ==
  ASSUME NEW r, InSchema(Wire(r)), r.type \in LocalTypes,
         NEW req, BuildInput(req).time.minute \in Minutes
  PROVE  Enforces(Build(Wire(r)), r, req)
<1>. DEFINE w  == Wire(r)
            in == BuildInput(req)
<1>1. w.type = r.type /\ w.id = r.id /\ r.id # ""
  BY WireKeeps
<1>2. Buildable(w)
  BY <1>1, AdmittedIsBuildable DEF Admitted
<1>3. Buildable(r) /\ Evaluate(Build(w), in) = Evaluate(Build(r), in)
  BY <1>1, <1>2, WireJudgesAlike
<1>4. Enforces(Build(r), r, req)
  BY <1>1, <1>3, BuiltEnforces
<1>5. Field(w, "agents", {}) = Field(r, "agents", {})
  BY WireFields DEF ListFields
<1>6. Build(w).id = w.id /\ Build(w).agents = Field(w, "agents", {})
  BY DEF Build
<1>7. AppliesTo(Build(w), req.agent) <=> Listed(r, "agents", req.agent)
  BY <1>5, <1>6, ScopeIsListed
<1>. HIDE DEF w, in
<1>8. Enforces(Build(w), r, req)
  BY <1>1, <1>3, <1>4, <1>6, <1>7 DEF Enforces, in
<1>. QED  BY <1>8 DEF w

LEMMA DeclBudgets ==
  ASSUME NEW r, r.id # "", NEW req
  PROVE  Budgets(BudgetDecl(r), r, req)
<1>1. /\ BudgetDecl(r).id = r.id /\ BudgetDecl(r).agents = Field(r, "agents", {})
      /\ BudgetDecl(r).limit = Field(r, "limit", "")
  BY DEF BudgetDecl
<1>2. AppliesTo(BudgetDecl(r), req.agent) <=> Listed(r, "agents", req.agent)
  BY <1>1, ScopeIsListed
<1>. QED  BY <1>1, <1>2 DEF Budgets

Values(f) == { f[x] : x \in DOMAIN f }

(* A function on 1..n is a list of length n.                               *)
LEMMA FunctionIsList ==
  ASSUME NEW n \in Nat, NEW f, f = [i \in 1..n |-> f[i]]
  PROVE  f \in Seq(Values(f)) /\ Len(f) = n /\ DOMAIN f = 1..n
<1>1. DOMAIN f = 1..n
  OBVIOUS
<1>2. \A i \in 1..n : f[i] \in Values(f)
  BY <1>1 DEF Values
<1>3. f \in [1..n -> Values(f)]
  BY <1>1, <1>2
<1>4. f \in Seq(Values(f))
  BY <1>3, SeqDef
<1>5. Len(f) \in Nat /\ DOMAIN f = 1..Len(f)
  BY <1>4, LenProperties
<1>. QED  BY <1>1, <1>4, <1>5

LEMMA PublishedStands ==
  ASSUME NEW S, NEW rs \in Seq(S), Validate(rs),
         NEW req, BuildInput(req).time.minute \in Minutes
  PROVE  Stands(CompileRules(rs), rs, req)
<1>. DEFINE pol == CompileRules(rs)
            ps  == Kept(rs, LocalAt(rs))
            bs  == Kept(rs, BudgetAt(rs))
<1>0. /\ LocalAt(rs) \in SUBSET (1..Len(rs)) /\ BudgetAt(rs) \in SUBSET (1..Len(rs))
      /\ \A i \in LocalAt(rs) : i \in DOMAIN rs /\ rs[i].type \in LocalTypes
      /\ \A i \in BudgetAt(rs) : i \in DOMAIN rs
  BY DEF LocalAt, BudgetAt
<1>1. \A i \in DOMAIN rs : InSchema(Wire(rs[i]))
  BY DEF Validate
<1>2. /\ pol.predicates = [j \in DOMAIN ps |-> Build(Wire(ps[j]))]
      /\ pol.budgets = [j \in DOMAIN bs |-> BudgetDecl(bs[j])]
  BY CompiledParts
<1>3. /\ ps \in Seq(S)
      /\ \A j \in 1..Len(ps) : \E i \in LocalAt(rs) : ps[j] = rs[i]
      /\ \A i \in LocalAt(rs) : \E j \in 1..Len(ps) : ps[j] = rs[i]
  BY <1>0, KeptHolds
<1>4. /\ bs \in Seq(S)
      /\ \A j \in 1..Len(bs) : \E i \in BudgetAt(rs) : bs[j] = rs[i]
      /\ \A i \in BudgetAt(rs) : \E j \in 1..Len(bs) : bs[j] = rs[i]
  BY <1>0, KeptHolds
<1>. HIDE DEF pol, ps, bs
<1>5. /\ Len(ps) \in Nat /\ DOMAIN ps = 1..Len(ps)
      /\ Len(bs) \in Nat /\ DOMAIN bs = 1..Len(bs)
  BY <1>3, <1>4
<1>6. DOMAIN pol.predicates = 1..Len(ps) /\ DOMAIN pol.budgets = 1..Len(bs)
  BY <1>2, <1>5
<1>7. \A i \in LocalAt(rs) : Enforces(Build(Wire(rs[i])), rs[i], req)
  BY <1>0, <1>1, WireEnforces
<1>8. \A i \in BudgetAt(rs) : Budgets(BudgetDecl(rs[i]), rs[i], req)
  BY <1>0, <1>1, WireKeeps, DeclBudgets
<1>9. \A j \in 1..Len(ps) : pol.predicates[j] = Build(Wire(ps[j]))
  BY <1>2, <1>5
<1>10. \A j \in 1..Len(bs) : pol.budgets[j] = BudgetDecl(bs[j])
  BY <1>2, <1>5
<1>11. pol.predicates \in Seq(Values(pol.predicates))
  BY <1>2, <1>5, FunctionIsList
<1>12. pol.budgets \in Seq(Values(pol.budgets))
  BY <1>2, <1>5, FunctionIsList
<1>13. /\ \A j \in DOMAIN pol.predicates :
             \E i \in LocalAt(rs) : Enforces(pol.predicates[j], rs[i], req)
       /\ \A i \in LocalAt(rs) :
             \E j \in DOMAIN pol.predicates : Enforces(pol.predicates[j], rs[i], req)
  <2>1. ASSUME NEW j \in DOMAIN pol.predicates
        PROVE  \E i \in LocalAt(rs) : Enforces(pol.predicates[j], rs[i], req)
    <3>1. PICK i \in LocalAt(rs) : ps[j] = rs[i]
      BY <1>3, <1>6
    <3>2. pol.predicates[j] = Build(Wire(rs[i]))
      BY <3>1, <1>6, <1>9
    <3>. QED  BY <3>2, <1>7
  <2>2. ASSUME NEW i \in LocalAt(rs)
        PROVE  \E j \in DOMAIN pol.predicates : Enforces(pol.predicates[j], rs[i], req)
    <3>1. PICK j \in DOMAIN pol.predicates : ps[j] = rs[i]
      BY <1>3, <1>6
    <3>2. pol.predicates[j] = Build(Wire(rs[i]))
      BY <3>1, <1>6, <1>9
    <3>. QED  BY <3>2, <1>7
  <2>. QED  BY <2>1, <2>2
<1>14. /\ \A j \in DOMAIN pol.budgets :
             \E i \in BudgetAt(rs) : Budgets(pol.budgets[j], rs[i], req)
       /\ \A i \in BudgetAt(rs) :
             \E j \in DOMAIN pol.budgets : Budgets(pol.budgets[j], rs[i], req)
  <2>1. ASSUME NEW j \in DOMAIN pol.budgets
        PROVE  \E i \in BudgetAt(rs) : Budgets(pol.budgets[j], rs[i], req)
    <3>1. PICK i \in BudgetAt(rs) : bs[j] = rs[i]
      BY <1>4, <1>6
    <3>2. pol.budgets[j] = BudgetDecl(rs[i])
      BY <3>1, <1>6, <1>10
    <3>. QED  BY <3>2, <1>8
  <2>2. ASSUME NEW i \in BudgetAt(rs)
        PROVE  \E j \in DOMAIN pol.budgets : Budgets(pol.budgets[j], rs[i], req)
    <3>1. PICK j \in DOMAIN pol.budgets : bs[j] = rs[i]
      BY <1>4, <1>6
    <3>2. pol.budgets[j] = BudgetDecl(rs[i])
      BY <3>1, <1>6, <1>10
    <3>. QED  BY <3>2, <1>8
  <2>. QED  BY <2>1, <2>2
<1>15. Stands(pol, rs, req)
  BY <1>11, <1>12, <1>13, <1>14 DEF Stands
<1>. QED  BY <1>15 DEF pol

LEMMA LoadedStands ==
  ASSUME NEW S, NEW rs \in Seq(S), Load(rs).ok,
         NEW req, BuildInput(req).time.minute \in Minutes
  PROVE  Stands(Load(rs), rs, req)
<1>. DEFINE pol == Load(rs)
<1>0. Len(rs) \in Nat /\ DOMAIN rs = 1..Len(rs)
  OBVIOUS
<1>1. Parse(rs).ok /\ pol.predicates = [i \in DOMAIN rs |-> Build(rs[i])] /\ pol.budgets = <<>>
  BY DEF Load, Parse
<1>2. \A i \in DOMAIN rs : rs[i].id # "" /\ Buildable(rs[i])
  BY <1>1 DEF Parse
<1>3. \A i \in DOMAIN rs : rs[i].type \in LocalTypes
  BY <1>2, BuildableIsLocal
<1>4. LocalAt(rs) = DOMAIN rs /\ BudgetAt(rs) = {}
  BY <1>3 DEF LocalAt, BudgetAt, LocalTypes
<1>. HIDE DEF pol
<1>5. \A i \in DOMAIN rs : Enforces(pol.predicates[i], rs[i], req)
  <2>. SUFFICES ASSUME NEW i \in DOMAIN rs  PROVE Enforces(pol.predicates[i], rs[i], req)
    OBVIOUS
  <2>1. pol.predicates[i] = Build(rs[i])
    BY <1>1
  <2>2. Enforces(Build(rs[i]), rs[i], req)
    BY <1>2, BuiltEnforces
  <2>. QED  BY <2>1, <2>2
<1>6. pol.predicates \in Seq(Values(pol.predicates))
  BY <1>0, <1>1, FunctionIsList
<1>7. pol.budgets \in Seq({}) /\ DOMAIN pol.budgets = {}
  BY <1>1
<1>8. DOMAIN pol.predicates = DOMAIN rs
  BY <1>1
<1>9. Stands(pol, rs, req)
  BY <1>4, <1>5, <1>6, <1>7, <1>8 DEF Stands
<1>. QED  BY <1>9 DEF pol

-----------------------------------------------------------------------------
(* The rows of the local predicates.                                       *)

(* The local rules that concern the agent, and its budgets.                *)
LocalInScope(rs, req)  == { i \in LocalAt(rs) : Listed(rs[i], "agents", req.agent) }
BudgetInScope(rs, req) == { i \in BudgetAt(rs) : Listed(rs[i], "agents", req.agent) }

Judgement(r, req) == Evaluate(Build(r), BuildInput(req))

(* The row is what rule r contributes.                                     *)
IsRowOf(row, r, req) ==
    /\ row.rule = r.id /\ row.rule # "" /\ row.failMode = ""
    /\ row.outcome = Judgement(r, req) /\ row.outcome \in Effective
    /\ row.outcome = "SATISFIED" <=> Permits(r, req)

AreRowsOf(rows, rs, req) ==
    /\ rows \in Seq(Values(rows))
    /\ \A j \in 1..Len(rows) : \E i \in LocalInScope(rs, req) : IsRowOf(rows[j], rs[i], req)
    /\ \A i \in LocalInScope(rs, req) : \E j \in 1..Len(rows) : IsRowOf(rows[j], rs[i], req)
    /\ rows = <<>> <=> LocalInScope(rs, req) = {}

LEMMA LocalRows ==
  ASSUME NEW pol, NEW rs, NEW req, Stands(pol, rs, req)
  PROVE  AreRowsOf(EvalLocal(pol.predicates, BuildInput(req)), rs, req)
<1>. DEFINE in      == BuildInput(req)
            ps      == pol.predicates
            inScope == { i \in DOMAIN ps : AppliesTo(ps[i], in.agent) }
            scoped  == Kept(ps, inScope)
            rows    == EvalLocal(ps, in)
            row(p)  == [rule |-> p.id, outcome |-> Evaluate(p, in), failMode |-> ""]
            L       == LocalInScope(rs, req)
<1>0. in.agent = req.agent
  BY DEF BuildInput
<1>1. PICK V : ps \in Seq(V)
  BY DEF Stands
<1>2. inScope \in SUBSET (1..Len(ps))
  BY <1>1
<1>3. /\ scoped \in Seq(V)
      /\ \A j \in 1..Len(scoped) : \E k \in inScope : scoped[j] = ps[k]
      /\ \A k \in inScope : \E j \in 1..Len(scoped) : scoped[j] = ps[k]
  BY <1>1, <1>2, KeptHolds
<1>4. rows = [j \in DOMAIN scoped |-> row(scoped[j])]
  BY DEF EvalLocal
<1>5. \A p : /\ row(p).rule = p.id /\ row(p).outcome = Evaluate(p, in) /\ row(p).failMode = ""
  OBVIOUS
<1>6. \A k \in inScope : k \in DOMAIN ps /\ AppliesTo(ps[k], in.agent)
  OBVIOUS
<1>7. \A k \in DOMAIN ps : AppliesTo(ps[k], in.agent) => k \in inScope
  OBVIOUS
<1>. HIDE DEF rows, row, scoped, inScope, in, ps
<1>8. Len(scoped) \in Nat /\ DOMAIN scoped = 1..Len(scoped)
  BY <1>3
<1>9. rows \in Seq(Values(rows)) /\ Len(rows) = Len(scoped)
      /\ \A j \in 1..Len(rows) : rows[j] = row(scoped[j])
  <2>1. rows = [j \in 1..Len(scoped) |-> rows[j]]
    BY <1>4, <1>8
  <2>2. rows \in Seq(Values(rows)) /\ Len(rows) = Len(scoped)
    BY <1>8, <2>1, FunctionIsList
  <2>. QED  BY <1>4, <1>8, <2>2
<1>10. ASSUME NEW p, NEW i \in LocalAt(rs), Enforces(p, rs[i], req)
       PROVE  /\ IsRowOf(row(p), rs[i], req)
              /\ AppliesTo(p, in.agent) <=> i \in L
  <2>1. IsRowOf(row(p), rs[i], req)
    BY <1>5, <1>10 DEF IsRowOf, Enforces, Judgement, in
  <2>2. AppliesTo(p, in.agent) <=> i \in L
    BY <1>0, <1>10 DEF Enforces, LocalInScope
  <2>. QED  BY <2>1, <2>2
<1>11. ASSUME NEW j \in 1..Len(rows)  PROVE \E i \in L : IsRowOf(rows[j], rs[i], req)
  <2>1. PICK k \in inScope : scoped[j] = ps[k]
    BY <1>3, <1>9
  <2>2. PICK i \in LocalAt(rs) : Enforces(ps[k], rs[i], req)
    BY <1>6 DEF Stands, ps
  <2>3. IsRowOf(row(ps[k]), rs[i], req) /\ i \in L
    BY <1>6, <1>10, <2>2
  <2>4. rows[j] = row(ps[k])
    BY <1>9, <2>1
  <2>. QED  BY <2>3, <2>4
<1>12. ASSUME NEW i \in L  PROVE \E j \in 1..Len(rows) : IsRowOf(rows[j], rs[i], req)
  <2>0. i \in LocalAt(rs)
    BY DEF LocalInScope
  <2>1. PICK k \in DOMAIN ps : Enforces(ps[k], rs[i], req)
    BY <2>0 DEF Stands, ps
  <2>2. IsRowOf(row(ps[k]), rs[i], req) /\ k \in inScope
    BY <1>7, <1>10, <2>0, <2>1
  <2>3. PICK j \in 1..Len(scoped) : scoped[j] = ps[k]
    BY <1>3, <2>2
  <2>4. j \in 1..Len(rows) /\ rows[j] = row(ps[k])
    BY <1>9, <2>3
  <2>. QED  BY <2>2, <2>4
<1>13. rows = <<>> <=> L = {}
  <2>1. CASE rows = <<>>
    <3>1. 1..Len(rows) = {}
      BY <2>1
    <3>. QED  BY <2>1, <3>1, <1>12
  <2>2. CASE rows # <<>>
    <3>1. 1 \in 1..Len(rows)
      BY <2>2, <1>9
    <3>. QED  BY <2>2, <3>1, <1>11
  <2>. QED  BY <2>1, <2>2
<1>14. AreRowsOf(rows, rs, req)
  BY <1>9, <1>11, <1>12, <1>13 DEF AreRowsOf
<1>. QED  BY <1>14 DEF rows, ps, in

(* What the local rules come to, read from the documents.                  *)
LocalVerdict(rs, req) ==
    LET some(o) == \E i \in LocalInScope(rs, req) : Judgement(rs[i], req) = o
    IN  IF LocalInScope(rs, req) = {} \/ some("DENIED") THEN "DENY"
        ELSE IF some("REVIEW") THEN "REVIEW"
        ELSE "APPROVE"

LEMMA RowEffective ==
  ASSUME NEW row, row.outcome \in Effective
  PROVE  EffectiveOutcome(row) = row.outcome
BY DEF EffectiveOutcome, Effective

LEMMA RowsComeTo ==
  ASSUME NEW rows, NEW rs, NEW req, AreRowsOf(rows, rs, req)
  PROVE  /\ \A j \in 1..Len(rows) : EffectiveOutcome(rows[j]) \in Effective
         /\ Combine(rows) = LocalVerdict(rs, req)
         /\ CombineLoop(rows) = LocalVerdict(rs, req)
         /\ LocalVerdict(rs, req) = "APPROVE" <=>
               /\ LocalInScope(rs, req) # {}
               /\ \A i \in LocalInScope(rs, req) : Permits(rs[i], req)
<1>. DEFINE L == LocalInScope(rs, req)
<1>1. /\ rows \in Seq(Values(rows))
      /\ \A j \in 1..Len(rows) : \E i \in L : IsRowOf(rows[j], rs[i], req)
      /\ \A i \in L : \E j \in 1..Len(rows) : IsRowOf(rows[j], rs[i], req)
      /\ rows = <<>> <=> L = {}
  BY DEF AreRowsOf
<1>. HIDE DEF L
<1>2. ASSUME NEW row, NEW r, IsRowOf(row, r, req)
      PROVE  /\ EffectiveOutcome(row) = Judgement(r, req)
             /\ Judgement(r, req) \in Effective
             /\ Judgement(r, req) = "SATISFIED" <=> Permits(r, req)
  BY <1>2, RowEffective DEF IsRowOf
<1>3. \A j \in 1..Len(rows) : EffectiveOutcome(rows[j]) \in Effective
  BY <1>1, <1>2
<1>4. ASSUME NEW o
      PROVE  Some(rows, o) <=> \E i \in L : Judgement(rs[i], req) = o
  BY <1>1, <1>2 DEF Some
<1>5. Combine(rows) = LocalVerdict(rs, req)
  BY <1>1, <1>4 DEF Combine, LocalVerdict, L
<1>6. CombineLoop(rows) = Combine(rows)
  BY <1>1, <1>3, LoopIsCombine
<1>7. \A i \in L : /\ Judgement(rs[i], req) \in Effective
                   /\ Judgement(rs[i], req) = "SATISFIED" <=> Permits(rs[i], req)
  BY <1>1, <1>2
<1>8. LocalVerdict(rs, req) = "APPROVE" <=>
        /\ L # {}
        /\ ~ \E i \in L : Judgement(rs[i], req) = "DENIED"
        /\ ~ \E i \in L : Judgement(rs[i], req) = "REVIEW"
  BY DEF LocalVerdict, L
<1>9. LocalVerdict(rs, req) = "APPROVE" <=> L # {} /\ \A i \in L : Permits(rs[i], req)
  BY <1>7, <1>8 DEF Effective
<1>. QED  BY <1>3, <1>5, <1>6, <1>9 DEF L

-----------------------------------------------------------------------------
(* The summary, the budget row, the answer.                                *)

(* The result a refusal is explained with, before the unavailable ones.    *)
Wanted(verdict) == IF verdict = "DENY" THEN "DENIED" ELSE "REVIEW"

(* A refusal names a row with that result or an unavailable one; it names  *)
(* none only where there is none.                                          *)
LEMMA SummaryNamesRow ==
  ASSUME NEW V, NEW rows \in Seq(V), NEW verdict, verdict # "APPROVE"
  PROVE  \/ /\ Summarize(verdict, rows) = ""
            /\ \A i \in 1..Len(rows) : rows[i].outcome \notin {Wanted(verdict), "UNAVAILABLE"}
         \/ \E i \in 1..Len(rows) : /\ rows[i].outcome \in {Wanted(verdict), "UNAVAILABLE"}
                                    /\ Summarize(verdict, rows) = rows[i].rule
<1>. DEFINE at(o) == { i \in DOMAIN rows : rows[i].outcome = o }
            a == WithResult(rows, Wanted(verdict))
            b == WithResult(rows, "UNAVAILABLE")
            named == a \o b
<1>0. DOMAIN rows = 1..Len(rows)
  OBVIOUS
<1>1. ASSUME NEW o
      PROVE  /\ WithResult(rows, o) \in Seq(V)
             /\ \A j \in 1..Len(WithResult(rows, o)) : \E i \in 1..Len(rows) :
                   rows[i].outcome = o /\ WithResult(rows, o)[j] = rows[i]
             /\ WithResult(rows, o) = <<>> => \A i \in 1..Len(rows) : rows[i].outcome # o
  <2>1. at(o) \in SUBSET (1..Len(rows))
    BY <1>0
  <2>2. WithResult(rows, o) = Kept(rows, at(o))
    BY DEF WithResult
  <2>3. /\ Kept(rows, at(o)) \in Seq(V)
        /\ \A j \in 1..Len(Kept(rows, at(o))) : \E i \in at(o) : Kept(rows, at(o))[j] = rows[i]
        /\ Kept(rows, at(o)) = <<>> <=> at(o) = {}
    BY <2>1, KeptHolds
  <2>4. \A i \in at(o) : i \in 1..Len(rows) /\ rows[i].outcome = o
    BY <1>0
  <2>5. at(o) = {} => \A i \in 1..Len(rows) : rows[i].outcome # o
    BY <1>0
  <2>. HIDE DEF at
  <2>. QED  BY <2>2, <2>3, <2>4, <2>5
<1>2. Summarize(verdict, rows) = IF named = <<>> THEN "" ELSE named[1].rule
  BY DEF Summarize, Wanted
<1>3. a \in Seq(V) /\ b \in Seq(V)
  BY <1>1
<1>4. /\ \A j \in 1..Len(a) : \E i \in 1..Len(rows) :
            rows[i].outcome = Wanted(verdict) /\ a[j] = rows[i]
      /\ a = <<>> => \A i \in 1..Len(rows) : rows[i].outcome # Wanted(verdict)
  BY <1>1
<1>5. /\ \A j \in 1..Len(b) : \E i \in 1..Len(rows) :
            rows[i].outcome = "UNAVAILABLE" /\ b[j] = rows[i]
      /\ b = <<>> => \A i \in 1..Len(rows) : rows[i].outcome # "UNAVAILABLE"
  BY <1>1
<1>. HIDE DEF a, b
<1>6. CASE a = <<>> /\ b = <<>>
  <2>1. named = <<>>
    BY <1>6
  <2>. QED  BY <1>2, <1>4, <1>5, <1>6, <2>1
<1>7. CASE a # <<>>
  <2>1. 1 \in 1..Len(a) /\ named # <<>> /\ named[1] = a[1]
    BY <1>3, <1>7
  <2>2. PICK i \in 1..Len(rows) : rows[i].outcome = Wanted(verdict) /\ a[1] = rows[i]
    BY <1>4, <2>1
  <2>3. Summarize(verdict, rows) = rows[i].rule
    BY <1>2, <2>1, <2>2
  <2>. QED  BY <2>2, <2>3
<1>8. CASE a = <<>> /\ b # <<>>
  <2>1. 1 \in 1..Len(b) /\ named # <<>> /\ named[1] = b[1]
    BY <1>3, <1>8
  <2>2. PICK i \in 1..Len(rows) : rows[i].outcome = "UNAVAILABLE" /\ b[1] = rows[i]
    BY <1>5, <2>1
  <2>3. Summarize(verdict, rows) = rows[i].rule
    BY <1>2, <2>1, <2>2
  <2>. QED  BY <2>2, <2>3
<1>. QED  BY <1>6, <1>7, <1>8

IsBudgetOf(b, rs, req) ==
    b.id # "" /\ \E i \in BudgetInScope(rs, req) :
                    b.id = rs[i].id /\ b.limit = Field(rs[i], "limit", "")

(* The budget looked up is the agent's, and is missing only if it has none. *)
LEMMA BudgetFound ==
  ASSUME NEW pol, NEW rs, NEW req, Stands(pol, rs, req)
  PROVE  \/ /\ ApplicableBudget(pol.budgets, req.agent) = <<>>
            /\ BudgetInScope(rs, req) = {}
         \/ \E b : ApplicableBudget(pol.budgets, req.agent) = <<b>> /\ IsBudgetOf(b, rs, req)
<1>. DEFINE bs    == pol.budgets
            inScope == { j \in DOMAIN bs : AppliesTo(bs[j], req.agent) }
            found == Kept(bs, inScope)
<1>1. PICK V : bs \in Seq(V)
  BY DEF Stands
<1>2. inScope \in SUBSET (1..Len(bs))
  BY <1>1
<1>3. /\ found \in Seq(V)
      /\ \A j \in 1..Len(found) : \E k \in inScope : found[j] = bs[k]
      /\ found = <<>> <=> inScope = {}
  BY <1>1, <1>2, KeptHolds
<1>4. ApplicableBudget(bs, req.agent) = IF found = <<>> THEN <<>> ELSE <<found[1]>>
  BY DEF ApplicableBudget
<1>5. \A k \in DOMAIN bs : k \in inScope <=> AppliesTo(bs[k], req.agent)
  OBVIOUS
<1>6. \A k \in inScope : k \in DOMAIN bs
  OBVIOUS
<1>. HIDE DEF bs, inScope, found
<1>7. CASE found = <<>>
  <2>1. ASSUME NEW i \in BudgetInScope(rs, req)  PROVE FALSE
    <3>1. i \in BudgetAt(rs) /\ Listed(rs[i], "agents", req.agent)
      BY DEF BudgetInScope
    <3>2. PICK k \in DOMAIN bs : Budgets(bs[k], rs[i], req)
      BY <3>1 DEF Stands, bs
    <3>3. k \in inScope
      BY <1>5, <3>1, <3>2 DEF Budgets
    <3>. QED  BY <1>3, <1>7, <3>3
  <2>. QED  BY <1>4, <1>7, <2>1 DEF bs
<1>8. CASE found # <<>>
  <2>1. 1 \in 1..Len(found)
    BY <1>3, <1>8
  <2>2. PICK k \in inScope : found[1] = bs[k]
    BY <1>3, <2>1
  <2>3. PICK i \in BudgetAt(rs) : Budgets(bs[k], rs[i], req)
    BY <1>6 DEF Stands, bs
  <2>4. i \in BudgetInScope(rs, req)
    BY <1>5, <1>6, <2>3 DEF Budgets, BudgetInScope
  <2>5. /\ found[1].id # "" /\ found[1].id = rs[i].id
        /\ found[1].limit = Field(rs[i], "limit", "")
    BY <2>2, <2>3 DEF Budgets
  <2>6. ApplicableBudget(bs, req.agent) = <<found[1]>>
    BY <1>4, <1>8
  <2>7. IsBudgetOf(found[1], rs, req)
    BY <2>4, <2>5 DEF IsBudgetOf
  <2>. QED  BY <2>6, <2>7 DEF bs
<1>. QED  BY <1>7, <1>8

(* What the budget's row comes to: room, no room, or not known.            *)
BudgetSays(reserved) ==
    IF reserved = "within" THEN "SATISFIED"
    ELSE IF reserved = "exceeded" THEN "DENIED"
    ELSE "REVIEW"

LEMMA BudgetRowSays ==
  ASSUME NEW b, NEW reserved
  PROVE  /\ EffectiveOutcome(BudgetRow(b, reserved)) = BudgetSays(reserved)
         /\ BudgetRow(b, reserved).rule = b.id
         /\ BudgetSays(reserved) = "DENIED" => BudgetRow(b, reserved).outcome = "DENIED"
         /\ BudgetSays(reserved) = "REVIEW" => BudgetRow(b, reserved).outcome = "UNAVAILABLE"
<1>. DEFINE row == BudgetRow(b, reserved)
<1>1. row.rule = b.id
  BY DEF BudgetRow
<1>2. CASE reserved = "within"
  <2>1. row.outcome = "SATISFIED"
    BY <1>2 DEF BudgetRow
  <2>. HIDE DEF row
  <2>2. EffectiveOutcome(row) = "SATISFIED"
    BY <2>1 DEF EffectiveOutcome
  <2>. QED  BY <1>1, <1>2, <2>1, <2>2 DEF BudgetSays, row
<1>3. CASE reserved = "exceeded"
  <2>1. row.outcome = "DENIED"
    BY <1>3 DEF BudgetRow
  <2>. HIDE DEF row
  <2>2. EffectiveOutcome(row) = "DENIED"
    BY <2>1 DEF EffectiveOutcome
  <2>. QED  BY <1>1, <1>3, <2>1, <2>2 DEF BudgetSays, row
<1>4. CASE reserved # "within" /\ reserved # "exceeded"
  <2>1. row.outcome = "UNAVAILABLE" /\ row.failMode = "FAIL_CLOSED_REVIEW"
    BY <1>4 DEF BudgetRow
  <2>. HIDE DEF row
  <2>2. EffectiveOutcome(row) = "REVIEW"
    BY <2>1 DEF EffectiveOutcome
  <2>. QED  BY <1>1, <1>4, <2>1, <2>2 DEF BudgetSays, row
<1>. QED  BY <1>2, <1>3, <1>4

(* A list with one more element.                                           *)
LEMMA OneLonger ==
  ASSUME NEW s, s \in Seq(Values(s)), NEW x
  PROVE  /\ Append(s, x) \in Seq(Values(s) \cup {x})
         /\ Append(s, x) # <<>>
         /\ \A j \in 1..Len(s) : Append(s, x)[j] = s[j]
         /\ Append(s, x)[Len(s) + 1] = x
         /\ Len(s) + 1 \in 1..Len(Append(s, x))
         /\ \A j \in 1..Len(Append(s, x)) : j \in 1..Len(s) \/ j = Len(s) + 1
<1>. DEFINE V == Values(s) \cup {x}
<1>1. Values(s) \subseteq V /\ x \in V
  OBVIOUS
<1>. HIDE DEF V
<1>2. s \in Seq(V)
  BY <1>1
<1>3. /\ Append(s, x) \in Seq(V) /\ Len(s) \in Nat /\ Len(Append(s, x)) = Len(s) + 1
      /\ \A j \in 1..Len(s) : Append(s, x)[j] = s[j]
      /\ Append(s, x)[Len(s) + 1] = x
  BY <1>1, <1>2
<1>4. Append(s, x) # <<>>
  BY <1>3
<1>5. Len(s) + 1 \in 1..Len(Append(s, x))
  BY <1>3
<1>6. \A j \in 1..Len(Append(s, x)) : j \in 1..Len(s) \/ j = Len(s) + 1
  BY <1>3
<1>. QED  BY <1>3, <1>4, <1>5, <1>6 DEF V

(* A list that approved comes to what one more result says.                *)
LEMMA OneMoreResult ==
  ASSUME NEW s, s \in Seq(Values(s)), NEW r,
         \A i \in 1..Len(s) : EffectiveOutcome(s[i]) \in Effective,
         EffectiveOutcome(r) \in Effective, Combine(s) = "APPROVE"
  PROVE  CombineLoop(Append(s, r)) =
            IF EffectiveOutcome(r) = "DENIED" THEN "DENY"
            ELSE IF EffectiveOutcome(r) = "REVIEW" THEN "REVIEW"
            ELSE "APPROVE"
<1>. DEFINE t == Append(s, r)
<1>1. /\ t \in Seq(Values(s) \cup {r}) /\ t # <<>>
      /\ \A i \in 1..Len(s) : t[i] = s[i]
      /\ t[Len(s) + 1] = r
      /\ Len(s) + 1 \in 1..Len(t)
      /\ \A i \in 1..Len(t) : i \in 1..Len(s) \/ i = Len(s) + 1
  BY OneLonger
<1>. HIDE DEF t
<1>2. \A i \in 1..Len(t) : EffectiveOutcome(t[i]) \in Effective
  BY <1>1
<1>3. CombineLoop(t) = Combine(t)
  BY <1>1, <1>2, LoopIsCombine
<1>4. ~Some(s, "DENIED") /\ ~Some(s, "REVIEW")
  BY DEF Combine
<1>5. ASSUME NEW o, ~Some(s, o)  PROVE Some(t, o) <=> EffectiveOutcome(r) = o
  <2>1. \A i \in 1..Len(s) : EffectiveOutcome(s[i]) # o
    BY <1>5 DEF Some
  <2>. QED  BY <1>1, <2>1 DEF Some
<1>. QED  BY <1>1, <1>3, <1>4, <1>5 DEF Combine, t

(* What Authorize consults the reserver for.                               *)
Charged(pol, req, shadow) ==
    IF ~ shadow /\ CombineLoop(EvalLocal(pol.predicates, BuildInput(req))) = "APPROVE"
    THEN ApplicableBudget(pol.budgets, req.agent)
    ELSE <<>>

(* The parts of an answer that rests on the local rows alone.              *)
RestsOn(ans, rows) ==
    /\ ans.verdict = CombineLoop(rows)
    /\ ans.summary = Summarize(CombineLoop(rows), rows)
    /\ ans.obligations = {}

(* The parts of an answer for which budget was asked of the reserver.      *)
Settles(ans, rows, reserved) ==
    /\ ans.verdict = CombineLoop(rows)
    /\ ans.summary = Summarize(CombineLoop(rows), rows)
    /\ ans.obligations # {} <=> reserved = "within"

LEMMA EvaluationRestsOn ==
  ASSUME NEW pol, NEW req
  PROVE  RestsOn(EvaluatePolicy(pol, req), EvalLocal(pol.predicates, BuildInput(req)))
BY DEF RestsOn, EvaluatePolicy, AssembleDecision

LEMMA AnswerWithoutBudget ==
  ASSUME NEW pol, NEW req, NEW shadow \in BOOLEAN, NEW reserved,
         EvalLocal(pol.predicates, BuildInput(req)) \in
            Seq(Values(EvalLocal(pol.predicates, BuildInput(req)))),
         Charged(pol, req, shadow) = <<>>
  PROVE  RestsOn(Authorize(pol, req, shadow, reserved),
                 EvalLocal(pol.predicates, BuildInput(req)))
<1>. DEFINE local  == EvalLocal(pol.predicates, BuildInput(req))
            budget == Charged(pol, req, shadow)
            extra  == [i \in DOMAIN budget |-> BudgetRow(budget[i], reserved)]
            owed   == { CaptureWithin(budget[i], req) : i \in { j \in DOMAIN budget : reserved = "within" } }
            ans    == Authorize(pol, req, shadow, reserved)
<1>1. ans = [AssembleDecision(local \o extra) EXCEPT !.obligations = owed]
  BY DEF Authorize, Charged
<1>2. DOMAIN budget = {}
  OBVIOUS
<1>3. extra = <<>> /\ owed = {}
  <2>1. extra = [i \in 1..0 |-> extra[i]]
    BY <1>2
  <2>2. extra \in Seq(Values(extra)) /\ Len(extra) = 0
    BY <2>1, FunctionIsList
  <2>. HIDE DEF extra
  <2>3. extra = <<>>
    BY <2>2
  <2>. QED  BY <1>2, <2>3
<1>4. local \o <<>> = local
  OBVIOUS
<1>. HIDE DEF extra, owed, ans, local
<1>5. ans = [AssembleDecision(local) EXCEPT !.obligations = {}]
  BY <1>1, <1>3, <1>4
<1>6. RestsOn(ans, local)
  BY <1>5 DEF AssembleDecision, RestsOn
<1>. QED  BY <1>6 DEF ans, local

LEMMA AnswerWithBudget ==
  ASSUME NEW pol, NEW req, NEW shadow \in BOOLEAN, NEW reserved, NEW b,
         EvalLocal(pol.predicates, BuildInput(req)) \in
            Seq(Values(EvalLocal(pol.predicates, BuildInput(req)))),
         Charged(pol, req, shadow) = <<b>>
  PROVE  Settles(Authorize(pol, req, shadow, reserved),
                 Append(EvalLocal(pol.predicates, BuildInput(req)), BudgetRow(b, reserved)),
                 reserved)
<1>. DEFINE local  == EvalLocal(pol.predicates, BuildInput(req))
            budget == Charged(pol, req, shadow)
            row    == BudgetRow(b, reserved)
            extra  == [i \in DOMAIN budget |-> BudgetRow(budget[i], reserved)]
            owed   == { CaptureWithin(budget[i], req) : i \in { j \in DOMAIN budget : reserved = "within" } }
            ans    == Authorize(pol, req, shadow, reserved)
            rows   == Append(local, row)
<1>1. ans = [AssembleDecision(local \o extra) EXCEPT !.obligations = owed]
  BY DEF Authorize, Charged
<1>2. DOMAIN budget = {1} /\ budget[1] = b
  OBVIOUS
<1>3. extra = <<row>>
  <2>1. extra = [i \in 1..1 |-> extra[i]] /\ extra[1] = row
    BY <1>2
  <2>2. extra \in Seq(Values(extra)) /\ Len(extra) = 1
    BY <2>1, FunctionIsList
  <2>. HIDE DEF extra, row
  <2>. QED  BY <2>1, <2>2
<1>4. owed # {} <=> reserved = "within"
  BY <1>2
<1>5. local \o <<row>> = rows
  <2>. HIDE DEF local, row
  <2>1. local \in Seq(Values(local) \cup {row}) /\ row \in Values(local) \cup {row}
    BY DEF local
  <2>. QED  BY <2>1
<1>. HIDE DEF extra, owed, rows, ans, local
<1>6. ans = [AssembleDecision(rows) EXCEPT !.obligations = owed]
  BY <1>1, <1>3, <1>5
<1>7. /\ ans.verdict = CombineLoop(rows)
      /\ ans.summary = Summarize(CombineLoop(rows), rows)
      /\ ans.obligations = owed
  BY <1>6 DEF AssembleDecision
<1>8. Settles(ans, rows, reserved)
  BY <1>4, <1>7 DEF Settles
<1>. QED  BY <1>8 DEF ans, rows, local

-----------------------------------------------------------------------------
(* Decisions.                                                              *)

Budgeted(rs, req, shadow) == ~ shadow /\ BudgetInScope(rs, req) # {}

(* FollowsRules, but for the dry run, which is compared by the last        *)
(* conjunct: the answer is the local verdict unless the budget refused.    *)
Explained(ans, rs, req, shadow, reserved) ==
    LET approved == LocalVerdict(rs, req) = "APPROVE"
        budgeted == Budgeted(rs, req, shadow)
        objects  == { i \in LocalInScope(rs, req) : ~ Permits(rs[i], req) }
    IN  /\ ans.verdict = "APPROVE" <=> approved /\ (budgeted => reserved = "within")
        /\ ans.obligations # {} <=> ans.verdict = "APPROVE" /\ budgeted
        /\ ans.summary = "" <=> ans.verdict = "APPROVE" \/ LocalInScope(rs, req) = {}
        /\ ans.summary # "" => \E i \in objects \cup BudgetInScope(rs, req) : rs[i].id = ans.summary
        /\ \/ ans.verdict = LocalVerdict(rs, req)
           \/ approved /\ budgeted /\ reserved # "within"

LEMMA ApprovalSummary ==
  ASSUME NEW rows
  PROVE  Summarize("APPROVE", rows) = ""
BY DEF Summarize

LEMMA LocalAnswerExplained ==
  ASSUME NEW ans, NEW rows, NEW rs, NEW req, NEW shadow \in BOOLEAN, NEW reserved,
         RestsOn(ans, rows), AreRowsOf(rows, rs, req),
         LocalVerdict(rs, req) = "APPROVE" => ~ Budgeted(rs, req, shadow)
  PROVE  Explained(ans, rs, req, shadow, reserved)
<1>. DEFINE L  == LocalInScope(rs, req)
            lv == LocalVerdict(rs, req)
            objects == { i \in L : ~ Permits(rs[i], req) }
<1>1. ans.verdict = lv /\ ans.summary = Summarize(lv, rows) /\ ans.obligations = {}
  BY RowsComeTo DEF RestsOn
<1>2. /\ rows \in Seq(Values(rows))
      /\ \A j \in 1..Len(rows) : \E i \in L : IsRowOf(rows[j], rs[i], req)
      /\ \A i \in L : \E j \in 1..Len(rows) : IsRowOf(rows[j], rs[i], req)
  BY DEF AreRowsOf
<1>3. lv = "APPROVE" => ans.summary = ""
  BY <1>1, ApprovalSummary
<1>4. lv # "APPROVE" =>
         /\ ans.summary = "" <=> L = {}
         /\ ans.summary # "" => \E i \in objects : rs[i].id = ans.summary
  <2>. SUFFICES ASSUME lv # "APPROVE"
               PROVE  /\ ans.summary = "" <=> L = {}
                      /\ ans.summary # "" => \E i \in objects : rs[i].id = ans.summary
    OBVIOUS
  <2>. DEFINE bad == {Wanted(lv), "UNAVAILABLE"}
  <2>0. "SATISFIED" \notin bad
    BY DEF Wanted
  <2>1. CASE /\ ans.summary = ""
             /\ \A j \in 1..Len(rows) : rows[j].outcome \notin bad
    <3>1. ASSUME NEW i \in L  PROVE Judgement(rs[i], req) # Wanted(lv)
      <4>1. PICK j \in 1..Len(rows) : IsRowOf(rows[j], rs[i], req)
        BY <1>2
      <4>2. rows[j].outcome = Judgement(rs[i], req)
        BY <4>1 DEF IsRowOf
      <4>. QED  BY <2>1, <4>2
    <3>2. L = {}
      BY <3>1 DEF LocalVerdict, Wanted
    <3>. QED  BY <2>1, <3>2
  <2>2. CASE \E j \in 1..Len(rows) : rows[j].outcome \in bad /\ ans.summary = rows[j].rule
    <3>1. PICK j \in 1..Len(rows) : rows[j].outcome \in bad /\ ans.summary = rows[j].rule
      BY <2>2
    <3>2. PICK i \in L : IsRowOf(rows[j], rs[i], req)
      BY <1>2
    <3>3. rows[j].outcome # "SATISFIED"
      BY <2>0, <3>1
    <3>4. ans.summary = rs[i].id /\ ans.summary # "" /\ ~ Permits(rs[i], req)
      BY <3>1, <3>2, <3>3 DEF IsRowOf
    <3>. HIDE DEF L
    <3>. QED  BY <3>4
  <2>. QED  BY <1>1, <1>2, <2>1, <2>2, SummaryNamesRow
<1>. HIDE DEF L, lv, objects
<1>5. /\ ans.summary = "" <=> ans.verdict = "APPROVE" \/ L = {}
      /\ ans.summary # "" => \E i \in objects \cup BudgetInScope(rs, req) : rs[i].id = ans.summary
  <2>1. CASE lv = "APPROVE"
    BY <1>1, <1>3, <2>1
  <2>2. CASE lv # "APPROVE"
    BY <1>1, <1>4, <2>2
  <2>. QED  BY <2>1, <2>2
<1>. QED  BY <1>1, <1>5 DEF Explained, L, lv, objects

LEMMA BudgetAnswerExplained ==
  ASSUME NEW ans, NEW local, NEW rs, NEW req, NEW shadow \in BOOLEAN, NEW reserved, NEW b,
         AreRowsOf(local, rs, req), LocalVerdict(rs, req) = "APPROVE", ~ shadow,
         IsBudgetOf(b, rs, req),
         Settles(ans, Append(local, BudgetRow(b, reserved)), reserved)
  PROVE  Explained(ans, rs, req, shadow, reserved)
<1>. DEFINE row  == BudgetRow(b, reserved)
            rows == Append(local, row)
            L    == LocalInScope(rs, req)
            e    == EffectiveOutcome(row)
            v    == CombineLoop(rows)
<1>1. /\ local \in Seq(Values(local))
      /\ \A j \in 1..Len(local) : \E i \in L : IsRowOf(local[j], rs[i], req)
  BY DEF AreRowsOf
<1>2. /\ \A j \in 1..Len(local) : EffectiveOutcome(local[j]) \in Effective
      /\ Combine(local) = "APPROVE"
      /\ L # {} /\ \A i \in L : Permits(rs[i], req)
  BY RowsComeTo
<1>3. /\ e = BudgetSays(reserved) /\ row.rule = b.id
      /\ e = "DENIED" => row.outcome = "DENIED"
      /\ e = "REVIEW" => row.outcome = "UNAVAILABLE"
  BY BudgetRowSays
<1>4. e \in Effective /\ (e = "SATISFIED" <=> reserved = "within")
  BY <1>3 DEF BudgetSays, Effective
<1>5. v = IF e = "DENIED" THEN "DENY" ELSE IF e = "REVIEW" THEN "REVIEW" ELSE "APPROVE"
  BY <1>1, <1>2, <1>4, OneMoreResult
<1>6. /\ ans.verdict = v /\ ans.summary = Summarize(v, rows)
      /\ ans.obligations # {} <=> reserved = "within"
  BY DEF Settles
<1>. HIDE DEF e, v, row
<1>7. v = "APPROVE" <=> reserved = "within"
  BY <1>4, <1>5 DEF Effective
<1>8. v = "APPROVE" => ans.summary = ""
  BY <1>6, ApprovalSummary
<1>9. v # "APPROVE" => ans.summary = b.id
  <2>. SUFFICES ASSUME v # "APPROVE"  PROVE ans.summary = b.id
    OBVIOUS
  <2>. DEFINE bad == {Wanted(v), "UNAVAILABLE"}
  <2>1. /\ rows \in Seq(Values(local) \cup {row})
        /\ \A j \in 1..Len(local) : rows[j] = local[j]
        /\ rows[Len(local) + 1] = row
        /\ Len(local) + 1 \in 1..Len(rows)
        /\ \A j \in 1..Len(rows) : j \in 1..Len(local) \/ j = Len(local) + 1
    BY <1>1, OneLonger
  <2>2. row.outcome \in bad
    BY <1>3, <1>4, <1>5 DEF Wanted, Effective
  <2>3. "SATISFIED" \notin bad
    BY DEF Wanted
  <2>4. ASSUME NEW j \in 1..Len(local)  PROVE local[j].outcome = "SATISFIED"
    <3>1. PICK i \in L : IsRowOf(local[j], rs[i], req)
      BY <1>1
    <3>. QED  BY <1>2, <3>1 DEF IsRowOf
  <2>. HIDE DEF rows, bad
  <2>5. \/ /\ Summarize(v, rows) = ""
           /\ \A j \in 1..Len(rows) : rows[j].outcome \notin bad
        \/ \E j \in 1..Len(rows) : rows[j].outcome \in bad /\ Summarize(v, rows) = rows[j].rule
    BY <2>1, SummaryNamesRow DEF bad
  <2>6. PICK j \in 1..Len(rows) : rows[j].outcome \in bad /\ Summarize(v, rows) = rows[j].rule
    BY <2>1, <2>2, <2>5
  <2>7. j = Len(local) + 1
    <3>1. CASE j \in 1..Len(local)
      <4>1. rows[j].outcome = "SATISFIED"
        BY <2>1, <2>4, <3>1
      <4>. QED  BY <2>3, <2>6, <4>1
    <3>. QED  BY <2>1, <3>1
  <2>. QED  BY <1>3, <1>6, <2>1, <2>6, <2>7
<1>10. Budgeted(rs, req, shadow)
  BY DEF Budgeted, IsBudgetOf
<1>11. v # "APPROVE" => \E i \in BudgetInScope(rs, req) : rs[i].id = ans.summary
  BY <1>9 DEF IsBudgetOf
<1>12. ans.summary = "" <=> v = "APPROVE"
  BY <1>8, <1>9 DEF IsBudgetOf
<1>13. ans.summary # "" => \E i \in { k \in L : ~ Permits(rs[k], req) } \cup BudgetInScope(rs, req) :
                              rs[i].id = ans.summary
  BY <1>11, <1>12
<1>. QED  BY <1>2, <1>6, <1>7, <1>10, <1>12, <1>13 DEF Explained

LEMMA AnswerExplained ==
  ASSUME NEW pol, NEW rs, NEW req, Stands(pol, rs, req), NEW shadow \in BOOLEAN, NEW reserved
  PROVE  Explained(Authorize(pol, req, shadow, reserved), rs, req, shadow, reserved)
<1>. DEFINE local == EvalLocal(pol.predicates, BuildInput(req))
            ans   == Authorize(pol, req, shadow, reserved)
            found == ApplicableBudget(pol.budgets, req.agent)
<1>0. \/ found = <<>> /\ BudgetInScope(rs, req) = {}
      \/ \E b : found = <<b>> /\ IsBudgetOf(b, rs, req)
  BY BudgetFound
<1>1. AreRowsOf(local, rs, req)
  BY LocalRows
<1>2. CombineLoop(local) = LocalVerdict(rs, req) /\ local \in Seq(Values(local))
  BY <1>1, RowsComeTo DEF AreRowsOf
<1>3. CASE Charged(pol, req, shadow) = <<>>
  <2>1. RestsOn(ans, local)
    BY <1>2, <1>3, AnswerWithoutBudget
  <2>2. LocalVerdict(rs, req) = "APPROVE" => ~ Budgeted(rs, req, shadow)
    <3>. SUFFICES ASSUME LocalVerdict(rs, req) = "APPROVE", ~ shadow
                 PROVE  BudgetInScope(rs, req) = {}
      BY DEF Budgeted
    <3>1. found = <<>>
      BY <1>2, <1>3 DEF Charged
    <3>. HIDE DEF found
    <3>. QED  BY <1>0, <3>1
  <2>. QED  BY <1>1, <2>1, <2>2, LocalAnswerExplained
<1>4. CASE Charged(pol, req, shadow) # <<>>
  <2>1. /\ ~ shadow /\ LocalVerdict(rs, req) = "APPROVE"
        /\ Charged(pol, req, shadow) = found
    BY <1>2, <1>4 DEF Charged
  <2>. HIDE DEF found
  <2>2. PICK b : Charged(pol, req, shadow) = <<b>> /\ IsBudgetOf(b, rs, req)
    BY <1>0, <1>4, <2>1
  <2>. DEFINE rows == Append(local, BudgetRow(b, reserved))
  <2>3. Settles(ans, rows, reserved)
    BY <1>2, <2>2, AnswerWithBudget
  <2>. HIDE DEF ans, local
  <2>4. Explained(ans, rs, req, shadow, reserved)
    BY <1>1, <2>1, <2>2, <2>3, BudgetAnswerExplained
  <2>. QED  BY <2>4 DEF ans
<1>. QED  BY <1>3, <1>4

(* A dry run that is answered is the evaluation of the policy that would   *)
(* be published.                                                           *)
LEMMA DryRunEvaluates ==
  ASSUME NEW rs, NEW req, NEW stored \in BOOLEAN, stored => Validate(rs),
         HandleSimulate(rs, stored, <<req>>) # <<>>
  PROVE  /\ Validate(rs)
         /\ HandleSimulate(rs, stored, <<req>>)[1] = EvaluatePolicy(CompileRules(rs), req)
<1>1. HandleSimulate(rs, stored, <<req>>) = Simulate(rs, stored, <<req>>)
  BY Zenon DEF HandleSimulate
<1>. DEFINE reqs == <<req>>
            pol  == CompileRules(rs)
<1>2. Validate(rs) /\ Simulate(rs, stored, reqs) = [i \in DOMAIN reqs |-> EvaluatePolicy(pol, reqs[i])]
  BY <1>1, Zenon DEF Simulate
<1>3. 1 \in DOMAIN reqs /\ reqs[1] = req
  OBVIOUS
<1>. HIDE DEF reqs, pol
<1>4. Simulate(rs, stored, reqs)[1] = EvaluatePolicy(pol, req)
  BY <1>2, <1>3
<1>. QED  BY <1>1, <1>2, <1>4 DEF reqs, pol

(* The local verdict of the dry run is the one of every decision.          *)
LEMMA DryRunVerdict ==
  ASSUME NEW S, NEW rs \in Seq(S), NEW req, BuildInput(req).time.minute \in Minutes,
         NEW stored \in BOOLEAN, stored => Validate(rs),
         HandleSimulate(rs, stored, <<req>>) # <<>>
  PROVE  HandleSimulate(rs, stored, <<req>>)[1].verdict = LocalVerdict(rs, req)
<1>. DEFINE pol   == CompileRules(rs)
            local == EvalLocal(pol.predicates, BuildInput(req))
<1>1. Validate(rs) /\ HandleSimulate(rs, stored, <<req>>)[1] = EvaluatePolicy(pol, req)
  BY DryRunEvaluates
<1>2. AreRowsOf(local, rs, req)
  BY <1>1, PublishedStands, LocalRows
<1>3. CombineLoop(local) = LocalVerdict(rs, req)
  BY <1>2, RowsComeTo
<1>4. EvaluatePolicy(pol, req).verdict = CombineLoop(local)
  BY EvaluationRestsOn DEF RestsOn
<1>. QED  BY <1>1, <1>3, <1>4

LEMMA ExplainedFollows ==
  ASSUME NEW S, NEW rs \in Seq(S), NEW dec, BuildInput(dec.request).time.minute \in Minutes,
         NEW pol, Stands(pol, rs, dec.request),
         Explained(dec.answer, rs, dec.request, dec.shadow, dec.reserved)
  PROVE  FollowsRules(rs, dec)
<1>. DEFINE req      == dec.request
            ans      == dec.answer
            inScope  == { i \in DOMAIN rs : Listed(rs[i], "agents", req.agent) }
            local    == { i \in inScope : rs[i].type \in LocalTypes }
            objects  == { i \in local : ~ Permits(rs[i], req) }
            budgets  == { i \in inScope : rs[i].type = "rolling_budget" }
            budgeted == ~ dec.shadow /\ budgets # {}
            dryRun   == HandleSimulate(rs, FALSE, <<req>>)
            lv       == LocalVerdict(rs, req)
<1>1. local = LocalInScope(rs, req) /\ budgets = BudgetInScope(rs, req)
  BY DEF LocalInScope, BudgetInScope, LocalAt, BudgetAt
<1>2. budgeted <=> Budgeted(rs, req, dec.shadow)
  BY <1>1 DEF Budgeted
<1>3. lv = "APPROVE" <=> local # {} /\ objects = {}
  <2>1. lv = "APPROVE" <=> local # {} /\ \A i \in local : Permits(rs[i], req)
    BY <1>1, LocalRows, RowsComeTo
  <2>. HIDE DEF local, lv
  <2>. QED  BY <2>1
<1>4. objects = { i \in LocalInScope(rs, req) : ~ Permits(rs[i], req) }
  BY <1>1
<1>5. dryRun # <<>> => dryRun[1].verdict = lv
  BY DryRunVerdict
<1>. HIDE DEF req, ans, inScope, local, objects, budgets, budgeted, dryRun, lv
<1>6. /\ ans.verdict = "APPROVE" <=> lv = "APPROVE" /\ (budgeted => dec.reserved = "within")
      /\ ans.obligations # {} <=> ans.verdict = "APPROVE" /\ budgeted
      /\ ans.summary = "" <=> ans.verdict = "APPROVE" \/ local = {}
      /\ ans.summary # "" => \E i \in objects \cup budgets : rs[i].id = ans.summary
      /\ \/ ans.verdict = lv
         \/ lv = "APPROVE" /\ budgeted /\ dec.reserved # "within"
  BY <1>1, <1>2, <1>4 DEF Explained, req, ans, lv
<1>7. /\ ans.verdict = "APPROVE" <=>
            local # {} /\ objects = {} /\ (budgeted => dec.reserved = "within")
      /\ dryRun # <<>> =>
            \/ dryRun[1].verdict = ans.verdict
            \/ dryRun[1].verdict = "APPROVE" /\ budgeted /\ dec.reserved # "within"
  BY <1>3, <1>5, <1>6
<1>. QED
  BY <1>6, <1>7 DEF FollowsRules, req, ans, inScope, local, objects, budgets, budgeted, dryRun

(* Authorize against the document as it reads, for policies of any length  *)
(* and content and for any request, agent and answer of the reserver: a    *)
(* published policy and one loaded from a file approve exactly when some   *)
(* local rule is in scope, all of them permit and the budget had room; an  *)
(* approval that holds budget, and no other answer, carries the            *)
(* obligation to capture; a refusal names a rule that objects unless it is *)
(* the default deny; and a dry run of the draft agrees.                    *)
THEOREM AnswersFollowRules ==
  ASSUME NEW S, NEW rs \in Seq(S), NEW req, BuildInput(req).time.minute \in Minutes,
         NEW pol, \/ Validate(rs) /\ pol = CompileRules(rs)
                  \/ Load(rs).ok /\ pol = Load(rs),
         NEW shadow \in BOOLEAN, NEW reserved
  PROVE  FollowsRules(rs, [request |-> req, shadow |-> shadow, reserved |-> reserved,
                           answer |-> Authorize(pol, req, shadow, reserved)])
<1>. DEFINE dec == [request |-> req, shadow |-> shadow, reserved |-> reserved,
                    answer |-> Authorize(pol, req, shadow, reserved)]
<1>1. Stands(pol, rs, req)
  BY PublishedStands, LoadedStands
<1>2. Explained(Authorize(pol, req, shadow, reserved), rs, req, shadow, reserved)
  BY <1>1, AnswerExplained
<1>3. /\ dec.request = req /\ dec.shadow = shadow /\ dec.reserved = reserved
      /\ dec.answer = Authorize(pol, req, shadow, reserved)
  OBVIOUS
<1>. HIDE DEF dec
<1>4. FollowsRules(rs, dec)
  BY <1>1, <1>2, <1>3, ExplainedFollows
<1>. QED  BY <1>4 DEF dec

(* Whole cents are read by the predicates as the same amount.              *)
LEMMA CentsAreExact ==
  ASSUME NEW s, NEW c \in ToCents(s)
  PROVE  c \in Nat /\ 10 * c \in ParseMoney(s)
<1>1. s \in {"0", "5", "5.5", "9"} /\ c = CentsValue[s]
  BY DEF ToCents, CentsValue
<1>2. s \in DOMAIN MoneyValue
  BY <1>1 DEF MoneyValue, Canonical
<1>3. c \in Nat /\ MoneyValue[s] = 10 * c
  <2>1. CASE s = "0"
    BY <1>1, <2>1 DEF CentsValue, MoneyValue, Canonical
  <2>2. CASE s = "5"
    BY <1>1, <2>2 DEF CentsValue, MoneyValue, Canonical
  <2>3. CASE s = "5.5"
    BY <1>1, <2>3 DEF CentsValue, MoneyValue, Canonical
  <2>4. CASE s = "9"
    BY <1>1, <2>4 DEF CentsValue, MoneyValue, Canonical
  <2>. QED  BY <1>1, <2>1, <2>2, <2>3, <2>4
<1>. QED  BY <1>2, <1>3 DEF ParseMoney

LEMMA NoTextNoCents == ToCents("") = {}
BY DEF ToCents, CentsValue

(* Reserve ("rather than silently approved"): for policies of any length   *)
(* and content, and any request, whatever the reserver answers within what *)
(* toCents lets it, budget is held only for an amount that is not negative *)
(* and not above the limit of a budget of the agent, both as the exact     *)
(* decimals they are.  A limit of a fraction of a cent, which the schema   *)
(* admits, therefore holds nothing.                                        *)
THEOREM HoldsFit ==
  ASSUME NEW S, NEW rs \in Seq(S), NEW req, BuildInput(req).time.minute \in Minutes,
         NEW pol, \/ Validate(rs) /\ pol = CompileRules(rs)
                  \/ Load(rs).ok /\ pol = Load(rs),
         NEW shadow \in BOOLEAN, NEW reserved,
         shadow \/ MayAnswer(pol, req, reserved)
  PROVE  HeldFits(rs, [request |-> req, shadow |-> shadow, reserved |-> reserved,
                       answer |-> Authorize(pol, req, shadow, reserved)])
<1>. DEFINE ans == Authorize(pol, req, shadow, reserved)
            dec == [request |-> req, shadow |-> shadow, reserved |-> reserved, answer |-> ans]
<1>1. Stands(pol, rs, req)
  BY PublishedStands, LoadedStands
<1>2. Explained(ans, rs, req, shadow, reserved)
  BY <1>1, AnswerExplained
<1>. HIDE DEF ans
<1>3. dec.request = req /\ dec.answer = ans
  OBVIOUS
<1>. HIDE DEF dec
<1>. SUFFICES ASSUME ans.obligations # {}
             PROVE  \E i \in DOMAIN rs :
                       /\ rs[i].type = "rolling_budget" /\ Listed(rs[i], "agents", req.agent)
                       /\ \E a \in ParseMoney(req.amount), l \in ParseMoney(rs[i].limit) :
                             0 <= a /\ a <= l
  BY <1>3 DEF HeldFits, dec, ans
<1>4. ~ shadow /\ BudgetInScope(rs, req) # {} /\ reserved = "within"
  BY <1>2 DEF Explained, Budgeted
<1>5. PICK b : ApplicableBudget(pol.budgets, req.agent) = <<b>> /\ IsBudgetOf(b, rs, req)
  BY <1>1, <1>4, BudgetFound
<1>6. "within" \in ReserveAnswers(b, req)
  <2>1. 1 \in DOMAIN <<b>> /\ <<b>>[1] = b
    OBVIOUS
  <2>. QED  BY <1>4, <1>5, <2>1 DEF MayAnswer
<1>7. PICK a \in ToCents(req.amount), l \in ToCents(b.limit) : a <= l
  BY <1>6 DEF ReserveAnswers
<1>8. PICK i \in BudgetInScope(rs, req) : b.limit = Field(rs[i], "limit", "")
  BY <1>5 DEF IsBudgetOf
<1>9. b.limit = rs[i].limit
  BY <1>7, <1>8, NoTextNoCents DEF Field
<1>10. /\ a \in Nat /\ 10 * a \in ParseMoney(req.amount)
       /\ l \in Nat /\ 10 * l \in ParseMoney(rs[i].limit)
  BY <1>7, <1>9, CentsAreExact
<1>11. 0 <= 10 * a /\ 10 * a <= 10 * l
  BY <1>7, <1>10
<1>12. i \in DOMAIN rs /\ rs[i].type = "rolling_budget" /\ Listed(rs[i], "agents", req.agent)
  BY DEF BudgetInScope, BudgetAt
<1>. QED  BY <1>10, <1>11, <1>12

(* The same of the dry run's own answer.                                   *)
LEMMA DryRunFollowsRules ==
  ASSUME NEW S, NEW rs \in Seq(S), NEW req, BuildInput(req).time.minute \in Minutes,
         NEW stored \in BOOLEAN, stored => Validate(rs),
         HandleSimulate(rs, stored, <<req>>) # <<>>
  PROVE  LET dec == [request |-> req, shadow |-> TRUE, reserved |-> "none",
                     answer |-> HandleSimulate(rs, stored, <<req>>)[1]]
         IN  FollowsRules(rs, dec) /\ HeldFits(rs, dec)
<1>. DEFINE pol   == CompileRules(rs)
            local == EvalLocal(pol.predicates, BuildInput(req))
            ans   == HandleSimulate(rs, stored, <<req>>)[1]
            dec   == [request |-> req, shadow |-> TRUE, reserved |-> "none", answer |-> ans]
<1>1. Validate(rs) /\ ans = EvaluatePolicy(pol, req)
  BY DryRunEvaluates
<1>2. Stands(pol, rs, req)
  BY <1>1, PublishedStands
<1>3. AreRowsOf(local, rs, req) /\ RestsOn(ans, local)
  BY <1>1, <1>2, LocalRows, EvaluationRestsOn
<1>4. ~ Budgeted(rs, req, TRUE)
  BY DEF Budgeted
<1>. HIDE DEF pol, local, ans
<1>5. Explained(ans, rs, req, TRUE, "none")
  BY <1>3, <1>4, LocalAnswerExplained
<1>6. dec.request = req /\ dec.shadow = TRUE /\ dec.reserved = "none" /\ dec.answer = ans
  OBVIOUS
<1>. HIDE DEF dec
<1>7. FollowsRules(rs, dec)
  BY <1>2, <1>5, <1>6, ExplainedFollows
<1>8. HeldFits(rs, dec)
  BY <1>3, <1>6 DEF RestsOn, HeldFits
<1>. QED  BY <1>7, <1>8 DEF dec, ans

(* The requests of the specification come at a minute of the day.          *)
Timed(req) ==
    \/ req.evaluatedAt = <<>>
    \/ \E d \in 0..6, m \in Minutes : req.evaluatedAt = <<[weekday |-> d, minute |-> m]>>

LEMMA MinuteOfRequest ==
  ASSUME NEW req, Timed(req)
  PROVE  BuildInput(req).time.minute \in Minutes
<1>. DEFINE time == IF req.evaluatedAt = <<>> THEN ZeroTime ELSE req.evaluatedAt[1]
<1>1. BuildInput(req).time = time
  BY DEF BuildInput
<1>2. CASE req.evaluatedAt = <<>>
  BY <1>1, <1>2 DEF ZeroTime, Minutes
<1>3. CASE \E d \in 0..6, m \in Minutes : req.evaluatedAt = <<[weekday |-> d, minute |-> m]>>
  <2>1. PICK d \in 0..6, m \in Minutes : req.evaluatedAt = <<[weekday |-> d, minute |-> m]>>
    BY <1>3
  <2>2. time = [weekday |-> d, minute |-> m]
    BY <2>1
  <2>. HIDE DEF time
  <2>. QED  BY <1>1, <2>2
<1>. QED  BY <1>2, <1>3 DEF Timed

LEMMA RequestTimes ==
  ASSUME NEW req \in Requests
  PROVE  BuildInput(req).time.minute \in Minutes
<1>1. ASSUME NEW d, NEW m  PROVE At(d, m).evaluatedAt = <<[weekday |-> d, minute |-> m]>>
  BY DEF At, Base
<1>2. Base.evaluatedAt = <<[weekday |-> 2, minute |-> 60]>>
  BY DEF Base
<1>3. {0, 59, 60, 119, 120, 1439} \subseteq Minutes /\ {1, 2} \subseteq 0..6
  BY DEF Minutes
<1>4. \/ req.evaluatedAt = <<>> \/ req.evaluatedAt = Base.evaluatedAt
      \/ req \in {At(2, 59), At(2, 119), At(2, 120), At(1, 0), At(1, 1439)}
  <2>. DEFINE a == [Base EXCEPT !.agent = "a2"]
              b == [Base EXCEPT !.action = "refund"]
              c == [Base EXCEPT !.amount = "1e1"]
              d == [Base EXCEPT !.amount = "-5"]
              p == [Base EXCEPT !.amount = "5.5"]
              q == [Base EXCEPT !.amount = "5.125"]
              e == [Base EXCEPT !.amount = "9", !.currency = "EUR"]
              f == [Base EXCEPT !.target = "v2"]
              g == [Base EXCEPT !.targetType = "account"]
              h == [Base EXCEPT !.target = "v2", !.agent = "a2"]
              i == [Base EXCEPT !.jurisdiction = "", !.currency = "EUR"]
              k == [Base EXCEPT !.jurisdiction = "DE", !.currency = "EUR"]
              z == [Base EXCEPT !.evaluatedAt = <<>>]
  <2>1. z.evaluatedAt = <<>>
    BY DEF Base
  <2>2. \A x \in {a, b, c, d, e, f, g, h, i, k, p, q} : x.evaluatedAt = Base.evaluatedAt
    <3>1. a.evaluatedAt = Base.evaluatedAt /\ b.evaluatedAt = Base.evaluatedAt
          /\ c.evaluatedAt = Base.evaluatedAt /\ d.evaluatedAt = Base.evaluatedAt
          /\ f.evaluatedAt = Base.evaluatedAt /\ g.evaluatedAt = Base.evaluatedAt
      BY DEF Base
    <3>2. e.evaluatedAt = Base.evaluatedAt /\ h.evaluatedAt = Base.evaluatedAt
          /\ i.evaluatedAt = Base.evaluatedAt /\ k.evaluatedAt = Base.evaluatedAt
          /\ p.evaluatedAt = Base.evaluatedAt /\ q.evaluatedAt = Base.evaluatedAt
      BY DEF Base
    <3>. HIDE DEF a, b, c, d, e, f, g, h, i, k, p, q
    <3>. QED  BY <3>1, <3>2
  <2>3. Requests = {Base, At(2, 59), At(2, 119), At(2, 120), At(1, 0), At(1, 1439),
                    z, a, b, c, d, p, q, e, f, g, h, i, k}
    BY DEF Requests
  <2>. HIDE DEF a, b, c, d, e, f, g, h, i, k, p, q, z
  <2>. QED  BY <2>1, <2>2, <2>3
<1>5. Timed(req)
  <2>1. CASE req.evaluatedAt = Base.evaluatedAt
    BY <1>2, <1>3, <2>1 DEF Timed
  <2>2. CASE req \in {At(2, 59), At(2, 119), At(2, 120), At(1, 0), At(1, 1439)}
    <3>1. PICK d \in {1, 2}, m \in {0, 59, 119, 120, 1439} : req = At(d, m)
      BY <2>2
    <3>2. req.evaluatedAt = <<[weekday |-> d, minute |-> m]>> /\ d \in 0..6 /\ m \in Minutes
      BY <1>1, <1>3, <3>1
    <3>. QED  BY <3>2 DEF Timed
  <2>3. CASE req.evaluatedAt = <<>>
    BY <2>3 DEF Timed
  <2>. QED  BY <1>4, <2>1, <2>2, <2>3
<1>. QED  BY <1>5, MinuteOfRequest

(* A decision, once made, stays, and so does the policy it was made under. *)
LEMMA DecisionsMade ==
  ASSUME [Next]_vars
  PROVE  \/ rules' = rules /\ decision' = decision
         \/ decision = NoDecision /\ decision' = decision
         \/ /\ rules' = rules
            /\ \E req \in Requests, shadow \in BOOLEAN : \E reserved, pol :
                  /\ shadow \/ MayAnswer(pol, req, reserved)
                  /\ \/ Validate(rules) /\ pol = CompileRules(rules)
                     \/ Load(rules).ok /\ pol = Load(rules)
                  /\ decision' = [request |-> req, shadow |-> shadow, reserved |-> reserved,
                                  answer |-> Authorize(pol, req, shadow, reserved)]
         \/ /\ rules' = rules
            /\ \E req \in Requests, stored \in BOOLEAN :
                  /\ stored => Validate(rules)
                  /\ HandleSimulate(rules, stored, <<req>>) # <<>>
                  /\ decision' = [request |-> req, shadow |-> TRUE, reserved |-> "none",
                                  answer |-> HandleSimulate(rules, stored, <<req>>)[1]]
<1>1. CASE UNCHANGED vars
  BY <1>1 DEF vars
<1>2. CASE AddResult
  BY <1>2 DEF AddResult
<1>3. CASE AddRule
  BY <1>3 DEF AddRule
<1>4. CASE DecidePublished
  <2>1. \E shadow \in BOOLEAN : \E reserved : Decide(CompileRules(rules), shadow, reserved)
    BY <1>4 DEF DecidePublished
  <2>2. Validate(rules)
    BY <1>4 DEF DecidePublished
  <2>. QED  BY <2>1, <2>2, Zenon DEF Decide
<1>5. CASE DecideFromFile
  <2>1. Decide(Load(rules), FALSE, "none")
    BY <1>5 DEF DecideFromFile
  <2>. QED  BY <2>1, Zenon DEF Decide
<1>6. CASE DryRun
  BY <1>6, Zenon DEF DryRun
<1>. QED  BY <1>1, <1>2, <1>3, <1>4, <1>5, <1>6 DEF Next

(* The run's property, on the specification.                               *)
THEOREM DecisionsFollow == Spec => []DecisionFollowsRules
<1>1. Init => DecisionFollowsRules
  BY DEF Init, DecisionFollowsRules
<1>2. DraftInv /\ DecisionFollowsRules /\ [Next]_vars => DecisionFollowsRules'
  <2>. SUFFICES ASSUME DraftInv, DecisionFollowsRules, [Next]_vars,
                      decision' # NoDecision
               PROVE  (FollowsRules(rules, decision) /\ HeldFits(rules, decision))'
    BY DEF DecisionFollowsRules
  <2>0. rules \in Seq(Drafts)
    BY DEF DraftInv
  <2>1. CASE rules' = rules /\ decision' = decision
    BY <2>1 DEF DecisionFollowsRules
  <2>2. ASSUME rules' = rules,
               NEW req \in Requests, NEW shadow \in BOOLEAN, NEW reserved, NEW pol,
               shadow \/ MayAnswer(pol, req, reserved),
               \/ Validate(rules) /\ pol = CompileRules(rules)
               \/ Load(rules).ok /\ pol = Load(rules),
               decision' = [request |-> req, shadow |-> shadow, reserved |-> reserved,
                            answer |-> Authorize(pol, req, shadow, reserved)]
        PROVE  FollowsRules(rules', decision') /\ HeldFits(rules', decision')
    <3>. DEFINE dec == [request |-> req, shadow |-> shadow, reserved |-> reserved,
                        answer |-> Authorize(pol, req, shadow, reserved)]
    <3>1. FollowsRules(rules, dec)
      BY <2>0, <2>2, RequestTimes, AnswersFollowRules
    <3>2. HeldFits(rules, dec)
      BY <2>0, <2>2, RequestTimes, HoldsFit
    <3>. QED  BY <2>2, <3>1, <3>2
  <2>3. ASSUME rules' = rules,
               NEW req \in Requests, NEW stored \in BOOLEAN, stored => Validate(rules),
               HandleSimulate(rules, stored, <<req>>) # <<>>,
               decision' = [request |-> req, shadow |-> TRUE, reserved |-> "none",
                            answer |-> HandleSimulate(rules, stored, <<req>>)[1]]
        PROVE  FollowsRules(rules', decision') /\ HeldFits(rules', decision')
    <3>. DEFINE dec == [request |-> req, shadow |-> TRUE, reserved |-> "none",
                        answer |-> HandleSimulate(rules, stored, <<req>>)[1]]
    <3>1. FollowsRules(rules, dec) /\ HeldFits(rules, dec)
      BY <2>0, <2>3, RequestTimes, DryRunFollowsRules
    <3>. QED  BY <2>3, <3>1
  <2>. QED  BY <2>1, <2>2, <2>3, DecisionsMade
<1>. QED  BY <1>1, <1>2, DraftInvariance, PTL DEF Spec
=============================================================================
