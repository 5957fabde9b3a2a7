-------------------------- MODULE FoldReplayProofs --------------------------
(***************************************************************************)
(* What FoldReplay's cache, table of calls and runs are to each other, for *)
(* any documents, paths, runs and capacity.                                *)
(***************************************************************************)
EXTENDS FoldReplay, FiniteSetTheorems, FunctionTheorems, WellFoundedInduction, TLAPS

(* Induction over the natural numbers, from their being well-founded.      *)

LEMMA Least ==
  ASSUME NEW T \in SUBSET Nat, T # {}
  PROVE  \E n \in T : \A m \in T : n <= m
<1>1. IsWellFoundedOn(OpToRel(<, Nat), Nat)
  BY NatLessThanWellFounded
<1>2. PICK n \in T : \A m \in T : ~ (<<m, n>> \in OpToRel(<, Nat))
  BY <1>1, WFMin
<1>3. \A m \in T : ~ (m < n)
  BY <1>2 DEF OpToRel
<1> QED
  BY <1>3

\* A set of numbers with the first, and with the next of each below k, has all up to k.
LEMMA Ascent ==
  ASSUME NEW k \in Nat, NEW T, 0 \in T, \A n \in Nat : n \in T /\ n < k => n + 1 \in T
  PROVE  \A n \in 0..k : n \in T
<1> SUFFICES ASSUME (0..k) \ T # {}
             PROVE  FALSE
  OBVIOUS
<1> DEFINE R == (0..k) \ T
<1>0. R \in SUBSET Nat /\ R # {}
  OBVIOUS
<1>1. PICK n \in R : \A m \in R : n <= m
  <2> HIDE DEF R
  <2> QED
    BY <1>0, Least
<1>2. n - 1 \in Nat /\ n - 1 \in T /\ n - 1 < k
  BY <1>1
<1> QED
  BY <1>1, <1>2

(* The cache without some paths.                                           *)

Keep(c, ps, k, i) == 
  IF i = 0 THEN <<>> ELSE IF c[i].path \in ps THEN k[i - 1] ELSE Append(k[i - 1], c[i])

LEMMA KeepExists ==
  ASSUME NEW S, NEW c \in Seq(S), NEW ps
  PROVE  \E k : k = [i \in 0..Len(c) |-> Keep(c, ps, k, i)]
<1> DEFINE T == {n \in Nat : \E k : k = [i \in 0..n |-> Keep(c, ps, k, i)]}
<1>1. 0 \in T
  <2> DEFINE k == [i \in 0..0 |-> <<>>]
  <2>1. k = [i \in 0..0 |-> Keep(c, ps, k, i)]
    BY DEF Keep
  <2> QED
    BY <2>1
<1>2. ASSUME NEW n \in Nat, n \in T
      PROVE  n + 1 \in T
  <2>1. PICK k : k = [i \in 0..n |-> Keep(c, ps, k, i)]
    BY <1>2
  <2> DEFINE j == [i \in 0..(n + 1) |-> IF i = n + 1 THEN Keep(c, ps, k, i) ELSE k[i]]
  <2>2. \A i \in 0..n : i # 0 => i - 1 \in 0..n /\ j[i - 1] = k[i - 1]
    OBVIOUS
  <2>3. j[n + 1] = Keep(c, ps, j, n + 1)
    BY DEF Keep
  <2>4. \A i \in 0..n : j[i] = Keep(c, ps, j, i)
    <3> TAKE i \in 0..n
    <3>0. j[i] = k[i] /\ i \in 0..n
      OBVIOUS
    <3>1. j[i] = Keep(c, ps, k, i)
      <4> HIDE DEF j
      <4>1. k[i] = Keep(c, ps, k, i)
        BY <2>1, <3>0
      <4> QED
        BY <3>0, <4>1
    <3>2. CASE i = 0
      BY <3>1, <3>2 DEF Keep
    <3>3. CASE i # 0
      BY <2>2, <3>1, <3>3 DEF Keep
    <3> QED
      BY <3>2, <3>3
  <2>5. j = [i \in 0..(n + 1) |-> Keep(c, ps, j, i)]
    BY <2>3, <2>4
  <2> HIDE DEF j
  <2> QED
    BY <2>5
<1>3. \A n \in 0..Len(c) : n \in T
  <2> HIDE DEF T
  <2> QED
    BY <1>1, <1>2, Ascent
<1> QED
  BY <1>3

LEMMA AppendToSet ==
  ASSUME NEW S, NEW c \in Seq(S), NEW e \in S
  PROVE  Append(c, e) \in Seq(S) /\ ToSet(Append(c, e)) = ToSet(c) \cup {e}
<1>1. DOMAIN Append(c, e) = DOMAIN c \cup {Len(c) + 1} /\ Append(c, e)[Len(c) + 1] = e
  OBVIOUS
<1>2. \A i \in DOMAIN c : Append(c, e)[i] = c[i]
  OBVIOUS
<1> QED
  BY <1>1, <1>2 DEF ToSet

\* What is left are the entries of the other paths.
LEMMA WithoutKeeps ==
  ASSUME NEW S, NEW c \in Seq(S), NEW ps
  PROVE  /\ Without(c, ps) \in Seq(S)
         /\ ToSet(Without(c, ps)) = {e \in ToSet(c) : e.path \notin ps}
<1> DEFINE kept == CHOOSE k : k = [i \in 0..Len(c) |-> Keep(c, ps, k, i)]
<1>1. kept = [i \in 0..Len(c) |-> Keep(c, ps, kept, i)]
  BY KeepExists
<1>2. Without(c, ps) = kept[Len(c)]
  BY DEF Without, Keep
<1> HIDE DEF kept
<1> DEFINE T == {n \in 0..Len(c) : kept[n] \in Seq(S)
                   /\ ToSet(kept[n]) = {c[i] : i \in {j \in 1..n : c[j].path \notin ps}}}
<1>3. 0 \in T
  BY <1>1 DEF Keep, ToSet
<1>4. ASSUME NEW n \in Nat, n \in T, n < Len(c)
      PROVE  n + 1 \in T
  <2>1. n + 1 \in 0..Len(c) /\ n + 1 \in 1..Len(c) /\ c[n + 1] \in S
    BY <1>4
  <2>0. kept[n + 1] = Keep(c, ps, kept, n + 1)
    BY <1>1, <2>1
  <2>2. CASE c[n + 1].path \in ps
    <3>1. kept[n + 1] = kept[n]
      BY <2>0, <2>2 DEF Keep
    <3>2. {j \in 1..(n + 1) : c[j].path \notin ps} = {j \in 1..n : c[j].path \notin ps}
      BY <2>2
    <3> QED
      BY <1>4, <2>1, <3>1, <3>2
  <2>3. CASE c[n + 1].path \notin ps
    <3>1. kept[n + 1] = Append(kept[n], c[n + 1])
      BY <2>0, <2>3 DEF Keep
    <3>2. {j \in 1..(n + 1) : c[j].path \notin ps} = {j \in 1..n : c[j].path \notin ps} \cup {n + 1}
      BY <2>3
    <3>3. kept[n + 1] \in Seq(S) /\ ToSet(kept[n + 1]) = ToSet(kept[n]) \cup {c[n + 1]}
      BY <1>4, <2>1, <3>1, AppendToSet
    <3> QED
      BY <1>4, <2>1, <3>2, <3>3
  <2> QED
    BY <2>2, <2>3
<1>5. Len(c) \in T
  <2> HIDE DEF T
  <2>1. Len(c) \in Nat
    OBVIOUS
  <2>2. \A n \in 0..Len(c) : n \in T
    BY <1>3, <1>4, <2>1, Ascent
  <2> QED
    BY <2>1, <2>2
<1>6. ToSet(c) = {c[i] : i \in 1..Len(c)}
  BY DEF ToSet
<1>7. {c[i] : i \in {j \in 1..Len(c) : c[j].path \notin ps}} = {e \in ToSet(c) : e.path \notin ps}
  BY <1>6
<1> QED
  BY <1>2, <1>5, <1>7

(* What a trim leaves.                                                     *)

LEMMA Ranks ==
  ASSUME NEW L \in SUBSET Nat, IsFiniteSet(L), NEW i \in L
  PROVE  /\ IsFiniteSet({k \in L : k <= i})
         /\ Cardinality({k \in L : k <= i}) \in 1..Cardinality(L)
         /\ \A j \in L : i < j => Cardinality({k \in L : k <= i}) < Cardinality({k \in L : k <= j})
<1> DEFINE upTo(j) == {k \in L : k <= j}
<1>1. \A j \in L : /\ IsFiniteSet(upTo(j)) /\ Cardinality(upTo(j)) \in Nat
                   /\ Cardinality(upTo(j)) <= Cardinality(L)
  <2> TAKE j \in L
  <2>1. upTo(j) \in SUBSET L
    OBVIOUS
  <2> HIDE DEF upTo
  <2> QED
    BY <2>1, FS_Subset, FS_CardinalityType
<1>2. Cardinality(upTo(i)) # 0
  <2>1. i \in upTo(i)
    OBVIOUS
  <2> HIDE DEF upTo
  <2> QED
    BY <1>1, <2>1, FS_EmptySet
<1>3. Cardinality(L) \in Nat
  BY FS_CardinalityType
<1>4. ASSUME NEW j \in L, i < j
      PROVE  Cardinality(upTo(i)) < Cardinality(upTo(j))
  <2>0. i \in Nat /\ j \in Nat /\ \A k \in L : k \in Nat
    OBVIOUS
  <2>1. upTo(i) \in SUBSET upTo(j)
    <3>1. \A k \in L : k <= i => k <= j
      BY <1>4, <2>0
    <3> QED
      BY <3>1
  <2>2. j \in upTo(j) /\ j \notin upTo(i)
    BY <1>4, <2>0
  <2> HIDE DEF upTo
  <2> QED
    BY <1>1, <2>1, <2>2, FS_Subset
<1> QED
  BY <1>1, <1>2, <1>3, <1>4

LEMMA TrimLeavesFew ==
  ASSUME NEW S, NEW c \in Seq(S), NEW pins, NEW gone, gone = Evicted(c, pins)
  PROVE  /\ gone \cap pins = {}
         /\ IsFiniteSet(Cached(Without(c, gone)) \ pins)
         /\ Cardinality(Cached(Without(c, gone)) \ pins) <= Capacity
<1> DEFINE loose == {i \in DOMAIN c : c[i].path \notin pins}
           rank(i) == Cardinality({j \in loose : j <= i})
           excess == Cardinality(loose) - Capacity
           stay == {i \in loose : ~ (rank(i) <= excess)}
           paths == {c[i].path : i \in stay}
<1>1. gone = {c[i].path : i \in {i \in loose : rank(i) <= excess}}
  BY DEF Evicted
<1>2. gone \cap pins = {}
  BY <1>1
<1>3. Cached(Without(c, gone)) \ pins \in SUBSET paths
  <2>1. ToSet(Without(c, gone)) = {e \in ToSet(c) : e.path \notin gone}
    BY WithoutKeeps
  <2>2. Cached(Without(c, gone)) = {e.path : e \in ToSet(Without(c, gone))}
    BY DEF Cached, ToSet
  <2> SUFFICES ASSUME NEW p \in Cached(Without(c, gone)), p \notin pins
               PROVE  p \in paths
    OBVIOUS
  <2>3. PICK i \in DOMAIN c : c[i].path = p /\ p \notin gone
    BY <2>1, <2>2 DEF ToSet
  <2>4. i \in loose
    BY <2>3
  <2>5. ~ (rank(i) <= excess)
    <3> HIDE DEF loose, rank, excess
    <3> QED
      BY <1>1, <2>3, <2>4
  <2> QED
    BY <2>3, <2>4, <2>5
<1>4. /\ loose \in SUBSET Nat /\ IsFiniteSet(loose) /\ Cardinality(loose) \in Nat
      /\ Capacity \in Nat
  <2>1. DOMAIN c = 1..Len(c) /\ Len(c) \in Nat
    OBVIOUS
  <2>2. IsFiniteSet(DOMAIN c)
    BY <2>1, FS_Interval
  <2>3. loose \in SUBSET DOMAIN c
    OBVIOUS
  <2> HIDE DEF loose
  <2> QED
    BY <2>1, <2>2, <2>3, FS_Subset, FS_CardinalityType, BoundsAssumption
<1>5. IsFiniteSet(stay) /\ Cardinality(stay) <= Capacity
  <2>1. stay \in SUBSET loose
    OBVIOUS
  <2>2. CASE excess <= 0
    <3>1. Cardinality(loose) <= Capacity
      BY <1>4, <2>2
    <3>2. IsFiniteSet(stay) /\ Cardinality(stay) <= Cardinality(loose) /\ Cardinality(stay) \in Nat
      <4> HIDE DEF loose, stay
      <4> QED
        BY <1>4, <2>1, FS_Subset, FS_CardinalityType
    <3> HIDE DEF loose, stay
    <3> QED
      BY <1>4, <3>1, <3>2
  <2>3. CASE excess > 0
    <3> DEFINE f == [i \in stay |-> rank(i) - excess]
    <3>1. \A i \in loose : /\ rank(i) \in 1..Cardinality(loose)
                          /\ \A j \in loose : i < j => rank(i) < rank(j)
      <4> HIDE DEF loose
      <4> QED
        BY <1>4, Ranks
    <3>2. f \in [stay -> 1..Capacity]
      <4>1. ASSUME NEW i \in stay
            PROVE  rank(i) - excess \in 1..Capacity
        <5>1. rank(i) \in 1..Cardinality(loose) /\ ~ (rank(i) <= excess)
          BY <3>1, <4>1
        <5> HIDE DEF loose, rank
        <5> QED
          BY <1>4, <2>3, <5>1
      <4> HIDE DEF rank, excess, stay
      <4> QED
        BY <4>1
    <3>3. \A i, j \in stay : i # j => f[i] # f[j]
      <4>1. ASSUME NEW i \in stay, NEW j \in stay, i < j
            PROVE  rank(i) - excess # rank(j) - excess
        <5>1. rank(i) < rank(j) /\ rank(i) \in Nat /\ rank(j) \in Nat
          <6> HIDE DEF rank
          <6> QED
            BY <3>1, <4>1
        <5> HIDE DEF rank, loose
        <5> QED
          BY <1>4, <5>1
      <4>2. \A i \in stay : i \in Nat /\ f[i] = rank(i) - excess
        BY <1>4
      <4> HIDE DEF rank, excess, stay, f
      <4>3. \A i, j \in stay : i < j => f[i] # f[j]
        BY <4>1, <4>2
      <4> QED
        BY <4>2, <4>3
    <3>4. f \in Injection(stay, 1..Capacity)
      <4> HIDE DEF f, stay
      <4> QED
        BY <3>2, <3>3 DEF Injection, IsInjective
    <3>5. IsFiniteSet(1..Capacity) /\ Cardinality(1..Capacity) = Capacity
      <4>1. Capacity \in Nat
        BY <1>4
      <4> HIDE DEF loose
      <4> QED
        BY <4>1, FS_Interval
    <3> HIDE DEF f, stay
    <3> QED
      BY <3>4, <3>5, FS_Injection
  <2> HIDE DEF loose
  <2> QED
    BY <1>4, <2>2, <2>3
<1>6. IsFiniteSet(paths) /\ Cardinality(paths) <= Cardinality(stay)
  <2> DEFINE g == [i \in stay |-> c[i].path]
  <2>1. g \in Surjection(stay, paths)
    BY DEF Surjection
  <2> HIDE DEF g, paths, stay
  <2> QED
    BY <1>5, <2>1, FS_Surjection
<1>7. Cardinality(paths) <= Capacity /\ Cardinality(paths) \in Nat
  <2> HIDE DEF paths, stay
  <2> QED
    BY <1>4, <1>5, <1>6, FS_CardinalityType
<1> HIDE DEF paths
<1>8. /\ IsFiniteSet(Cached(Without(c, gone)) \ pins)
      /\ Cardinality(Cached(Without(c, gone)) \ pins) <= Cardinality(paths)
      /\ Cardinality(Cached(Without(c, gone)) \ pins) \in Nat
  BY <1>3, <1>6, FS_Subset, FS_CardinalityType
<1> QED
  BY <1>2, <1>4, <1>7, <1>8

(* The ancestors of a path.                                                *)

AboveBody(g, p) == IF p = Sheet THEN {} ELSE {Parent[p]} \cup g[Parent[p]]

LEMMA AboveExists == \E g : g = [p \in Paths |-> AboveBody(g, p)]
<1>1. PICK depth \in [Paths -> 0..Cardinality(Paths)] :
        \A p \in Paths \ {Sheet} : depth[Parent[p]] < depth[p]
  BY TreeAssumption
<1>2. Cardinality(Paths) \in Nat
  BY TreeAssumption, FS_CardinalityType
<1>3. \A p \in Paths : depth[p] \in Nat /\ depth[p] <= Cardinality(Paths)
  BY <1>1, <1>2
<1> DEFINE upTo(n) == {p \in Paths : depth[p] <= n}
           T == {n \in Nat : \E g : g = [p \in upTo(n) |-> AboveBody(g, p)]}
<1>4. 0 \in T
  <2> DEFINE g == [p \in upTo(0) |-> {}]
  <2>1. \A p \in upTo(0) : p = Sheet
    BY <1>1, <1>3, PathsAssumption
  <2>2. g = [p \in upTo(0) |-> AboveBody(g, p)]
    BY <2>1 DEF AboveBody
  <2> HIDE DEF g
  <2> QED
    BY <2>2
<1>5. ASSUME NEW n \in Nat, n \in T
      PROVE  n + 1 \in T
  <2>1. PICK g : g = [p \in upTo(n) |-> AboveBody(g, p)]
    BY <1>5
  <2> DEFINE h == [p \in upTo(n + 1) |-> IF p \in upTo(n) THEN g[p] ELSE AboveBody(g, p)]
  <2>2. \A p \in upTo(n + 1) : p # Sheet => Parent[p] \in upTo(n) /\ Parent[p] \in upTo(n + 1)
    BY <1>1, <1>3, PathsAssumption
  <2>3. \A p \in upTo(n + 1) : AboveBody(h, p) = AboveBody(g, p)
    BY <2>2 DEF AboveBody
  <2>4. ASSUME NEW p \in upTo(n + 1)
        PROVE  h[p] = AboveBody(g, p)
    <3>1. CASE p \in upTo(n)
      <4>1. h[p] = g[p]
        BY <3>1
      <4>2. g[p] = AboveBody(g, p)
        <5> HIDE DEF upTo, h
        <5> QED
          BY <2>1, <3>1
      <4> QED
        BY <4>1, <4>2
    <3>2. CASE p \notin upTo(n)
      BY <3>2
    <3> QED
      BY <3>1, <3>2
  <2>5. h = [p \in upTo(n + 1) |-> h[p]]
    OBVIOUS
  <2> HIDE DEF h, upTo
  <2>6. h = [p \in upTo(n + 1) |-> AboveBody(h, p)]
    BY <2>3, <2>4, <2>5
  <2> QED
    BY <2>6
<1>6. Cardinality(Paths) \in T
  <2>1. \A n \in 0..Cardinality(Paths) : n \in T
    <3> HIDE DEF T
    <3> QED
      BY <1>2, <1>4, <1>5, Ascent
  <2> QED
    BY <1>2, <2>1
<1>7. upTo(Cardinality(Paths)) = Paths
  BY <1>3
<1> QED
  BY <1>6, <1>7

LEMMA ParentAbove ==
  ASSUME NEW p \in Paths, p # Sheet
  PROVE  Parent[p] \in Above[p] /\ Parent[p] # p
<1>1. Above = [x \in Paths |-> AboveBody(Above, x)]
  <2> DEFINE g == CHOOSE g : g = [x \in Paths |-> AboveBody(g, x)]
  <2>1. g = [x \in Paths |-> AboveBody(g, x)]
    BY AboveExists
  <2>2. Above = g
    BY DEF Above, AboveBody
  <2> QED
    BY <2>1, <2>2
<1>2. Above[p] = AboveBody(Above, p)
  BY <1>1
<1>3. Parent[p] # p
  <2>1. PICK depth \in [Paths -> 0..Cardinality(Paths)] :
          \A x \in Paths \ {Sheet} : depth[Parent[x]] < depth[x]
    BY TreeAssumption
  <2>2. depth[p] \in Nat /\ depth[Parent[p]] < depth[p]
    BY <2>1, TreeAssumption, FS_CardinalityType
  <2> QED
    BY <2>2
<1> QED
  BY <1>2, <1>3 DEF AboveBody

\* What is asked of the engine is not below what it refused.
LEMMA AskedBelowNoRefusal ==
  ASSUME NEW out, NEW p \in Paths, ~ Inherits(out, p), FoldedFrom(out, p) = RefusedOutcome
  PROVE  p = Sheet
<1> SUFFICES ASSUME p # Sheet
             PROVE  FALSE
  OBVIOUS
<1>1. Parent[p] \in Above[p] \cup {p} /\ Parent[p] # p
  BY ParentAbove
<1>2. out[Parent[p]] = RefusedOutcome
  BY DEF FoldedFrom
<1> QED
  BY <1>1, <1>2 DEF Inherits

(* What is next.                                                           *)

LEMMA NextIsLater ==
  ASSUME NEW d \in Seq(Paths), NEW i \in Nat, NEW out, NextAt(d, i, out) # 0
  PROVE  /\ NextAt(d, i, out) \in (i + 1)..Len(d)
         /\ ~ Inherits(out, d[NextAt(d, i, out)])
<1> DEFINE open == {j \in (i + 1)..Len(d) : ~ Inherits(out, d[j])}
<1>1. open \in SUBSET Nat /\ open # {}
  BY DEF NextAt
<1>2. \E j \in open : \A k \in open : j <= k
  <2> HIDE DEF open
  <2> QED
    BY <1>1, Least
<1>3. NextAt(d, i, out) = CHOOSE j \in open : \A k \in open : j <= k
  BY <1>1 DEF NextAt
<1>4. NextAt(d, i, out) \in open
  <2> HIDE DEF open
  <2> QED
    BY <1>2, <1>3
<1> QED
  BY <1>4

----------------------------------------------------------------------------
(* The inductive invariant.                                                *)

Awaiting == {r \in Runs : pc[r] = "awaiting"}
Live(r) == pc[r] = "awaiting" /\ Current(r)
Entry(p, m) == [path |-> p, made |-> m]
Entries == ToSet(cache)

CallType ==
  [path : Paths, epoch : Nat, from : States \cup {0, Unknown},
   fate : {"asked", "answered", "failed"}, made : Outcomes]

EntryType == [path : Paths, made : Outcomes \ {Unknown}]

CoreTypes ==
  /\ cache \in Seq(EntryType)
  /\ pinned \in SUBSET Paths
  /\ inFlight \in [Paths -> Nat]
  /\ epoch \in Nat /\ newest \in Nat
  /\ calls \in Seq(CallType) /\ Len(calls) <= MaxCalls
  /\ held \in SUBSET States

RunTypes ==
  /\ running \in Nat
  /\ pc \in [Runs -> {"unused", "awaiting", "returned"}]
  /\ ticket \in [Runs -> Nat]
  /\ doc \in [Runs -> Seq(Paths)]
  /\ at \in [Runs -> Nat]
  /\ answer \in [Runs -> [call : Nat, made : Outcomes]]
  /\ outcome \in [Runs -> [Paths -> Outcomes]]

TypeOK == CoreTypes /\ RunTypes

OnePerPath(c) == \A e, f \in ToSet(c) : e.path = f.path => e = f

\* The cache has one entry of a path, and each landed state in it is what the call of
\* its path landed.
CacheInv ==
  /\ OnePerPath(cache)
  /\ \A e \in Entries : e.made \in States =>
       /\ e.made \in DOMAIN calls
       /\ calls[e.made].path = e.path /\ calls[e.made].fate = "answered"

\* The table of calls under way has those of this epoch, each of a path not cached.
TableInv ==
  /\ \A p \in Paths : inFlight[p] # 0 =>
       /\ inFlight[p] \in Asked /\ p \notin Cached(cache)
       /\ calls[inFlight[p]].path = p /\ calls[inFlight[p]].epoch = epoch
  /\ \A n \in Asked : calls[n].epoch = epoch => inFlight[calls[n].path] = n
  /\ \A n \in DOMAIN calls : calls[n].epoch <= epoch

\* Runs under way, each with a ticket and a place of its own.
RunInv ==
  /\ \A r \in Awaiting :
       /\ ticket[r] <= newest /\ at[r] \in 1..Len(doc[r])
       /\ answer[r].call \in 0..Len(calls)
       /\ answer[r].call # 0 => answer[r].made = Unknown
  /\ \A q, r \in Awaiting : ticket[q] = ticket[r] => q = r
  /\ \A r \in Runs : pc[r] = "unused" => outcome[r] = Unreplayed

\* What the current run has made and what it awaits are of this epoch and cached; its
\* sheet comes first; and nobody asks again for what it awaits once that is settled.
LiveInv(r) ==
  LET n == answer[r].call
      p == doc[r][at[r]] IN
  /\ \A x \in Paths : outcome[r][x] # Unknown => Entry(x, outcome[r][x]) \in Entries
  /\ p # Sheet => outcome[r][Sheet] # Unknown
  /\ n = 0 => Entry(p, answer[r].made) \in Entries
  /\ n # 0 => /\ calls[n].path = p /\ calls[n].epoch = epoch
              /\ calls[n].fate = "answered" => Entry(p, calls[n].made) \in Entries
              /\ n \notin Asked => inFlight[p] = 0
LiveInvs == \A r \in Runs : Live(r) => LiveInv(r)

\* A call of an epoch that has ended folds from a state the engine no longer holds, so it
\* lands nothing; only the sheet is folded from none.
FromInv ==
  /\ \A n \in Asked : /\ calls[n].epoch # epoch => calls[n].from # 0 /\ calls[n].from \notin held
                      /\ calls[n].from = 0 => calls[n].path = Sheet
  /\ \A n \in DOMAIN calls : calls[n].from \in States =>
       calls[n].from \in DOMAIN calls /\ calls[calls[n].from].fate = "answered"

\* Every call of this epoch is awaited.
WaitInv == \A n \in Asked : calls[n].epoch = epoch => \E r \in Awaiting : answer[r].call = n

CountInv == IsFiniteSet(Awaiting) /\ running = Cardinality(Awaiting)

\* CacheBounded, with the set it counts known to be finite.
TrimInv ==
  /\ pinned \subseteq Cached(cache)
  /\ running = 0 => /\ IsFiniteSet(Cached(cache) \ pinned)
                    /\ Cardinality(Cached(cache) \ pinned) <= Capacity

CoreInv == CoreTypes /\ CacheInv /\ TableInv /\ FromInv /\ HeldIsCached
Inv == CoreInv /\ RunTypes /\ RunInv /\ LiveInvs /\ WaitInv /\ CountInv /\ TrimInv

(* The cache as a set of entries.                                          *)

LEMMA EntryTypes ==
  ASSUME NEW c \in Seq(EntryType), NEW e \in ToSet(c)
  PROVE  /\ e \in EntryType /\ e.path \in Paths /\ e.made \in Outcomes \ {Unknown}
         /\ e = Entry(e.path, e.made)
<1>1. e \in EntryType
  BY DEF ToSet
<1>2. e \in [path : Paths, made : Outcomes \ {Unknown}]
  BY <1>1 DEF EntryType
<1>3. e = [path |-> e.path, made |-> e.made]
  BY <1>2
<1> QED
  BY <1>1, <1>2, <1>3 DEF Entry

LEMMA CachedAre ==
  ASSUME NEW c
  PROVE  /\ Cached(c) = {e.path : e \in ToSet(c)}
         /\ \A p : p \in Cached(c) <=> \E e \in ToSet(c) : e.path = p
BY DEF Cached, ToSet

LEMMA MadeIs ==
  ASSUME NEW c \in Seq(EntryType), OnePerPath(c)
  PROVE  /\ \A e \in ToSet(c) : Made(c, e.path) = e.made
         /\ \A p \in Cached(c) : Entry(p, Made(c, p)) \in ToSet(c)
<1>1. ASSUME NEW e \in ToSet(c)
      PROVE  Made(c, e.path) = e.made
  <2>1. (CHOOSE f \in ToSet(c) : f.path = e.path) = e
    BY DEF OnePerPath
  <2> QED
    BY <2>1 DEF Made
<1>2. ASSUME NEW p \in Cached(c)
      PROVE  Entry(p, Made(c, p)) \in ToSet(c)
  <2>1. PICK e \in ToSet(c) : e.path = p
    BY CachedAre
  <2>2. e = Entry(e.path, e.made)
    BY EntryTypes
  <2> QED
    BY <1>1, <2>1, <2>2
<1> QED
  BY <1>1, <1>2

LEMMA StatesAre ==
  ASSUME NEW c \in Seq(EntryType), OnePerPath(c), NEW ps
  PROVE  StatesOf(c, ps) = {e.made : e \in {f \in ToSet(c) : f.path \in ps}} \cap States
<1>1. \A p : p \in Cached(c) <=> \E e \in ToSet(c) : e.path = p
  BY CachedAre
<1>2. \A e \in ToSet(c) : Made(c, e.path) = e.made
  BY MadeIs
<1>3. {Made(c, p) : p \in Cached(c) \cap ps} = {e.made : e \in {f \in ToSet(c) : f.path \in ps}}
  BY <1>1, <1>2
<1> QED
  BY <1>3 DEF StatesOf

LEMMA NumberedStates == States \subseteq Nat /\ 0 \notin States /\ Unknown \notin States
BY BoundsAssumption DEF States, Unknown

\* Asking for a path moves it to the end of the cache, or leaves the cache as it is.
LEMMA AwaitCache ==
  ASSUME CoreInv, NEW r \in Runs, NEW out, NEW p \in Paths, Await(r, out, p)
  PROVE  cache' \in Seq(EntryType) /\ Entries' = Entries
<1> USE DEF CoreInv
<1>1. CASE p \in Cached(cache)
  <2>1. cache' = Append(Without(cache, {p}), Entry(p, Made(cache, p)))
    BY <1>1 DEF Await, Entry
  <2>2. Entry(p, Made(cache, p)) \in Entries
    BY <1>1, MadeIs DEF CoreTypes, CacheInv, Entries
  <2>3. Entry(p, Made(cache, p)) \in EntryType
    BY <2>2, EntryTypes DEF CoreTypes, Entries
  <2>4. /\ Without(cache, {p}) \in Seq(EntryType)
        /\ ToSet(Without(cache, {p})) = {e \in Entries : e.path \notin {p}}
    BY WithoutKeeps DEF CoreTypes, Entries
  <2>5. /\ cache' \in Seq(EntryType)
        /\ ToSet(cache') = {e \in Entries : e.path \notin {p}} \cup {Entry(p, Made(cache, p))}
    <3> DEFINE w == Without(cache, {p})
               x == Entry(p, Made(cache, p))
    <3>1. w \in Seq(EntryType) /\ x \in EntryType /\ cache' = Append(w, x)
      BY <2>1, <2>3, <2>4
    <3>2. Append(w, x) \in Seq(EntryType) /\ ToSet(Append(w, x)) = ToSet(w) \cup {x}
      <4> HIDE DEF w, x
      <4> QED
        BY <3>1, AppendToSet
    <3> QED
      BY <2>4, <3>1, <3>2
  <2>6. \A e \in Entries : e.path = p => e = Entry(p, Made(cache, p))
    BY <2>2 DEF CacheInv, OnePerPath, Entry, Entries
  <2> QED
    BY <2>2, <2>5, <2>6 DEF Entries
<1>2. CASE p \notin Cached(cache)
  BY <1>2 DEF Await, CoreTypes, Entries
<1> QED
  BY <1>1, <1>2

\* What the table and the calls become, and what the run awaits.
LEMMA AwaitCalls ==
  ASSUME CoreInv, NEW r \in Runs, NEW out, NEW p \in Paths, Await(r, out, p)
  PROVE  \/ /\ UNCHANGED <<inFlight, calls>>
            /\ p \in Cached(cache)
            /\ answer' = [answer EXCEPT ![r] = [call |-> 0, made |-> Made(cache, p)]]
         \/ /\ UNCHANGED <<inFlight, calls>>
            /\ p \notin Cached(cache) /\ inFlight[p] # 0
            /\ answer' = [answer EXCEPT ![r] = [call |-> inFlight[p], made |-> Unknown]]
         \/ /\ p \notin Cached(cache) /\ inFlight[p] = 0 /\ Len(calls) < MaxCalls
            /\ calls' = Append(calls, [path |-> p, epoch |-> epoch, from |-> FoldedFrom(out, p),
                                       fate |-> "asked", made |-> Unknown])
            /\ inFlight' = [inFlight EXCEPT ![p] = Len(calls) + 1]
            /\ answer' = [answer EXCEPT ![r] = [call |-> Len(calls) + 1, made |-> Unknown]]
<1>1. CASE p \in Cached(cache)
  BY <1>1 DEF Await
<1>2. CASE p \notin Cached(cache) /\ inFlight[p] # 0
  BY <1>2 DEF Await
<1>3. CASE p \notin Cached(cache) /\ inFlight[p] = 0
  <2>1. inFlight' = [inFlight EXCEPT ![p] = Len(calls) + 1]
    BY <1>3 DEF Await, NewCall
  <2>2. inFlight'[p] = Len(calls) + 1
    BY <2>1 DEF CoreInv, CoreTypes
  <2> QED
    BY <1>3, <2>1, <2>2 DEF Await, NewCall
<1> QED
  BY <1>1, <1>2, <1>3

LEMMA AwaitKeepsCore ==
  ASSUME CoreInv, NEW r \in Runs, NEW out, NEW p \in Paths, Await(r, out, p),
         FoldedFrom(out, p) \in States \cup {0, Unknown},
         FoldedFrom(out, p) = 0 => p = Sheet,
         FoldedFrom(out, p) \in States =>
           /\ FoldedFrom(out, p) \in DOMAIN calls
           /\ calls[FoldedFrom(out, p)].fate = "answered",
         UNCHANGED <<pinned, epoch, held>>, newest' \in Nat
  PROVE  CoreInv'
<1> USE DEF CoreInv
<1>1. cache' \in Seq(EntryType) /\ Entries' = Entries
  BY AwaitCache
<1>2. Cached(cache)' = Cached(cache)
  BY <1>1, CachedAre DEF Entries
<1>4. HeldIsCached'
  <2>1. OnePerPath(cache) /\ OnePerPath(cache')
    BY <1>1 DEF CacheInv, OnePerPath, Entries
  <2>2. StatesOf(cache', Paths) = StatesOf(cache, Paths)
    BY <1>1, <2>1, StatesAre DEF CoreTypes, Entries
  <2> QED
    BY <2>2 DEF HeldIsCached
<1>3. CASE UNCHANGED <<inFlight, calls>>
  <2>1. CoreTypes'
    BY <1>1, <1>3 DEF CoreTypes
  <2>2. CacheInv'
    BY <1>1, <1>3 DEF CacheInv, OnePerPath, Entries
  <2>3. TableInv'
    BY <1>2, <1>3 DEF TableInv, Asked
  <2>4. FromInv'
    BY <1>3 DEF FromInv, Asked
  <2> QED
    BY <1>4, <2>1, <2>2, <2>3, <2>4
<1>5. ASSUME p \notin Cached(cache), inFlight[p] = 0, Len(calls) < MaxCalls,
             calls' = Append(calls, [path |-> p, epoch |-> epoch, from |-> FoldedFrom(out, p),
                                     fate |-> "asked", made |-> Unknown]),
             inFlight' = [inFlight EXCEPT ![p] = Len(calls) + 1]
      PROVE  CoreInv'
  <2> DEFINE m == Len(calls) + 1
             asked == [path |-> p, epoch |-> epoch, from |-> FoldedFrom(out, p),
                       fate |-> "asked", made |-> Unknown]
  <2>1. asked \in CallType
    BY DEF CallType, CoreTypes, Outcomes
  <2>2. /\ calls' \in Seq(CallType) /\ Len(calls') = m /\ m \in Nat /\ m <= MaxCalls
        /\ DOMAIN calls' = DOMAIN calls \cup {m} /\ m \notin DOMAIN calls
        /\ calls'[m] = asked /\ \A n \in DOMAIN calls : calls'[n] = calls[n]
    <3> HIDE DEF asked
    <3>1. calls' = Append(calls, asked)
      BY <1>5 DEF asked
    <3> QED
      BY <1>5, <2>1, <3>1, BoundsAssumption DEF CoreTypes
  <2>3. Asked' = Asked \cup {m}
    BY <2>2 DEF Asked
  <2>4. CoreTypes'
    BY <1>1, <1>5, <2>2 DEF CoreTypes
  <2>5. CacheInv'
    BY <1>1, <2>2 DEF CacheInv, OnePerPath, Entries
  <2>6. inFlight'[p] = m /\ \A q \in Paths : q # p => inFlight'[q] = inFlight[q]
    BY <1>5 DEF CoreTypes
  <2>7. TableInv'
    <3>1. ASSUME NEW q \in Paths, inFlight'[q] # 0
          PROVE  /\ inFlight'[q] \in Asked' /\ q \notin Cached(cache)'
                 /\ calls'[inFlight'[q]].path = q /\ calls'[inFlight'[q]].epoch = epoch'
      <4>1. CASE q = p
        BY <1>2, <1>5, <2>2, <2>3, <2>6, <4>1
      <4>2. CASE q # p
        <5>1. inFlight'[q] = inFlight[q] /\ inFlight[q] \in Asked
          BY <2>6, <3>1, <4>2 DEF TableInv
        <5>2. calls'[inFlight[q]] = calls[inFlight[q]]
          BY <2>2, <5>1 DEF Asked
        <5> QED
          BY <1>2, <2>3, <3>1, <5>1, <5>2 DEF TableInv
      <4> QED
        BY <4>1, <4>2
    <3>2. ASSUME NEW n \in Asked', calls'[n].epoch = epoch'
          PROVE  inFlight'[calls'[n].path] = n
      <4>1. CASE n = m
        BY <2>2, <2>6, <4>1
      <4>2. CASE n \in Asked
        <5>1. calls'[n] = calls[n] /\ n \in DOMAIN calls /\ n \in Nat
          BY <2>2, <4>2 DEF Asked, CoreTypes
        <5>3. calls[n] \in CallType /\ n # 0
          BY <5>1 DEF CoreTypes
        <5>2. inFlight[calls[n].path] = n /\ calls[n].path \in Paths
          BY <3>2, <4>2, <5>1, <5>3 DEF TableInv, CallType
        <5> QED
          BY <1>5, <2>6, <5>1, <5>2, <5>3
      <4> QED
        BY <2>3, <3>2, <4>1, <4>2
    <3>3. \A n \in DOMAIN calls' : calls'[n].epoch <= epoch'
      BY <2>2 DEF TableInv, CoreTypes
    <3> QED
      BY <3>1, <3>2, <3>3 DEF TableInv
  <2>8. FromInv'
    <3>1. m \in Asked' => /\ calls'[m].epoch = epoch' /\ (calls'[m].from = 0 => calls'[m].path = Sheet)
      BY <2>2
    <3>2. \A n \in Asked : calls'[n] = calls[n]
      BY <2>2 DEF Asked
    <3>3. ASSUME NEW n \in DOMAIN calls', calls'[n].from \in States
          PROVE  calls'[n].from \in DOMAIN calls' /\ calls'[calls'[n].from].fate = "answered"
      <4>1. CASE n = m
        BY <2>2, <3>3, <4>1
      <4>2. CASE n \in DOMAIN calls
        BY <2>2, <3>3, <4>2 DEF FromInv
      <4> QED
        BY <2>2, <4>1, <4>2
    <3> QED
      BY <2>3, <3>1, <3>2, <3>3 DEF FromInv
  <2> QED
    BY <1>4, <2>4, <2>5, <2>7, <2>8
<1> QED
  BY <1>3, <1>5, AwaitCalls

\* What the run awaits is cached, or a call of this epoch under way.
LEMMA AwaitedIs ==
  ASSUME CoreInv, RunTypes, NEW r \in Runs, NEW out, NEW p \in Paths, Await(r, out, p)
  PROVE  /\ answer' \in [Runs -> [call : Nat, made : Outcomes]]
         /\ \A q \in Runs : q # r => answer'[q] = answer[q]
         /\ answer'[r].call \in 0..Len(calls')
         /\ answer'[r].call = 0 => Entry(p, answer'[r].made) \in Entries
         /\ answer'[r].call # 0 =>
              /\ answer'[r].made = Unknown /\ answer'[r].call \in Asked'
              /\ calls'[answer'[r].call].path = p /\ calls'[answer'[r].call].epoch = epoch
         /\ Len(calls) <= Len(calls') /\ Len(calls') \in Nat
         /\ \A n \in DOMAIN calls : n \in DOMAIN calls' /\ calls'[n] = calls[n]
         /\ \A n \in Asked' : n \in Asked \/ n = answer'[r].call
<1> DEFINE Goal(a) ==
      /\ a \in [call : Nat, made : Outcomes] /\ a.call \in 0..Len(calls')
      /\ a.call = 0 => Entry(p, a.made) \in Entries
      /\ a.call # 0 => /\ a.made = Unknown /\ a.call \in Asked'
                       /\ calls'[a.call].path = p /\ calls'[a.call].epoch = epoch
      /\ Len(calls) <= Len(calls') /\ Len(calls') \in Nat
      /\ \A n \in DOMAIN calls : n \in DOMAIN calls' /\ calls'[n] = calls[n]
      /\ \A n \in Asked' : n \in Asked \/ n = a.call
<1>1. ASSUME NEW a, answer' = [answer EXCEPT ![r] = a], Goal(a)
      PROVE  /\ answer' \in [Runs -> [call : Nat, made : Outcomes]]
             /\ \A q \in Runs : q # r => answer'[q] = answer[q]
             /\ answer'[r] = a
  BY <1>1 DEF RunTypes
<1>2. ASSUME UNCHANGED <<inFlight, calls>>, p \in Cached(cache)
      PROVE  Goal([call |-> 0, made |-> Made(cache, p)])
  <2>1. Entry(p, Made(cache, p)) \in Entries
    BY <1>2, MadeIs DEF CoreInv, CoreTypes, CacheInv, Entries
  <2>2. Entry(p, Made(cache, p)) \in EntryType
    BY <2>1, EntryTypes DEF CoreInv, CoreTypes, Entries
  <2>3. Made(cache, p) \in Outcomes
    BY <2>2 DEF EntryType, Entry
  <2> QED
    BY <1>2, <2>1, <2>3 DEF CoreInv, CoreTypes, Asked
<1>3. ASSUME UNCHANGED <<inFlight, calls>>, p \notin Cached(cache), inFlight[p] # 0
      PROVE  Goal([call |-> inFlight[p], made |-> Unknown])
  <2>1. /\ inFlight[p] \in Asked /\ inFlight[p] \in 1..Len(calls)
        /\ calls[inFlight[p]].path = p /\ calls[inFlight[p]].epoch = epoch
    BY <1>3 DEF CoreInv, CoreTypes, TableInv, Asked
  <2> QED
    BY <1>3, <2>1 DEF CoreInv, CoreTypes, Asked, Outcomes
<1>4. ASSUME calls' = Append(calls, [path |-> p, epoch |-> epoch, from |-> FoldedFrom(out, p),
                                     fate |-> "asked", made |-> Unknown])
      PROVE  Goal([call |-> Len(calls) + 1, made |-> Unknown])
  <2> DEFINE asked == [path |-> p, epoch |-> epoch, from |-> FoldedFrom(out, p),
                       fate |-> "asked", made |-> Unknown]
  <2>1. asked.fate = "asked" /\ asked.path = p /\ asked.epoch = epoch
    OBVIOUS
  <2>2. calls' = Append(calls, asked)
    BY <1>4
  <2> HIDE DEF asked
  <2>3. /\ Len(calls) \in Nat /\ Len(calls') = Len(calls) + 1
        /\ DOMAIN calls' = DOMAIN calls \cup {Len(calls) + 1} /\ calls'[Len(calls) + 1] = asked
        /\ \A n \in DOMAIN calls : calls'[n] = calls[n]
    BY <2>2 DEF CoreInv, CoreTypes
  <2> QED
    BY <2>1, <2>3 DEF Asked, Outcomes
<1>5. PICK a : answer' = [answer EXCEPT ![r] = a] /\ Goal(a)
  <2> HIDE DEF Goal
  <2> QED
    BY <1>2, <1>3, <1>4, AwaitCalls
<1>6. answer'[r] = a
  BY <1>5 DEF RunTypes
<1> QED
  BY <1>1, <1>5, <1>6

(* Runs that start, go on and end.                                         *)

LEMMA StartKeeps ==
  ASSUME Inv, NEW r \in Runs, NEW d \in Documents, Start(r, d)
  PROVE  Inv'
<1> USE DEF Inv
<1>1. /\ pc[r] = "unused" /\ newest' = newest + 1 /\ running' = running + 1
      /\ pc' = [pc EXCEPT ![r] = "awaiting"] /\ ticket' = [ticket EXCEPT ![r] = newest + 1]
      /\ doc' = [doc EXCEPT ![r] = d] /\ at' = [at EXCEPT ![r] = 1]
      /\ Await(r, Unreplayed, Sheet) /\ UNCHANGED <<pinned, epoch, held, outcome>>
  BY DEF Start, StartedRunning
<1>2. Sheet \in Paths /\ d \in Seq(Paths) /\ d # <<>> /\ d[1] = Sheet /\ 1 \in 1..Len(d)
  BY PathsAssumption, DocumentsAssumption
<1>3. newest' \in Nat /\ newest \in Nat /\ FoldedFrom(Unreplayed, Sheet) = 0 /\ 0 \notin States
  BY <1>1, NumberedStates DEF CoreInv, CoreTypes, FoldedFrom
<1>4. CoreInv'
  BY <1>1, <1>2, <1>3, AwaitKeepsCore
<1>5. RunTypes'
  <2>1. answer' \in [Runs -> [call : Nat, made : Outcomes]]
    BY <1>1, <1>2, AwaitedIs
  <2>2. running' \in Nat /\ pc' \in [Runs -> {"unused", "awaiting", "returned"}]
    BY <1>1 DEF RunTypes
  <2>3. ticket' \in [Runs -> Nat]
    BY <1>1, <1>3 DEF RunTypes
  <2>4. doc' \in [Runs -> Seq(Paths)] /\ at' \in [Runs -> Nat]
    BY <1>1, <1>2 DEF RunTypes
  <2>5. outcome' \in [Runs -> [Paths -> Outcomes]]
    BY <1>1 DEF RunTypes
  <2> QED
    BY <2>1, <2>2, <2>3, <2>4, <2>5 DEF RunTypes
<1>6. /\ Awaiting' = Awaiting \cup {r} /\ r \notin Awaiting
      /\ ticket'[r] = newest + 1 /\ at'[r] = 1 /\ doc'[r] = d /\ outcome'[r] = outcome[r]
      /\ \A q \in Awaiting : q # r /\ ticket'[q] = ticket[q] /\ at'[q] = at[q] /\ doc'[q] = doc[q]
  BY <1>1 DEF RunTypes, Awaiting
<1>7. RunInv'
  <2>1. \A q \in Awaiting : answer'[q] = answer[q] /\ Len(calls) <= Len(calls')
    BY <1>1, <1>2, <1>6, AwaitedIs DEF Awaiting
  <2>2. answer'[r].call \in 0..Len(calls') /\ (answer'[r].call # 0 => answer'[r].made = Unknown)
    BY <1>1, <1>2, AwaitedIs
  <2>3. \A q \in Awaiting : ticket[q] \in Nat /\ ticket[q] <= newest
    BY DEF RunInv, RunTypes, Awaiting
  <2>4. Len(calls) \in Nat /\ Len(calls') \in Nat
    BY <1>4 DEF CoreInv, CoreTypes
  <2>5. ASSUME NEW q \in Awaiting'
        PROVE  /\ ticket'[q] <= newest' /\ at'[q] \in 1..Len(doc'[q])
               /\ answer'[q].call \in 0..Len(calls')
               /\ answer'[q].call # 0 => answer'[q].made = Unknown
    <3>1. CASE q = r
      BY <1>1, <1>2, <1>3, <1>6, <2>2, <3>1
    <3>2. CASE q \in Awaiting
      BY <1>1, <1>3, <1>6, <2>1, <2>3, <2>4, <3>2 DEF RunInv
    <3> QED
      BY <1>6, <3>1, <3>2
  <2>6. \A q, s \in Awaiting' : ticket'[q] = ticket'[s] => q = s
    BY <1>3, <1>6, <2>3 DEF RunInv
  <2>7. \A q \in Runs : pc'[q] = "unused" => outcome'[q] = Unreplayed
    BY <1>1 DEF RunInv, RunTypes
  <2> QED
    BY <2>5, <2>6, <2>7 DEF RunInv
<1>8. LiveInvs'
  <2>1. \A q \in Runs : Live(q)' => q = r
    <3>1. \A q \in Awaiting : ticket[q] \in Nat /\ ticket[q] <= newest
      BY DEF RunInv, RunTypes, Awaiting
    <3> QED
      BY <1>1, <1>3, <1>6, <3>1 DEF Live, Current, Awaiting
  <2>2. LiveInv(r)'
    <3>1. outcome'[r] = Unreplayed /\ \A x \in Paths : Unreplayed[x] = Unknown
      BY <1>1, <1>6 DEF RunInv, Unreplayed
    <3>2. doc'[r][at'[r]] = Sheet
      BY <1>2, <1>6
    <3>3. /\ answer'[r].call = 0 => Entry(Sheet, answer'[r].made) \in Entries'
          /\ answer'[r].call # 0 =>
               /\ answer'[r].call \in Asked' /\ calls'[answer'[r].call].path = Sheet
               /\ calls'[answer'[r].call].epoch = epoch'
      BY <1>1, <1>2, AwaitedIs, AwaitCache
    <3>4. \A n \in Asked' : calls'[n].fate = "asked"
      BY DEF Asked
    <3> QED
      BY <3>1, <3>2, <3>3, <3>4 DEF LiveInv
  <2> QED
    BY <2>1, <2>2 DEF LiveInvs
<1>9. WaitInv'
  <2>1. /\ \A n \in Asked' : n \in Asked \/ n = answer'[r].call
        /\ \A n \in DOMAIN calls : calls'[n] = calls[n]
        /\ \A q \in Awaiting : answer'[q] = answer[q]
    BY <1>1, <1>2, <1>6, AwaitedIs DEF Awaiting
  <2> QED
    BY <1>1, <1>6, <2>1 DEF WaitInv, Asked
<1>10. CountInv'
  BY <1>1, <1>6, FS_AddElement DEF CountInv
<1>11. TrimInv'
  <2>1. Cached(cache)' = Cached(cache)
    BY <1>1, <1>2, AwaitCache, CachedAre DEF Entries
  <2>2. running' # 0
    BY <1>1 DEF RunTypes
  <2> QED
    BY <1>1, <2>1, <2>2 DEF TrimInv
<1> QED
  BY <1>4, <1>5, <1>7, <1>8, <1>9, <1>10, <1>11

LEMMA ReturnCount ==
  ASSUME RunTypes, CountInv, NEW r \in Awaiting, pc' = [pc EXCEPT ![r] = "returned"],
         running' = running - 1
  PROVE  /\ Awaiting' = Awaiting \ {r} /\ CountInv' /\ running' \in Nat
         /\ running = 1 => Awaiting' = {}
         /\ running # 1 => running' # 0
<1>1. Awaiting' = Awaiting \ {r}
  BY DEF Awaiting, RunTypes
<1>2. /\ IsFiniteSet(Awaiting \ {r})
      /\ Cardinality(Awaiting \ {r}) = Cardinality(Awaiting) - 1
  BY FS_RemoveElement DEF CountInv
<1>3. /\ running \in Nat /\ running = Cardinality(Awaiting)
      /\ Cardinality(Awaiting \ {r}) \in Nat
  BY <1>2, FS_CardinalityType DEF RunTypes, CountInv
<1>4. running = 1 => Awaiting \ {r} = {}
  BY <1>2, <1>3, FS_EmptySet
<1> QED
  BY <1>1, <1>2, <1>3, <1>4 DEF CountInv

\* A run that ends lets go of what was evicted with it, and of nothing when others go on.
LEMMA EndedKeepsCore ==
  ASSUME CoreInv, NEW pins \in SUBSET Paths, pins \subseteq Cached(cache), Ended(cache, pins),
         UNCHANGED <<inFlight, epoch, newest, calls>>
  PROVE  /\ CoreInv'
         /\ pinned' \subseteq Cached(cache)'
         /\ running = 1 => /\ IsFiniteSet(Cached(cache)' \ pinned')
                          /\ Cardinality(Cached(cache)' \ pinned') <= Capacity
         /\ running # 1 => Entries' = Entries
<1> USE DEF CoreInv
<1> DEFINE gone == IF TrimDue THEN Evicted(cache, pins) ELSE {}
<1>1. /\ pinned' = pins /\ cache' = Without(cache, gone)
      /\ held' = held \ StatesOf(cache, gone)
  BY DEF Ended
<1>2. running = 1 => gone = Evicted(cache, pins)
  BY DEF TrimDue
<1>3. running # 1 => gone = {}
  BY DEF TrimDue
<1>4. gone \cap pins = {}
  <2>1. cache \in Seq(EntryType)
    BY DEF CoreTypes
  <2>2. Evicted(cache, pins) \cap pins = {}
    BY <2>1, TrimLeavesFew
  <2> QED
    BY <1>2, <1>3, <2>2
<1> HIDE DEF gone
<1>5. cache' \in Seq(EntryType) /\ Entries' = {e \in Entries : e.path \notin gone}
  BY <1>1, WithoutKeeps DEF CoreTypes, Entries
<1>6. Cached(cache)' \subseteq Cached(cache) /\ pins \subseteq Cached(cache)'
  <2>1. Cached(cache)' = {e.path : e \in Entries'}
    BY CachedAre DEF Entries
  <2>2. Cached(cache) = {e.path : e \in Entries}
    BY CachedAre DEF Entries
  <2> QED
    BY <1>4, <1>5, <2>1, <2>2
<1>7. CoreTypes'
  BY <1>1, <1>5 DEF CoreTypes
<1>8. CacheInv'
  BY <1>5 DEF CacheInv, OnePerPath, Entries
<1>9. TableInv'
  BY <1>6 DEF TableInv, Asked
<1>10. FromInv'
  BY <1>1 DEF FromInv, Asked
<1>11. HeldIsCached'
  <2>0. OnePerPath(cache) /\ OnePerPath(cache') /\ cache \in Seq(EntryType)
    BY <1>8 DEF CacheInv, CoreTypes
  <2>1. StatesOf(cache, gone) = {e.made : e \in {f \in Entries : f.path \in gone}} \cap States
    BY <2>0, StatesAre DEF Entries
  <2>2. StatesOf(cache, Paths) = {e.made : e \in {f \in Entries : f.path \in Paths}} \cap States
    BY <2>0, StatesAre DEF Entries
  <2>3. StatesOf(cache', Paths) = {e.made : e \in {f \in Entries' : f.path \in Paths}} \cap States
    BY <1>5, <2>0, StatesAre DEF Entries
  <2>4. \A e, f \in Entries : e.made \in States /\ e.made = f.made => e = f
    BY DEF CacheInv, OnePerPath, Entries
  <2>5. held' = held \ StatesOf(cache, gone) /\ held = StatesOf(cache, Paths)
    BY <1>1 DEF HeldIsCached
  <2>6. StatesOf(cache, Paths) \ StatesOf(cache, gone) = StatesOf(cache', Paths)
    BY <1>5, <2>1, <2>2, <2>3, <2>4
  <2> QED
    BY <2>5, <2>6 DEF HeldIsCached
<1>12. ASSUME running = 1
       PROVE  /\ IsFiniteSet(Cached(cache)' \ pinned')
              /\ Cardinality(Cached(cache)' \ pinned') <= Capacity
  <2>1. gone = Evicted(cache, pins) /\ cache \in Seq(EntryType)
    BY <1>2, <1>12 DEF CoreTypes
  <2>2. /\ IsFiniteSet(Cached(Without(cache, gone)) \ pins)
        /\ Cardinality(Cached(Without(cache, gone)) \ pins) <= Capacity
    BY <2>1, TrimLeavesFew
  <2> QED
    BY <1>1, <2>2
<1>13. running # 1 => Entries' = Entries
  BY <1>3, <1>5
<1> QED
  BY <1>1, <1>6, <1>7, <1>8, <1>9, <1>10, <1>11, <1>12, <1>13

\* A run that returns leaves the others as they were.
LEMMA ReturnKeeps ==
  ASSUME RunTypes, RunInv, CountInv, NEW r \in Awaiting, Return(r), running' = running - 1,
         newest \in Nat, newest' \in Nat, newest <= newest', UNCHANGED calls
  PROVE  /\ RunTypes' /\ RunInv' /\ CountInv'
         /\ Awaiting' = Awaiting \ {r}
         /\ running = 1 => Awaiting' = {}
         /\ running # 1 => running' # 0
         /\ \A q \in Awaiting' : /\ ticket'[q] = ticket[q] /\ doc'[q] = doc[q] /\ at'[q] = at[q]
                                 /\ answer'[q] = answer[q] /\ outcome'[q] = outcome[q]
<1>1. /\ Awaiting' = Awaiting \ {r} /\ CountInv' /\ running' \in Nat
      /\ (running = 1 => Awaiting' = {}) /\ (running # 1 => running' # 0)
  BY ReturnCount DEF Return
<1>2. r \in Runs /\ Awaiting \subseteq Runs
  BY DEF Awaiting
<1>3. RunTypes'
  <2>1. pc' \in [Runs -> {"unused", "awaiting", "returned"}]
    BY DEF Return, RunTypes
  <2>2. ticket' \in [Runs -> Nat] /\ at' \in [Runs -> Nat] /\ doc' \in [Runs -> Seq(Paths)]
    <3>1. <<>> \in Seq(Paths)
      OBVIOUS
    <3>2. doc' = [doc EXCEPT ![r] = <<>>] /\ doc \in [Runs -> Seq(Paths)]
      BY DEF Return, RunTypes
    <3>3. doc' \in [Runs -> Seq(Paths)]
      BY <3>1, <3>2
    <3>4. ticket' \in [Runs -> Nat] /\ at' \in [Runs -> Nat]
      BY DEF Return, RunTypes
    <3> QED
      BY <3>3, <3>4
  <2>3. NoAnswer \in [call : Nat, made : Outcomes] /\ Unreplayed \in [Paths -> Outcomes]
    BY DEF NoAnswer, Unreplayed, Outcomes
  <2>4. answer' \in [Runs -> [call : Nat, made : Outcomes]] /\ outcome' \in [Runs -> [Paths -> Outcomes]]
    BY <2>3 DEF Return, RunTypes
  <2> QED
    BY <1>1, <2>1, <2>2, <2>4 DEF RunTypes
<1>4. ASSUME NEW q \in Runs, q # r
      PROVE  /\ ticket'[q] = ticket[q] /\ doc'[q] = doc[q] /\ at'[q] = at[q] /\ pc'[q] = pc[q]
             /\ answer'[q] = answer[q] /\ outcome'[q] = outcome[q]
  BY <1>2, <1>4 DEF Return, RunTypes
<1>5. RunInv'
  <2>1. ASSUME NEW q \in Awaiting'
        PROVE  /\ ticket'[q] <= newest' /\ at'[q] \in 1..Len(doc'[q])
               /\ answer'[q].call \in 0..Len(calls')
               /\ answer'[q].call # 0 => answer'[q].made = Unknown
    <3>1. q \in Awaiting /\ q # r /\ ticket[q] \in Nat
      BY <1>1, <1>2 DEF RunTypes
    <3> QED
      BY <1>2, <1>4, <3>1 DEF RunInv
  <2>2. \A q, s \in Awaiting' : ticket'[q] = ticket'[s] => q = s
    BY <1>1, <1>2, <1>4 DEF RunInv
  <2>3. ASSUME NEW q \in Runs, pc'[q] = "unused"
        PROVE  outcome'[q] = Unreplayed
    <3>1. pc' = [pc EXCEPT ![r] = "returned"] /\ r \in DOMAIN pc
      BY <1>2 DEF Return, RunTypes
    <3>2. q # r
      BY <2>3, <3>1
    <3> QED
      BY <1>4, <2>3, <3>2 DEF RunInv
  <2> QED
    BY <2>1, <2>2, <2>3 DEF RunInv
<1> QED
  BY <1>1, <1>2, <1>3, <1>4, <1>5

\* A run that ends with its answer there.
LEMMA EndKeeps ==
  ASSUME Inv, NEW r \in Awaiting, Settled(r), Return(r), NEW pins \in SUBSET Paths,
         pins \subseteq Cached(cache), Ended(cache, pins), UNCHANGED <<inFlight, epoch, newest, calls>>
  PROVE  Inv'
<1> USE DEF Inv
<1>1. /\ CoreInv' /\ pinned' \subseteq Cached(cache)'
      /\ running = 1 => /\ IsFiniteSet(Cached(cache)' \ pinned')
                       /\ Cardinality(Cached(cache)' \ pinned') <= Capacity
      /\ running # 1 => Entries' = Entries
  BY EndedKeepsCore
<1>2. running' = running - 1 /\ newest \in Nat
  BY DEF Ended, CoreInv, CoreTypes
<1>3. /\ RunTypes' /\ RunInv' /\ CountInv'
      /\ Awaiting' = Awaiting \ {r}
      /\ running = 1 => Awaiting' = {}
      /\ running # 1 => running' # 0
      /\ \A q \in Awaiting' : /\ ticket'[q] = ticket[q] /\ doc'[q] = doc[q] /\ at'[q] = at[q]
                              /\ answer'[q] = answer[q] /\ outcome'[q] = outcome[q]
  BY <1>2, ReturnKeeps
<1>4. LiveInvs'
  <2> SUFFICES ASSUME NEW q \in Runs, Live(q)'
               PROVE  LiveInv(q)'
    BY DEF LiveInvs
  <2>1. q \in Awaiting' /\ q \in Awaiting /\ Entries' = Entries
    BY <1>1, <1>3 DEF Live, Awaiting
  <2>2. LiveInv(q)
    BY <1>3, <2>1 DEF LiveInvs, Live, Current, Awaiting
  <2>3. Asked' = Asked
    BY DEF Asked
  <2> QED
    BY <1>3, <2>1, <2>2, <2>3 DEF LiveInv
<1>5. WaitInv'
  <2> SUFFICES ASSUME NEW n \in Asked, calls[n].epoch = epoch
               PROVE  \E q \in Awaiting' : answer'[q].call = n
    BY DEF WaitInv, Asked
  <2>1. PICK q \in Awaiting : answer[q].call = n
    BY DEF WaitInv
  <2>2. q # r
    BY <2>1, NumberedStates DEF Settled, Asked, CoreInv, CoreTypes
  <2> QED
    BY <1>3, <2>1, <2>2
<1>6. TrimInv'
  BY <1>1, <1>3 DEF TrimInv
<1> QED
  BY <1>1, <1>3, <1>4, <1>5, <1>6

\* Once the ticket has moved, no run is current.
LEMMA NoneLive ==
  ASSUME RunTypes, RunInv, newest \in Nat, newest' = newest + 1, Awaiting' \subseteq Awaiting,
         \A q \in Awaiting' : ticket'[q] = ticket[q]
  PROVE  LiveInvs'
<1>1. ASSUME NEW q \in Runs, Live(q)'
      PROVE  FALSE
  <2>1. q \in Awaiting /\ ticket'[q] = ticket[q] /\ ticket'[q] = newest + 1
    BY <1>1 DEF Live, Current, Awaiting
  <2>2. ticket[q] <= newest /\ ticket[q] \in Nat
    BY <2>1 DEF RunInv, RunTypes
  <2> QED
    BY <2>1, <2>2
<1> QED
  BY <1>1 DEF LiveInvs

\* Everything is forgotten, and what is still asked of the engine folds from a state.
LEMMA ForgetKeepsCore ==
  ASSUME CoreInv, Clear, held' = {}, calls' \in Seq(CallType), Len(calls') = Len(calls),
         \A n \in DOMAIN calls :
           /\ calls'[n].epoch = calls[n].epoch /\ calls'[n].from = calls[n].from
           /\ calls[n].fate = "answered" => calls'[n].fate = "answered",
         \A n \in Asked' : calls'[n].from # 0
  PROVE  CoreInv' /\ pinned' = {} /\ Cached(cache)' = {}
<1> USE DEF CoreInv, Clear
<1>1. Entries' = {} /\ Cached(cache)' = {}
  BY DEF Entries, ToSet, Cached
<1>2. DOMAIN calls' = DOMAIN calls
  BY DEF CoreTypes
<1>3. CoreTypes'
  <2>1. cache' \in Seq(EntryType) /\ inFlight' \in [Paths -> Nat]
    OBVIOUS
  <2> QED
    BY <2>1 DEF CoreTypes
<1>4. CacheInv'
  BY <1>1 DEF CacheInv, OnePerPath, Entries
<1>5. \A n \in DOMAIN calls' : calls'[n].epoch <= epoch /\ calls'[n].epoch \in Nat
  <2> SUFFICES ASSUME NEW n \in DOMAIN calls
               PROVE  calls'[n].epoch <= epoch /\ calls'[n].epoch \in Nat
    BY <1>2
  <2>1. calls[n] \in CallType
    BY DEF CoreTypes
  <2>2. calls[n].epoch \in Nat /\ calls[n].epoch <= epoch
    BY <2>1 DEF TableInv, CallType
  <2> QED
    BY <2>2
<1>6. epoch \in Nat /\ epoch' = epoch + 1
  BY DEF CoreTypes
<1>7. TableInv'
  BY <1>5, <1>6 DEF TableInv, Asked
<1>8. FromInv'
  BY <1>2 DEF FromInv
<1>9. HeldIsCached'
  BY <1>1 DEF HeldIsCached, StatesOf
<1> QED
  BY <1>1, <1>3, <1>4, <1>7, <1>8, <1>9

LEMMA SupersedeKeeps ==
  ASSUME Inv, NEW r \in Runs, Supersede(r)
  PROVE  Inv'
<1>1. r \in Awaiting /\ pinned \in SUBSET Paths /\ pinned \subseteq Cached(cache)
  BY DEF Supersede, Awaiting, Inv, CoreInv, CoreTypes, TrimInv
<1> QED
  BY <1>1, EndKeeps DEF Supersede

\* What the current run makes of its document with its answer is cached, the sheet first.
LEMMA AnsweredIs ==
  ASSUME Inv, NEW r \in Runs, Live(r), Settled(r), ~ Failed(r)
  PROVE  /\ doc[r][at[r]] \in Paths /\ at[r] \in Nat /\ doc[r] \in Seq(Paths)
         /\ WithAnswer(r) \in [Paths -> Outcomes]
         /\ \A x \in Paths : WithAnswer(r)[x] # Unknown => Entry(x, WithAnswer(r)[x]) \in Entries
         /\ WithAnswer(r)[Sheet] # Unknown
<1> DEFINE p == doc[r][at[r]]
           n == answer[r].call
<1>1. r \in Awaiting /\ LiveInv(r)
  BY DEF Live, Awaiting, Inv, LiveInvs
<1>2. p \in Paths /\ at[r] \in Nat /\ doc[r] \in Seq(Paths)
  BY <1>1 DEF Inv, RunInv, RunTypes
<1>3. Entry(p, AnswerOf(r)) \in Entries
  <2>1. CASE n = 0
    BY <1>1, <2>1 DEF LiveInv, AnswerOf
  <2>2. CASE n # 0
    <3>1. calls[n].fate = "answered"
      BY <2>2 DEF Settled, Failed
    <3> QED
      BY <1>1, <2>2, <3>1 DEF LiveInv, AnswerOf
  <2> QED
    BY <2>1, <2>2
<1>4. AnswerOf(r) \in Outcomes \ {Unknown}
  <2>1. Entry(p, AnswerOf(r)).made = AnswerOf(r)
    BY DEF Entry
  <2> QED
    BY <1>3, <2>1, EntryTypes DEF Inv, CoreInv, CoreTypes, Entries
<1>5. outcome[r] \in [Paths -> Outcomes]
  BY DEF Inv, RunTypes
<1>6. WithAnswer(r) = [outcome[r] EXCEPT ![p] = AnswerOf(r)]
  BY DEF WithAnswer
<1> HIDE DEF p
<1>7. WithAnswer(r) \in [Paths -> Outcomes]
  BY <1>4, <1>5, <1>6
<1>8. /\ WithAnswer(r)[p] = AnswerOf(r)
      /\ \A x \in Paths : x # p => WithAnswer(r)[x] = outcome[r][x]
  BY <1>2, <1>5, <1>6 DEF p
<1>9. \A x \in Paths : WithAnswer(r)[x] # Unknown => Entry(x, WithAnswer(r)[x]) \in Entries
  BY <1>1, <1>3, <1>8 DEF LiveInv
<1>10. WithAnswer(r)[Sheet] # Unknown
  <2>1. p # Sheet => outcome[r][Sheet] # Unknown
    BY <1>1 DEF LiveInv, p
  <2> QED
    BY <1>4, <1>8, <2>1, PathsAssumption
<1> QED
  BY <1>2, <1>7, <1>9, <1>10 DEF p

LEMMA FinishKeeps ==
  ASSUME Inv, NEW r \in Runs, Finish(r)
  PROVE  Inv'
<1> DEFINE pins == {p \in Paths : WithAnswer(r)[p] # Unknown}
<1>1. r \in Awaiting /\ Live(r) /\ Settled(r) /\ ~ Failed(r)
  BY DEF Finish, Awaiting, Live
<1>2. pins \in SUBSET Paths /\ pins \subseteq Cached(cache)
  <2>1. \A x \in Paths : WithAnswer(r)[x] # Unknown => Entry(x, WithAnswer(r)[x]) \in Entries
    BY <1>1, AnsweredIs
  <2>2. \A x, o : Entry(x, o).path = x
    BY DEF Entry
  <2> QED
    BY <2>1, <2>2, CachedAre DEF Entries
<1>3. Ended(cache, pins) /\ Return(r) /\ UNCHANGED <<inFlight, epoch, newest, calls>>
  BY DEF Finish
<1> HIDE DEF pins
<1> QED
  BY <1>1, <1>2, <1>3, EndKeeps

LEMMA CancelKeeps ==
  ASSUME Inv, Cancel
  PROVE  Inv'
<1> USE DEF Inv, CoreInv
<1>1. newest \in Nat /\ newest' = newest + 1
      /\ UNCHANGED <<cache, pinned, inFlight, epoch, running, calls, held, run>>
  BY DEF Cancel, CoreTypes
<1>2. UNCHANGED <<pc, ticket, doc, at, answer, outcome>>
  BY <1>1 DEF run
<1>3. Awaiting' = Awaiting
  BY <1>2 DEF Awaiting
<1>4. CoreTypes'
  BY <1>1 DEF CoreTypes
<1>5. CacheInv' /\ TableInv' /\ FromInv' /\ HeldIsCached'
  BY <1>1 DEF CacheInv, TableInv, FromInv, HeldIsCached, Entries, Asked
<1>6. RunTypes'
  BY <1>1, <1>2 DEF RunTypes
<1>7. RunInv'
  <2>1. \A q \in Awaiting : ticket[q] \in Nat
    BY DEF Awaiting, RunTypes
  <2> QED
    BY <1>1, <1>2, <1>3, <2>1 DEF RunInv
<1>8. LiveInvs'
  BY <1>1, <1>2, <1>3, NoneLive
<1>9. WaitInv' /\ CountInv' /\ TrimInv'
  BY <1>1, <1>2, <1>3 DEF WaitInv, CountInv, TrimInv, Asked
<1> QED
  BY <1>4, <1>5, <1>6, <1>7, <1>8, <1>9

\* When the current run's call has failed, no call of this epoch folds the sheet.
LEMMA SheetIsDone ==
  ASSUME Inv, NEW r \in Runs, Live(r), Failed(r), NEW n \in Asked
  PROVE  calls[n].from # 0
<1> USE DEF Inv, CoreInv
<1> SUFFICES ASSUME calls[n].from = 0
             PROVE  FALSE
  OBVIOUS
<1>1. calls[n].epoch = epoch /\ calls[n].path = Sheet
  BY DEF FromInv
<1>2. inFlight[Sheet] = n /\ n # 0
  BY <1>1 DEF TableInv, Asked, CoreTypes
<1>3. Sheet \notin Cached(cache)
  BY <1>2, PathsAssumption DEF TableInv
<1> DEFINE m == answer[r].call
           p == doc[r][at[r]]
<1>4. LiveInv(r) /\ m # 0 /\ calls[m].fate = "failed"
  BY DEF LiveInvs, Live, Failed
<1>5. CASE p = Sheet
  <2>1. m \notin Asked
    BY <1>4 DEF Asked
  <2> QED
    BY <1>2, <1>4, <1>5, <2>1 DEF LiveInv
<1>6. CASE p # Sheet
  <2>1. Entry(Sheet, outcome[r][Sheet]) \in Entries
    BY <1>4, <1>6, PathsAssumption DEF LiveInv
  <2>2. Entry(Sheet, outcome[r][Sheet]).path = Sheet
    BY DEF Entry
  <2> QED
    BY <1>3, <2>1, <2>2, CachedAre DEF Entries
<1> QED
  BY <1>5, <1>6

\* Everything forgotten keeps what is left of the invariant.
LEMMA ForgetKeeps ==
  ASSUME Inv, CoreInv', RunTypes', RunInv', CountInv', newest' = newest + 1, epoch' = epoch + 1,
         Awaiting' \subseteq Awaiting, \A q \in Awaiting' : ticket'[q] = ticket[q],
         Asked' \subseteq Asked, \A n \in Asked' : calls'[n].epoch = calls[n].epoch,
         pinned' = {}, Cached(cache)' = {}
  PROVE  Inv'
<1> USE DEF Inv, CoreInv
<1>1. newest \in Nat /\ epoch \in Nat
  BY DEF CoreTypes
<1>2. LiveInvs'
  BY <1>1, NoneLive
<1>3. WaitInv'
  <2>1. \A n \in Asked' : calls'[n].epoch <= epoch /\ calls'[n].epoch # epoch'
    <3> SUFFICES ASSUME NEW n \in Asked'
                 PROVE  calls'[n].epoch <= epoch /\ calls'[n].epoch # epoch'
      OBVIOUS
    <3>1. n \in DOMAIN calls /\ calls'[n].epoch = calls[n].epoch /\ calls[n] \in CallType
      BY DEF Asked, CoreTypes
    <3>2. calls[n].epoch \in Nat /\ calls[n].epoch <= epoch
      BY <3>1 DEF TableInv, CallType
    <3> QED
      BY <1>1, <3>1, <3>2
  <2> QED
    BY <2>1 DEF WaitInv
<1>4. TrimInv'
  <2>1. Cached(cache)' \ pinned' = {}
    OBVIOUS
  <2> QED
    BY <2>1, FS_EmptySet, BoundsAssumption DEF TrimInv
<1> QED
  BY <1>2, <1>3, <1>4

LEMMA RunFailsKeeps ==
  ASSUME Inv, NEW r \in Runs, RunFails(r)
  PROVE  Inv'
<1>1. r \in Awaiting /\ Live(r) /\ Failed(r) /\ Settled(r) /\ Return(r) /\ UNCHANGED calls
  BY DEF RunFails, Awaiting, Live, Failed, Settled
<1>2. CASE Ended(cache, pinned) /\ UNCHANGED <<inFlight, epoch, newest, shown>>
  <2>1. pinned \in SUBSET Paths /\ pinned \subseteq Cached(cache)
    BY DEF Inv, CoreInv, CoreTypes, TrimInv
  <2> QED
    BY <1>1, <1>2, <2>1, EndKeeps
<1>3. CASE Clear /\ running' = running - 1 /\ held' = held \ StatesOf(cache, Paths)
  <2>1. held' = {}
    BY <1>3 DEF Inv, CoreInv, HeldIsCached
  <2>2. Asked' = Asked
    BY <1>1 DEF Asked
  <2>3. \A n \in Asked' : calls'[n].from # 0
    BY <1>1, <2>2, SheetIsDone
  <2>4. calls' \in Seq(CallType) /\ calls' = calls
    BY <1>1 DEF Inv, CoreInv, CoreTypes
  <2>5. CoreInv' /\ pinned' = {} /\ Cached(cache)' = {}
    BY <1>3, <2>1, <2>3, <2>4, ForgetKeepsCore DEF Inv
  <2>6. newest \in Nat /\ newest' = newest + 1 /\ newest' \in Nat /\ newest <= newest'
        /\ epoch' = epoch + 1
    BY <1>3 DEF Clear, Inv, CoreInv, CoreTypes
  <2>7. /\ RunTypes' /\ RunInv' /\ CountInv' /\ Awaiting' = Awaiting \ {r}
        /\ \A q \in Awaiting' : ticket'[q] = ticket[q]
    BY <1>1, <1>3, <2>6, ReturnKeeps DEF Inv
  <2> QED
    BY <2>2, <2>4, <2>5, <2>6, <2>7, ForgetKeeps
<1> QED
  BY <1>2, <1>3 DEF RunFails

LEMMA EngineLostKeeps ==
  ASSUME Inv, EngineLost
  PROVE  Inv'
<1>1. calls \in Seq(CallType)
  BY DEF Inv, CoreInv, CoreTypes
<1>2. calls' = Rejected /\ held' = {} /\ Clear /\ UNCHANGED <<running, pc, ticket, doc, at, answer, outcome>>
  BY DEF EngineLost, run
<1>3. ASSUME NEW n \in DOMAIN calls
      PROVE  /\ Rejected[n] \in CallType /\ Rejected[n].fate # "asked"
             /\ Rejected[n].epoch = calls[n].epoch /\ Rejected[n].from = calls[n].from
             /\ calls[n].fate = "answered" => Rejected[n].fate = "answered"
  <2>1. calls[n] \in CallType
    BY <1>1
  <2>2. Rejected[n] = IF calls[n].fate = "asked" THEN [calls[n] EXCEPT !.fate = "failed"] ELSE calls[n]
    BY DEF Rejected
  <2> QED
    BY <2>1, <2>2 DEF CallType
<1>4. DOMAIN calls' = DOMAIN calls /\ \A n \in DOMAIN calls : calls'[n] = Rejected[n]
  BY <1>2 DEF Rejected
<1>5. calls' \in Seq(CallType) /\ Len(calls') = Len(calls)
  <2>1. Len(calls) \in Nat /\ DOMAIN calls = 1..Len(calls)
    BY <1>1
  <2>2. calls' = [n \in 1..Len(calls) |-> Rejected[n]]
    BY <1>2, <2>1 DEF Rejected
  <2>3. \A n \in 1..Len(calls) : Rejected[n] \in CallType
    BY <1>3, <2>1
  <2> HIDE DEF Rejected
  <2> QED
    BY <2>1, <2>2, <2>3
<1>6. Asked' = {}
  BY <1>3, <1>4 DEF Asked
<1>7. CoreInv' /\ pinned' = {} /\ Cached(cache)' = {}
  <2>1. CoreInv
    BY DEF Inv
  <2>2. \A n \in DOMAIN calls :
          /\ calls'[n].epoch = calls[n].epoch /\ calls'[n].from = calls[n].from
          /\ calls[n].fate = "answered" => calls'[n].fate = "answered"
    BY <1>3, <1>4
  <2> QED
    BY <1>2, <1>5, <1>6, <2>1, <2>2, ForgetKeepsCore
<1>8. newest \in Nat /\ newest' = newest + 1 /\ epoch' = epoch + 1
  BY <1>2 DEF Clear, Inv, CoreInv, CoreTypes
<1>9. RunTypes' /\ CountInv' /\ Awaiting' = Awaiting
  BY <1>2 DEF RunTypes, CountInv, Awaiting, Inv
<1>10. RunInv'
  <2>1. \A q \in Awaiting : ticket[q] \in Nat
    BY DEF Awaiting, RunTypes, Inv
  <2> QED
    BY <1>2, <1>5, <1>8, <1>9, <2>1 DEF RunInv, Inv
<1> QED
  BY <1>2, <1>6, <1>7, <1>8, <1>9, <1>10, ForgetKeeps

\* The run asks for the next node of its document.
LEMMA AdvanceKeeps ==
  ASSUME Inv, NEW r \in Runs, Advance(r)
  PROVE  Inv'
<1> USE DEF Inv
<1> DEFINE d == doc[r]
           out == WithAnswer(r)
           next == NextAt(d, at[r], out)
           p == d[next]
<1>1. /\ r \in Awaiting /\ Live(r) /\ Settled(r) /\ ~ Failed(r)
      /\ next # 0 /\ outcome' = [outcome EXCEPT ![r] = out] /\ at' = [at EXCEPT ![r] = next]
      /\ Await(r, out, p) /\ UNCHANGED <<pinned, epoch, newest, running, held, pc, ticket, doc>>
  BY DEF Advance, Awaiting, Live
<1>2. /\ at[r] \in Nat /\ d \in Seq(Paths) /\ out \in [Paths -> Outcomes]
      /\ \A x \in Paths : out[x] # Unknown => Entry(x, out[x]) \in Entries
      /\ out[Sheet] # Unknown
  BY <1>1, AnsweredIs
<1> HIDE DEF out, d
<1>3. next \in (at[r] + 1)..Len(d) /\ ~ Inherits(out, p)
  BY <1>1, <1>2, NextIsLater
<1>4. p \in Paths /\ next \in Nat /\ next \in 1..Len(d)
  BY <1>2, <1>3
<1> HIDE DEF next, p
<1>5. /\ FoldedFrom(out, p) \in States \cup {0, Unknown}
      /\ FoldedFrom(out, p) = 0 => p = Sheet
      /\ FoldedFrom(out, p) \in States =>
           /\ FoldedFrom(out, p) \in DOMAIN calls
           /\ calls[FoldedFrom(out, p)].fate = "answered"
  <2>1. FoldedFrom(out, p) = 0 => p = Sheet
    BY <1>3, <1>4, AskedBelowNoRefusal DEF RefusedOutcome
  <2>2. CASE p = Sheet
    BY <2>2, NumberedStates DEF FoldedFrom
  <2>3. CASE p # Sheet
    <3>1. FoldedFrom(out, p) = out[Parent[p]] /\ Parent[p] \in Paths
      BY <1>4, <2>3, PathsAssumption DEF FoldedFrom
    <3>2. out[Parent[p]] \in States \cup {0, Unknown}
      BY <1>2, <3>1 DEF Outcomes, RefusedOutcome
    <3>3. ASSUME out[Parent[p]] \in States
          PROVE  out[Parent[p]] \in DOMAIN calls /\ calls[out[Parent[p]]].fate = "answered"
      <4>1. Entry(Parent[p], out[Parent[p]]) \in Entries
        BY <1>2, <3>1, <3>3, NumberedStates
      <4>2. Entry(Parent[p], out[Parent[p]]).made = out[Parent[p]]
        BY DEF Entry
      <4> QED
        BY <3>3, <4>1, <4>2 DEF CoreInv, CacheInv
    <3> QED
      BY <2>1, <3>1, <3>2, <3>3
  <2> QED
    BY <2>1, <2>2, <2>3
<1>6. newest' \in Nat /\ CoreInv
  BY <1>1 DEF CoreInv, CoreTypes
<1>7. CoreInv'
  BY <1>1, <1>4, <1>5, <1>6, AwaitKeepsCore
<1>8. Entries' = Entries /\ Cached(cache)' = Cached(cache)
  BY <1>1, <1>4, AwaitCache, CachedAre DEF Entries
<1>9. /\ answer' \in [Runs -> [call : Nat, made : Outcomes]]
      /\ \A q \in Runs : q # r => answer'[q] = answer[q]
      /\ answer'[r].call \in 0..Len(calls')
      /\ answer'[r].call = 0 => Entry(p, answer'[r].made) \in Entries
      /\ answer'[r].call # 0 =>
           /\ answer'[r].made = Unknown /\ answer'[r].call \in Asked'
           /\ calls'[answer'[r].call].path = p /\ calls'[answer'[r].call].epoch = epoch
      /\ Len(calls) <= Len(calls') /\ Len(calls') \in Nat
      /\ \A n \in DOMAIN calls : n \in DOMAIN calls' /\ calls'[n] = calls[n]
      /\ \A n \in Asked' : n \in Asked \/ n = answer'[r].call
  BY <1>1, <1>4, AwaitedIs
<1>10. RunTypes'
  <2>1. at' \in [Runs -> Nat] /\ outcome' \in [Runs -> [Paths -> Outcomes]]
    BY <1>1, <1>2, <1>4 DEF RunTypes
  <2> QED
    BY <1>1, <1>9, <2>1 DEF RunTypes
<1>11. Awaiting' = Awaiting /\ Awaiting \subseteq Runs
  BY <1>1 DEF Awaiting
<1>12. /\ at'[r] = next /\ outcome'[r] = out
       /\ \A q \in Runs : q # r => at'[q] = at[q] /\ outcome'[q] = outcome[q]
  BY <1>1 DEF RunTypes
<1>13. RunInv'
  <2>1. ASSUME NEW q \in Awaiting
        PROVE  /\ ticket'[q] <= newest' /\ at'[q] \in 1..Len(doc'[q])
               /\ answer'[q].call \in 0..Len(calls')
               /\ answer'[q].call # 0 => answer'[q].made = Unknown
    <3>1. CASE q = r
      <4>1. at'[q] \in 1..Len(doc'[q])
        BY <1>1, <1>4, <1>12, <3>1 DEF d
      <4> QED
        BY <1>1, <1>9, <3>1, <4>1 DEF RunInv
    <3>2. CASE q # r
      <4>1. answer[q].call \in 0..Len(calls) /\ Len(calls) \in Nat
        BY DEF RunInv, CoreInv, CoreTypes
      <4>2. answer'[q] = answer[q] /\ at'[q] = at[q]
        BY <1>9, <1>11, <1>12, <3>2
      <4> QED
        BY <1>1, <1>9, <4>1, <4>2 DEF RunInv
    <3> QED
      BY <3>1, <3>2
  <2>2. \A q, s \in Awaiting' : ticket'[q] = ticket'[s] => q = s
    BY <1>1, <1>11 DEF RunInv
  <2>3. ASSUME NEW q \in Runs, pc'[q] = "unused"
        PROVE  outcome'[q] = Unreplayed
    <3>1. q # r
      BY <1>1, <2>3 DEF Awaiting
    <3> QED
      BY <1>1, <1>12, <2>3, <3>1 DEF RunInv
  <2> QED
    BY <1>11, <2>1, <2>2, <2>3 DEF RunInv
<1>14. LiveInvs'
  <2>1. \A q \in Runs : Live(q)' => q = r
    BY <1>1, <1>11 DEF Live, Current, Awaiting, RunInv
  <2>2. LiveInv(r)'
    <3>1. doc'[r][at'[r]] = p
      BY <1>1, <1>12 DEF p, d
    <3>2. \A n \in Asked' : calls'[n].fate = "asked"
      BY DEF Asked
    <3> QED
      BY <1>1, <1>2, <1>8, <1>9, <1>12, <3>1, <3>2 DEF LiveInv
  <2> QED
    BY <2>1, <2>2 DEF LiveInvs
<1>15. WaitInv'
  <2> SUFFICES ASSUME NEW n \in Asked', calls'[n].epoch = epoch'
               PROVE  \E q \in Awaiting' : answer'[q].call = n
    BY DEF WaitInv
  <2>1. CASE n = answer'[r].call
    BY <1>1, <1>11, <2>1
  <2>2. CASE n \in Asked
    <3>1. calls'[n] = calls[n]
      BY <1>9, <2>2 DEF Asked
    <3>2. PICK q \in Awaiting : answer[q].call = n
      BY <1>1, <2>2, <3>1 DEF WaitInv
    <3>3. q # r
      BY <1>1, <2>2, <3>2, NumberedStates DEF Settled, Asked, CoreInv, CoreTypes
    <3> QED
      BY <1>9, <1>11, <3>2, <3>3
  <2> QED
    BY <1>9, <2>1, <2>2
<1>16. CountInv'
  BY <1>1, <1>11 DEF CountInv
<1>17. TrimInv'
  BY <1>1, <1>8 DEF TrimInv
<1> QED
  BY <1>7, <1>10, <1>13, <1>14, <1>15, <1>16, <1>17

(* The engine's answers.                                                   *)

\* A call under way is of this epoch when it can be answered; settling it leaves the
\* others and the table as they were.
LEMMA SettledCall ==
  ASSUME CoreInv, NEW n \in Asked, NEW new \in CallType, calls' = [calls EXCEPT ![n] = new],
         new.fate \in {"answered", "failed"}, new.path = calls[n].path,
         new.epoch = calls[n].epoch, new.from = calls[n].from,
         inFlight' = InFlightWithout(n), UNCHANGED epoch
  PROVE  /\ calls' \in Seq(CallType) /\ Len(calls') = Len(calls) /\ DOMAIN calls' = DOMAIN calls
         /\ calls'[n] = new /\ \A m \in DOMAIN calls : m # n => calls'[m] = calls[m]
         /\ Asked' = Asked \ {n}
         /\ inFlight' \in [Paths -> Nat]
         /\ \A p \in Paths : inFlight'[p] \in {0, inFlight[p]} /\ inFlight'[p] # n
<1> USE DEF CoreInv, CoreTypes
<1>1. n \in DOMAIN calls /\ n \in Nat /\ n # 0 /\ calls[n] \in CallType /\ calls[n].path \in Paths
  <2>1. n \in DOMAIN calls /\ n \in Nat /\ n # 0 /\ calls[n] \in CallType
    BY DEF Asked
  <2> QED
    BY <2>1 DEF CallType
<1>2. /\ calls' \in Seq(CallType) /\ Len(calls') = Len(calls) /\ DOMAIN calls' = DOMAIN calls
      /\ calls'[n] = new /\ \A m \in DOMAIN calls : m # n => calls'[m] = calls[m]
  BY <1>1
<1>3. Asked' = Asked \ {n}
  BY <1>1, <1>2 DEF Asked
<1>4. inFlight' \in [Paths -> Nat]
  BY DEF InFlightWithout
<1>5. ASSUME NEW p \in Paths
      PROVE  inFlight'[p] \in {0, inFlight[p]} /\ inFlight'[p] # n
  <2>1. CASE calls[n].epoch = epoch /\ p = calls[n].path
    BY <1>1, <2>1 DEF InFlightWithout
  <2>2. CASE ~ (calls[n].epoch = epoch /\ p = calls[n].path)
    <3>1. inFlight'[p] = inFlight[p]
      BY <1>1, <2>2 DEF InFlightWithout
    <3>2. inFlight[p] # n
      BY <1>1, <2>2 DEF TableInv
    <3> QED
      BY <3>1, <3>2
  <2> QED
    BY <2>1, <2>2
<1> QED
  BY <1>2, <1>3, <1>4, <1>5

LEMMA SettledTable ==
  ASSUME CoreInv, NEW n \in Asked, NEW new \in CallType, calls' = [calls EXCEPT ![n] = new],
         new.fate \in {"answered", "failed"}, new.path = calls[n].path,
         new.epoch = calls[n].epoch, new.from = calls[n].from,
         inFlight' = InFlightWithout(n), UNCHANGED epoch,
         \A p \in Cached(cache)' :
           p \in Cached(cache) \/ (p = calls[n].path /\ calls[n].epoch = epoch)
  PROVE  TableInv'
<1> USE DEF CoreInv
<1>1. /\ DOMAIN calls' = DOMAIN calls
      /\ calls'[n] = new /\ \A m \in DOMAIN calls : m # n => calls'[m] = calls[m]
      /\ Asked' = Asked \ {n}
      /\ \A p \in Paths : inFlight'[p] \in {0, inFlight[p]} /\ inFlight'[p] # n
  BY SettledCall
<1>2. inFlight \in [Paths -> Nat] /\ \A m \in DOMAIN calls : m # 0 /\ calls[m].path \in Paths
  <2>1. inFlight \in [Paths -> Nat] /\ \A m \in DOMAIN calls : m # 0 /\ calls[m] \in CallType
    BY DEF CoreTypes
  <2> QED
    BY <2>1 DEF CallType
<1>3. ASSUME NEW p \in Paths, inFlight'[p] # 0
      PROVE  /\ inFlight'[p] \in Asked' /\ p \notin Cached(cache)'
             /\ calls'[inFlight'[p]].path = p /\ calls'[inFlight'[p]].epoch = epoch'
  <2>1. inFlight'[p] = inFlight[p] /\ inFlight[p] \in Asked /\ inFlight[p] # n
    BY <1>1, <1>3 DEF TableInv
  <2>2. calls'[inFlight[p]] = calls[inFlight[p]]
    BY <1>1, <2>1 DEF Asked
  <2>3. ~ (p = calls[n].path /\ calls[n].epoch = epoch)
    BY <2>1 DEF TableInv
  <2> QED
    BY <1>1, <1>3, <2>1, <2>2, <2>3 DEF TableInv
<1>4. ASSUME NEW m \in Asked', calls'[m].epoch = epoch'
      PROVE  inFlight'[calls'[m].path] = m
  <2>1. m \in Asked /\ m # n /\ calls'[m] = calls[m] /\ calls[m].path \in Paths
    BY <1>1, <1>2 DEF Asked
  <2>2. inFlight[calls[m].path] = m
    BY <1>4, <2>1 DEF TableInv
  <2>3. calls[n].epoch = epoch => calls[m].path # calls[n].path
    BY <2>1, <2>2 DEF TableInv
  <2>4. inFlight'[calls[m].path] = inFlight[calls[m].path]
    BY <1>2, <2>1, <2>3 DEF InFlightWithout
  <2> QED
    BY <2>1, <2>2, <2>4
<1>5. \A m \in DOMAIN calls' : calls'[m].epoch <= epoch'
  BY <1>1 DEF TableInv
<1> QED
  BY <1>3, <1>4, <1>5 DEF TableInv

LEMMA RejectKeeps ==
  ASSUME Inv, NEW n \in DOMAIN calls, Reject(n)
  PROVE  Inv'
<1> USE DEF Inv
<1> DEFINE new == [calls[n] EXCEPT !.fate = "failed"]
<1>1. /\ n \in Asked /\ calls' = [calls EXCEPT ![n] = new] /\ inFlight' = InFlightWithout(n)
      /\ UNCHANGED <<cache, pinned, epoch, newest, running, held>>
      /\ UNCHANGED <<pc, ticket, doc, at, answer, outcome>>
  BY DEF Reject, run
<1>2. calls[n] \in CallType /\ CoreInv
  BY DEF CoreInv, CoreTypes
<1>3. /\ new \in CallType /\ new.fate = "failed" /\ new.path = calls[n].path
      /\ new.epoch = calls[n].epoch /\ new.from = calls[n].from
  BY <1>2 DEF CallType
<1> HIDE DEF new
<1>4. /\ calls' \in Seq(CallType) /\ Len(calls') = Len(calls) /\ DOMAIN calls' = DOMAIN calls
      /\ calls'[n] = new /\ \A m \in DOMAIN calls : m # n => calls'[m] = calls[m]
      /\ Asked' = Asked \ {n}
      /\ inFlight' \in [Paths -> Nat]
      /\ \A p \in Paths : inFlight'[p] \in {0, inFlight[p]} /\ inFlight'[p] # n
  BY <1>1, <1>2, <1>3, SettledCall
<1>5. TableInv'
  <2>1. Cached(cache)' = Cached(cache)
    BY <1>1
  <2> QED
    BY <1>1, <1>2, <1>3, <2>1, SettledTable
<1>6. CoreTypes'
  BY <1>1, <1>4 DEF CoreInv, CoreTypes
<1>7. calls[n].fate = "asked"
  BY <1>1 DEF Asked
<1>8. CacheInv'
  BY <1>1, <1>4, <1>7 DEF CoreInv, CacheInv, OnePerPath, Entries
<1>9. FromInv'
  <2>1. \A m \in Asked' : m \in Asked /\ calls'[m] = calls[m]
    BY <1>4 DEF Asked
  <2>2. ASSUME NEW m \in DOMAIN calls', calls'[m].from \in States
        PROVE  calls'[m].from \in DOMAIN calls' /\ calls'[calls'[m].from].fate = "answered"
    <3>1. calls'[m].from = calls[m].from
      BY <1>3, <1>4
    <3>2. calls[m].from \in DOMAIN calls /\ calls[calls[m].from].fate = "answered"
      BY <1>4, <2>2, <3>1 DEF CoreInv, FromInv
    <3> QED
      BY <1>4, <1>7, <3>1, <3>2
  <2> QED
    BY <1>1, <2>1, <2>2 DEF CoreInv, FromInv
<1>10. HeldIsCached'
  BY <1>1 DEF CoreInv, HeldIsCached
<1>11. RunTypes' /\ RunInv' /\ CountInv' /\ TrimInv' /\ Awaiting' = Awaiting
  BY <1>1, <1>4 DEF RunTypes, RunInv, CountInv, TrimInv, Awaiting
<1>12. LiveInvs'
  <2> SUFFICES ASSUME NEW q \in Runs, Live(q)'
               PROVE  LiveInv(q)'
    BY DEF LiveInvs
  <2> DEFINE m == answer[q].call
             p == doc[q][at[q]]
  <2>1. LiveInv(q) /\ q \in Awaiting
    BY <1>1 DEF LiveInvs, Live, Current, Awaiting
  <2>2. m = 0 \/ m \in DOMAIN calls
    BY <2>1 DEF RunInv, CoreInv, CoreTypes
  <2>3. p \in Paths
    BY <2>1 DEF RunInv, RunTypes, Awaiting
  <2>4. ASSUME m # 0
        PROVE  /\ calls'[m].path = p /\ calls'[m].epoch = epoch'
               /\ calls'[m].fate = "answered" => Entry(p, calls'[m].made) \in Entries'
               /\ m \notin Asked' => inFlight'[p] = 0
    <3>1. calls[m].path = p /\ calls[m].epoch = epoch /\ (m \notin Asked => inFlight[p] = 0)
      BY <2>1, <2>4 DEF LiveInv
    <3>2. CASE m = n
      <4>1. inFlight'[p] = 0
        BY <1>1, <2>3, <3>1, <3>2 DEF InFlightWithout, CoreInv, CoreTypes
      <4> QED
        BY <1>1, <1>3, <1>4, <3>1, <3>2, <4>1
    <3>3. CASE m # n
      <4>1. calls'[m] = calls[m]
        BY <1>4, <2>2, <2>4, <3>3
      <4> QED
        BY <1>1, <1>4, <2>1, <2>3, <2>4, <3>1, <3>3, <4>1 DEF LiveInv, Entries
    <3> QED
      BY <3>2, <3>3
  <2> QED
    BY <1>1, <2>1, <2>4 DEF LiveInv, Entries
<1>13. WaitInv'
  BY <1>1, <1>4, <1>11 DEF WaitInv, Asked
<1> QED
  BY <1>5, <1>6, <1>8, <1>9, <1>10, <1>11, <1>12, <1>13 DEF CoreInv

LEMMA AnswerKeeps ==
  ASSUME Inv, NEW n \in DOMAIN calls, Answer(n)
  PROVE  Inv'
<1> USE DEF Inv
<1> DEFINE p == calls[n].path
           landed == IF p \in Refused THEN RefusedOutcome ELSE n
           new == [calls[n] EXCEPT !.fate = "answered", !.made = landed]
<1>1. /\ n \in Asked /\ calls[n].from \in held \cup {0} /\ inFlight' = InFlightWithout(n)
      /\ calls' = [calls EXCEPT ![n].fate = "answered", ![n].made = landed]
      /\ calls[n].epoch = epoch =>
           /\ cache' = Append(Without(cache, {p}), Entry(p, landed))
           /\ held' = (held \ StatesOf(cache, {p})) \cup ({landed} \cap States)
      /\ UNCHANGED <<pinned, epoch, newest, running>>
      /\ UNCHANGED <<pc, ticket, doc, at, answer, outcome>>
  BY DEF Answer, run, Entry
<1>2. calls[n] \in CallType /\ CoreInv /\ calls \in Seq(CallType)
  BY DEF CoreInv, CoreTypes
\* Its epoch has not ended, or the engine would not know what it folds from.
<1>3. calls[n].epoch = epoch
  BY <1>1 DEF CoreInv, FromInv
<1>4. n \in States /\ landed \in Outcomes /\ landed # Unknown /\ p \in Paths
      /\ (landed \in States => landed = n)
  <2>1. n \in 1..Len(calls) /\ Len(calls) <= MaxCalls /\ Len(calls) \in Nat
    BY DEF CoreInv, CoreTypes
  <2>2. n \in States /\ n # Unknown
    BY <2>1, BoundsAssumption DEF States, Unknown
  <2> QED
    BY <1>2, <2>2, NumberedStates DEF Outcomes, CallType, RefusedOutcome, Unknown
<1> HIDE DEF landed
<1>5. /\ calls' = [calls EXCEPT ![n] = new] /\ new.made = landed
      /\ new \in CallType /\ new.fate = "answered" /\ new.path = calls[n].path
      /\ new.epoch = calls[n].epoch /\ new.from = calls[n].from
  <2>1. calls' = [calls EXCEPT ![n] = new]
    BY <1>1, <1>2
  <2> QED
    BY <1>2, <1>4, <2>1 DEF CallType
<1> HIDE DEF new
<1>6. /\ calls' \in Seq(CallType) /\ Len(calls') = Len(calls) /\ DOMAIN calls' = DOMAIN calls
      /\ calls'[n] = new /\ \A m \in DOMAIN calls : m # n => calls'[m] = calls[m]
      /\ Asked' = Asked \ {n}
      /\ inFlight' \in [Paths -> Nat]
      /\ \A q \in Paths : inFlight'[q] \in {0, inFlight[q]} /\ inFlight'[q] # n
  BY <1>1, <1>2, <1>5, SettledCall
<1>7. calls[n].fate = "asked" /\ inFlight[p] = n /\ n # 0 /\ p \notin Cached(cache)
  BY <1>1, <1>3, <1>4 DEF Asked, CoreInv, TableInv, CoreTypes
<1>8. \A e \in Entries : e.path # p
  BY <1>7, CachedAre DEF Entries
<1>9. /\ cache' \in Seq(EntryType) /\ Entries' = Entries \cup {Entry(p, landed)}
  <2> DEFINE w == Without(cache, {p})
             x == Entry(p, landed)
  <2>1. w \in Seq(EntryType) /\ ToSet(w) = Entries
    <3>1. w \in Seq(EntryType) /\ ToSet(w) = {e \in Entries : e.path \notin {p}}
      BY WithoutKeeps DEF CoreInv, CoreTypes, Entries
    <3> QED
      BY <1>8, <3>1
  <2>2. x \in EntryType
    BY <1>4 DEF Entry, EntryType
  <2>3. cache' = Append(w, x)
    BY <1>1, <1>3
  <2> HIDE DEF w, x
  <2>4. Append(w, x) \in Seq(EntryType) /\ ToSet(Append(w, x)) = ToSet(w) \cup {x}
    BY <2>1, <2>2, AppendToSet
  <2> QED
    BY <2>1, <2>3, <2>4 DEF Entries, x
<1>10. Entry(p, landed).path = p /\ Entry(p, landed).made = landed
  BY DEF Entry
<1>11. Cached(cache)' = Cached(cache) \cup {p}
  BY <1>9, <1>10, CachedAre DEF Entries
<1>12. TableInv'
  BY <1>1, <1>2, <1>3, <1>5, <1>11, SettledTable
<1>13. CacheInv'
  <2>1. OnePerPath(cache)'
    BY <1>8, <1>9, <1>10 DEF CoreInv, CacheInv, OnePerPath, Entries
  <2>2. ASSUME NEW e \in Entries', e.made \in States
        PROVE  /\ e.made \in DOMAIN calls'
               /\ calls'[e.made].path = e.path /\ calls'[e.made].fate = "answered"
    <3>1. CASE e = Entry(p, landed)
      BY <1>4, <1>5, <1>6, <1>10, <2>2, <3>1
    <3>2. CASE e \in Entries
      BY <1>6, <1>7, <2>2, <3>2 DEF CoreInv, CacheInv
    <3> QED
      BY <1>9, <3>1, <3>2
  <2> QED
    BY <2>1, <2>2 DEF CacheInv
<1>14. HeldIsCached'
  <2>0. OnePerPath(cache) /\ OnePerPath(cache') /\ cache \in Seq(EntryType)
    BY <1>13 DEF CoreInv, CacheInv, CoreTypes
  <2>1. StatesOf(cache, {p}) = {}
    <3>1. StatesOf(cache, {p}) = {e.made : e \in {f \in Entries : f.path \in {p}}} \cap States
      BY <2>0, StatesAre DEF Entries
    <3> QED
      BY <1>8, <3>1
  <2>2. StatesOf(cache, Paths) = {e.made : e \in {f \in Entries : f.path \in Paths}} \cap States
    BY <2>0, StatesAre DEF Entries
  <2>3. StatesOf(cache', Paths) = {e.made : e \in {f \in Entries' : f.path \in Paths}} \cap States
    BY <1>9, <2>0, StatesAre DEF Entries
  <2>4. StatesOf(cache', Paths) = StatesOf(cache, Paths) \cup ({landed} \cap States)
    BY <1>4, <1>9, <1>10, <2>2, <2>3
  <2> QED
    BY <1>1, <1>3, <2>1, <2>4 DEF CoreInv, HeldIsCached
<1>15. CoreTypes'
  <2>1. held' \in SUBSET States
    BY <1>1, <1>3 DEF CoreInv, CoreTypes
  <2> QED
    BY <1>1, <1>6, <1>9, <2>1 DEF CoreInv, CoreTypes
<1>16. FromInv'
  <2>1. \A m \in DOMAIN calls : calls[m].from # n
    BY <1>4, <1>7 DEF CoreInv, FromInv
  <2>2. \A m \in Asked' : m \in Asked /\ calls'[m] = calls[m]
    BY <1>6 DEF Asked
  <2>3. held' \subseteq held \cup {n}
    BY <1>1, <1>3, <1>4
  <2>4. ASSUME NEW m \in DOMAIN calls', calls'[m].from \in States
        PROVE  calls'[m].from \in DOMAIN calls' /\ calls'[calls'[m].from].fate = "answered"
    <3>1. calls'[m].from = calls[m].from
      BY <1>5, <1>6
    <3>2. calls[m].from \in DOMAIN calls /\ calls[calls[m].from].fate = "answered"
      BY <1>6, <2>4, <3>1 DEF CoreInv, FromInv
    <3> QED
      BY <1>6, <1>7, <3>1, <3>2
  <2>5. \A m \in Asked' : m \in DOMAIN calls
    BY <2>2 DEF Asked
  <2> QED
    BY <1>1, <2>1, <2>2, <2>3, <2>4, <2>5 DEF CoreInv, FromInv
<1>17. RunTypes' /\ RunInv' /\ CountInv' /\ Awaiting' = Awaiting
  BY <1>1, <1>6 DEF RunTypes, RunInv, CountInv, Awaiting
<1>18. LiveInvs'
  <2> SUFFICES ASSUME NEW q \in Runs, Live(q)'
               PROVE  LiveInv(q)'
    BY DEF LiveInvs
  <2> DEFINE m == answer[q].call
             x == doc[q][at[q]]
  <2>1. LiveInv(q) /\ q \in Awaiting
    BY <1>1 DEF LiveInvs, Live, Current, Awaiting
  <2>2. m = 0 \/ m \in DOMAIN calls
    BY <2>1 DEF RunInv, CoreInv, CoreTypes
  <2>3. x \in Paths
    BY <2>1 DEF RunInv, RunTypes, Awaiting
  <2>4. ASSUME m # 0
        PROVE  /\ calls'[m].path = x /\ calls'[m].epoch = epoch'
               /\ calls'[m].fate = "answered" => Entry(x, calls'[m].made) \in Entries'
               /\ m \notin Asked' => inFlight'[x] = 0
    <3>1. calls[m].path = x /\ calls[m].epoch = epoch /\ (m \notin Asked => inFlight[x] = 0)
      BY <2>1, <2>4 DEF LiveInv
    <3>2. CASE m = n
      <4>1. inFlight'[x] = 0
        BY <1>1, <2>3, <3>1, <3>2 DEF InFlightWithout, CoreInv, CoreTypes
      <4> QED
        BY <1>1, <1>5, <1>6, <1>9, <3>1, <3>2, <4>1
    <3>3. CASE m # n
      <4>1. calls'[m] = calls[m]
        BY <1>6, <2>2, <2>4, <3>3
      <4> QED
        <5>1. calls[m].fate = "answered" => Entry(x, calls[m].made) \in Entries
          BY <2>1, <2>4 DEF LiveInv
        <5>2. m \notin Asked' => m \notin Asked
          BY <1>6, <3>3
        <5>3. inFlight[x] = 0 => inFlight'[x] = 0
          BY <1>6, <2>3
        <5> QED
          BY <1>1, <1>9, <3>1, <4>1, <5>1, <5>2, <5>3
    <3> QED
      BY <3>2, <3>3
  <2> QED
    BY <1>1, <1>9, <2>1, <2>4 DEF LiveInv
<1>19. WaitInv'
  BY <1>1, <1>6, <1>17 DEF WaitInv, Asked
<1>20. TrimInv'
  <2>1. PICK q \in Awaiting : answer[q].call = n
    BY <1>1, <1>3 DEF WaitInv
  <2>2. running # 0
    BY <2>1, FS_EmptySet DEF CountInv
  <2> QED
    BY <1>1, <1>11, <2>2 DEF TrimInv
<1> QED
  BY <1>12, <1>13, <1>14, <1>15, <1>16, <1>17, <1>18, <1>19, <1>20 DEF CoreInv

(* The theorems.                                                           *)

LEMMA NextKeeps ==
  ASSUME Inv, Next
  PROVE  Inv'
<1>1. ASSUME NEW r \in Runs, NEW d \in Documents, Start(r, d)
      PROVE  Inv'
  BY <1>1, StartKeeps
<1>2. ASSUME NEW r \in Runs, Supersede(r)
      PROVE  Inv'
  BY <1>2, SupersedeKeeps
<1>3. ASSUME NEW r \in Runs, RunFails(r)
      PROVE  Inv'
  BY <1>3, RunFailsKeeps
<1>4. ASSUME NEW r \in Runs, Advance(r)
      PROVE  Inv'
  BY <1>4, AdvanceKeeps
<1>5. ASSUME NEW r \in Runs, Finish(r)
      PROVE  Inv'
  BY <1>5, FinishKeeps
<1>6. ASSUME NEW n \in DOMAIN calls, Answer(n)
      PROVE  Inv'
  BY <1>6, AnswerKeeps
<1>7. ASSUME NEW n \in DOMAIN calls, Reject(n)
      PROVE  Inv'
  BY <1>7, RejectKeeps
<1> QED
  BY <1>1, <1>2, <1>3, <1>4, <1>5, <1>6, <1>7, CancelKeeps, EngineLostKeeps DEF Next

LEMMA StutterKeeps ==
  ASSUME Inv, UNCHANGED vars
  PROVE  Inv'
<1>1. UNCHANGED <<cache, pinned, inFlight, epoch, newest, running, calls, held,
                  pc, ticket, doc, at, answer, outcome>>
  BY DEF vars, replayer, run
<1>2. CoreInv'
  BY <1>1 DEF Inv, CoreInv, CoreTypes, CacheInv, TableInv, FromInv, HeldIsCached, Entries, Asked
<1>3. RunTypes' /\ RunInv' /\ CountInv' /\ TrimInv'
  BY <1>1 DEF Inv, RunTypes, RunInv, CountInv, TrimInv, Awaiting
<1>4. LiveInvs' /\ WaitInv'
  BY <1>1 DEF Inv, LiveInvs, LiveInv, Live, Current, WaitInv, Asked, Awaiting, Entries
<1> QED
  BY <1>2, <1>3, <1>4 DEF Inv

LEMMA InitInv ==
  ASSUME Init
  PROVE  Inv
<1> USE DEF Init
<1>1. Entries = {} /\ Cached(cache) = {} /\ DOMAIN calls = {} /\ Asked = {}
  BY DEF Entries, ToSet, Cached, Asked
<1>2. CoreTypes
  BY BoundsAssumption DEF CoreTypes
<1>3. HeldIsCached
  BY <1>1 DEF HeldIsCached, StatesOf
<1>4. CoreInv
  BY <1>1, <1>2, <1>3 DEF CoreInv, CacheInv, TableInv, FromInv, OnePerPath, Entries
<1>5. Awaiting = {}
  BY DEF Awaiting
<1>6. RunTypes
  <2>1. NoAnswer \in [call : Nat, made : Outcomes] /\ Unreplayed \in [Paths -> Outcomes]
    BY DEF NoAnswer, Unreplayed, Outcomes
  <2>2. <<>> \in Seq(Paths)
    OBVIOUS
  <2>3. doc \in [Runs -> Seq(Paths)]
    BY <2>2
  <2>4. answer \in [Runs -> [call : Nat, made : Outcomes]] /\ outcome \in [Runs -> [Paths -> Outcomes]]
    BY <2>1
  <2> QED
    BY <2>3, <2>4 DEF RunTypes
<1>7. RunInv /\ LiveInvs /\ WaitInv
  BY <1>1, <1>5 DEF RunInv, LiveInvs, Live, WaitInv, Awaiting
<1>8. CountInv
  BY <1>5, FS_EmptySet DEF CountInv
<1>9. TrimInv
  <2>1. Cached(cache) \ pinned = {}
    BY <1>1
  <2> QED
    BY <2>1, FS_EmptySet, BoundsAssumption DEF TrimInv
<1> QED
  BY <1>4, <1>6, <1>7, <1>8, <1>9 DEF Inv

\* The cache, the calls under way, the runs awaiting an answer and the pins agree with each
\* other after every step of every run, cancel, clear and loss (foldReplay.ts): the invariant
\* the four properties of the replay follow from.
THEOREM ReplayInvariant == Spec => []Inv
<1>1. Init => Inv
  BY InitInv
<1>2. Inv /\ [Next]_vars => Inv'
  BY NextKeeps, StutterKeeps
<1> QED
  BY <1>1, <1>2, PTL DEF Spec

\* HeldIsCached: whatever is evicted, replaced, forgotten or lost, the engine holds the
\* states in the cache and no other.
THEOREM HeldIsCachedHolds == Spec => []HeldIsCached
<1>1. Inv => HeldIsCached
  BY DEF Inv, CoreInv
<1> QED
  BY <1>1, ReplayInvariant, PTL

\* RunsHoldTheirStates: no trim, clear or loss of the engine takes a state from under the
\* run that is current.
THEOREM RunsHoldTheirStatesHolds == Spec => []RunsHoldTheirStates
<1>1. Inv => RunsHoldTheirStates
  <2> SUFFICES ASSUME Inv, NEW r \in Runs, Live(r)
               PROVE  ({outcome[r][p] : p \in Paths} \cup {answer[r].made}) \cap States \subseteq held
    BY DEF RunsHoldTheirStates, Live
  <2>1. r \in Awaiting /\ LiveInv(r)
    BY DEF Live, Awaiting, Inv, LiveInvs
  <2>2. cache \in Seq(EntryType) /\ OnePerPath(cache)
    BY DEF Inv, CoreInv, CoreTypes, CacheInv
  <2>3. held = {e.made : e \in {f \in Entries : f.path \in Paths}} \cap States
    BY <2>2, StatesAre DEF Inv, CoreInv, HeldIsCached, Entries
  <2>4. \A p, o : Entry(p, o).path = p /\ Entry(p, o).made = o
    BY DEF Entry
  <2>5. ASSUME NEW p \in Paths, outcome[r][p] \in States
        PROVE  outcome[r][p] \in held
    <3>1. Entry(p, outcome[r][p]) \in Entries
      BY <2>1, <2>5, NumberedStates DEF LiveInv
    <3> QED
      BY <2>3, <2>4, <2>5, <3>1
  <2>6. ASSUME answer[r].made \in States
        PROVE  answer[r].made \in held
    <3>1. answer[r].call = 0
      BY <2>1, <2>6, NumberedStates DEF Inv, RunInv
    <3>2. Entry(doc[r][at[r]], answer[r].made) \in Entries
      BY <2>1, <3>1 DEF LiveInv
    <3>3. doc[r][at[r]] \in Paths
      BY <2>1 DEF Inv, RunInv, RunTypes
    <3> QED
      BY <2>3, <2>4, <2>6, <3>2, <3>3
  <2> QED
    BY <2>5, <2>6
<1> QED
  BY <1>1, ReplayInvariant, PTL

\* CacheBounded: what the newest finished run touched stays cached, and between runs there
\* are no more states than the capacity besides, for any capacity and any document.
THEOREM CacheBoundedHolds == Spec => []CacheBounded
<1>1. Inv => CacheBounded
  BY DEF Inv, TrimInv, CacheBounded
<1> QED
  BY <1>1, ReplayInvariant, PTL

\* AskedOnce: however runs overlap, a path cached or under way is not asked for again.
THEOREM AskedOnceHolds == Spec => []AskedOnce
<1>1. Inv => AskedOnce
  <2> SUFFICES ASSUME Inv, NEW n \in Asked, calls[n].epoch = epoch
               PROVE  /\ calls[n].path \notin Cached(cache)
                      /\ \A m \in Asked \ {n} : calls[m].epoch = epoch => calls[m].path # calls[n].path
    BY DEF AskedOnce
  <2>1. inFlight[calls[n].path] = n
    BY DEF Inv, CoreInv, TableInv
  <2>2. calls[n] \in CallType /\ n # 0
    BY DEF Inv, CoreInv, CoreTypes, Asked
  <2>3. calls[n].path \in Paths
    BY <2>2 DEF CallType
  <2>4. calls[n].path \notin Cached(cache)
    BY <2>1, <2>2, <2>3 DEF Inv, CoreInv, TableInv
  <2>5. \A m \in Asked : calls[m].epoch = epoch => inFlight[calls[m].path] = m
    BY DEF Inv, CoreInv, TableInv
  <2> QED
    BY <2>1, <2>4, <2>5
<1> QED
  BY <1>1, ReplayInvariant, PTL
=============================================================================
