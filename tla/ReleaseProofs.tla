----------------------------- MODULE ReleaseProofs -----------------------------
(***************************************************************************)
(* Theorems about the release scripts, for any number of packages, any     *)
(* dependencies between them and any number of jobs and lookups.           *)
(*                                                                         *)
(* The traversal is a recursive function.  Its recursion goes down in Rank:*)
(* an entered package is on the path, a listed one leaves the list.  So the*)
(* function exists (VisitEquation), and what holds of a visit if it holds  *)
(* of the lower ones holds of all (a visit of least rank would be the      *)
(* exception).  Least elements stand in for induction throughout.          *)
(***************************************************************************)
EXTENDS MCRelease, FiniteSetTheorems, SequenceTheorems, WellFoundedInduction,
        TLAPS

LEMMA LeastNat ==
  ASSUME NEW S \in SUBSET Nat, S # {}
  PROVE  \E m \in S : \A k \in S : m <= k
  <1>1. PICK m \in S : \A k \in S : <<k, m>> \notin OpToRel(<, Nat)
    BY WFMin, NatLessThanWellFounded
  <1>2. \A k \in Nat : k < m => <<k, m>> \in OpToRel(<, Nat)
    BY DEF OpToRel
  <1>3. \A k \in S : k \in Nat /\ m \in Nat /\ ~(k < m)
    BY <1>1, <1>2
  <1> QED
    BY <1>3

-----------------------------------------------------------------------------
(***************************************************************************)
(* The recursion of the traversal ends.                                    *)
(***************************************************************************)
DepsOK == deps \in [Packages -> Listings]

Rank(at) ==
    Cardinality(Packages \ at.path) * (N + 1) + Len(at.dirs)

LEMMA PackageSets ==
  /\ N \in Nat
  /\ \A S \in SUBSET Packages : /\ IsFiniteSet(S)
                                /\ Cardinality(S) \in 0..N
                                /\ S \subseteq Nat
  <1>1. N \in Nat
    BY PublishAssumption
  <1>2. IsFiniteSet(Packages) /\ Cardinality(Packages) = N
    BY <1>1, FS_Interval, PublishAssumption DEF Packages
  <1>3. ASSUME NEW S \in SUBSET Packages
        PROVE  IsFiniteSet(S) /\ Cardinality(S) \in 0..N
    <2>1. IsFiniteSet(S) /\ Cardinality(S) <= N
      BY <1>2, FS_Subset
    <2> QED
      BY <1>1, <2>1, FS_CardinalityType
  <1> QED
    BY <1>1, <1>3 DEF Packages

LEMMA ListingIsSequence ==
  ASSUME NEW s \in Listings
  PROVE  /\ s \in Seq(Packages) /\ Len(s) \in 0..N
         /\ s = <<>> => ToSet(s) = {}
         /\ s # <<>> => /\ Head(s) \in Packages /\ Tail(s) \in Listings
                        /\ Len(Tail(s)) = Len(s) - 1
                        /\ ToSet(s) \subseteq ToSet(Tail(s)) \cup {Head(s)}
  <1>1. PICK n \in 0..N : s \in [1..n -> Packages]
    BY DEF Listings
  <1>2. N \in Nat /\ s \in Seq(Packages) /\ Len(s) = n
    BY <1>1, PackageSets
  <1>3. CASE s = <<>>
    BY <1>1, <1>2, <1>3 DEF ToSet
  <1>4. CASE s # <<>>
    <2> DEFINE tail == Tail(s)
    <2>1. /\ n >= 1 /\ Head(s) = s[1] /\ s[1] \in Packages
      BY <1>1, <1>2, <1>4, EmptySeq, LenProperties
    <2>2. /\ tail \in Seq(Packages) /\ Len(tail) = n - 1
          /\ \A i \in 1..Len(tail) : tail[i] = s[i + 1]
      BY <1>2, <1>4, HeadTailProperties
    <2> HIDE DEF tail
    <2>3. tail \in [1..(n - 1) -> Packages] /\ n - 1 \in 0..N
      BY <1>1, <1>2, <2>1, <2>2, LenProperties
    <2>4. tail \in Listings
      BY <2>3 DEF Listings
    <2>5. \A i \in 1..n : i = 1 \/ (i - 1 \in 1..Len(tail) /\ tail[i - 1] = s[i])
      BY <1>1, <1>2, <2>2
    <2>6. \A i \in 1..n : s[i] = s[1] \/ s[i] \in ToSet(tail)
      BY <2>5 DEF ToSet
    <2>7. ToSet(s) \subseteq ToSet(tail) \cup {Head(s)}
      BY <1>2, <2>1, <2>6 DEF ToSet
    <2> QED
      BY <1>1, <1>2, <1>4, <2>1, <2>2, <2>4, <2>7 DEF tail
  <1> QED
    BY <1>3, <1>4

LEMMA RankIsNat ==
  ASSUME NEW at \in Visits
  PROVE  Rank(at) \in 0..(N * (N + 1) + N)
  <1> DEFINE c == Cardinality(Packages \ at.path)
             d == Len(at.dirs)
  <1>1. N \in Nat /\ c \in 0..N /\ d \in 0..N
    BY PackageSets, ListingIsSequence DEF Visits
  <1> HIDE DEF c, d
  <1>2. c * (N + 1) <= N * (N + 1) /\ c * (N + 1) \in Nat
    BY <1>1
  <1> QED
    BY <1>1, <1>2 DEF Rank, c, d

LEMMA RankFalls ==
  ASSUME DepsOK, NEW at \in Visits, at.dirs # <<>>
  PROVE  LET p == Head(at.dirs) IN
         /\ p \in Packages
         /\ \A plan \in Plans :
              LET rest == [at EXCEPT !.dirs = Tail(@), !.plan = plan] IN
              rest \in Visits /\ Rank(rest) < Rank(at)
         /\ Enter(at, p) \in Visits
         /\ p \notin at.path => Rank(Enter(at, p)) < Rank(at)
  <1> DEFINE p == Head(at.dirs)
             tail == Tail(at.dirs)
             c == Cardinality(Packages \ at.path)
             d == Len(at.dirs)
  <1>1. p \in Packages /\ tail \in Listings /\ Len(tail) = d - 1
    BY ListingIsSequence DEF Visits
  <1> HIDE DEF p, tail
  <1>2. N \in Nat /\ c \in 0..N /\ d \in 0..N
    BY PackageSets, ListingIsSequence DEF Visits
  <1>3. ASSUME NEW plan \in Plans
        PROVE  LET rest == [at EXCEPT !.dirs = tail, !.plan = plan] IN
               rest \in Visits /\ Rank(rest) < Rank(at)
    <2> DEFINE rest == [at EXCEPT !.dirs = tail, !.plan = plan]
    <2>1. /\ rest \in Visits
          /\ rest.path = at.path
          /\ rest.dirs = tail
      BY <1>1 DEF Visits
    <2>2. Len(tail) = d - 1
      BY <1>1
    <2>3. c * (N + 1) \in Nat
      BY <1>2
    <2>4. Rank(rest) = c * (N + 1) + (d - 1)
      BY <2>1, <2>2 DEF Rank
    <2>5. Rank(at) = c * (N + 1) + d
      BY DEF Rank
    <2> HIDE DEF rest, c, d
    <2> QED
      BY <1>2, <2>1, <2>3, <2>4, <2>5 DEF rest
  <1>4. /\ Enter(at, p) \in Visits
        /\ Enter(at, p).path = at.path \cup {p}
        /\ Enter(at, p).dirs = deps[p]
    BY <1>1 DEF Enter, Visits, DepsOK
  <1>5. ASSUME p \notin at.path
        PROVE  Rank(Enter(at, p)) < Rank(at)
    <2>1. Packages \ (at.path \cup {p}) = (Packages \ at.path) \ {p}
      OBVIOUS
    <2>2. Cardinality(Packages \ (at.path \cup {p})) = c - 1
      BY <1>1, <1>5, <2>1, FS_RemoveElement, PackageSets
    <2>3. Len(deps[p]) \in 0..N /\ c - 1 \in Nat
      <3>1. Len(deps[p]) \in 0..N
        BY <1>1, ListingIsSequence DEF DepsOK
      <3>2. Cardinality(Packages \ (at.path \cup {p})) \in 0..N
        BY <1>2, PackageSets
      <3> QED
        BY <1>2, <2>2, <3>1, <3>2
    <2>4. c * (N + 1) = (c - 1) * (N + 1) + (N + 1)
      BY <1>2
    <2>5. (c - 1) * (N + 1) \in Nat
      BY <1>2, <2>3
    <2>6. Rank(Enter(at, p)) = (c - 1) * (N + 1) + Len(deps[p])
      BY <1>4, <2>2 DEF Rank
    <2>7. Rank(at) = c * (N + 1) + d
      BY DEF Rank
    <2> DEFINE room == (c - 1) * (N + 1)
               listed == Len(deps[p])
    <2>8. /\ room \in Nat
          /\ listed \in 0..N
          /\ Rank(Enter(at, p)) = room + listed
          /\ Rank(at) = room + (N + 1) + d
      BY <2>3, <2>4, <2>5, <2>6, <2>7
    <2> HIDE DEF room, listed, c, d
    <2> QED
      BY <1>2, <2>8
  <1> QED
    BY <1>1, <1>3, <1>4, <1>5 DEF p, tail

Below(n) == {at \in Visits : Rank(at) < n}

LEMMA VisitsAreRanked ==
  /\ Visits = Below(N * (N + 1) + N + 1)
  /\ N * (N + 1) + N + 1 \in Nat
  /\ \A at \in Visits : Rank(at) \in Nat
  <1>1. N * (N + 1) \in Nat /\ N \in Nat
    BY PackageSets
  <1> DEFINE b == N * (N + 1)
  <1>2. b \in Nat
    BY <1>1
  <1> HIDE DEF b
  <1>3. \A at \in Visits : Rank(at) \in 0..(b + N)
    BY RankIsNat DEF b
  <1>4. Visits = Below(b + N + 1) /\ \A at \in Visits : Rank(at) \in Nat
    BY <1>1, <1>2, <1>3 DEF Below
  <1> QED
    BY <1>1, <1>2, <1>4 DEF b

(* The body of the traversal, as a function of the recursive calls v.      *)
After(v, at) ==
    LET p == Head(at.dirs)
    IN  IF p \in ToSet(at.plan.order) THEN at.plan
        ELSE IF p \in at.path THEN [at.plan EXCEPT !.circular = TRUE]
             ELSE [v[Enter(at, p)] EXCEPT !.order = Append(@, p)]

Body(v, at) ==
    IF at.dirs = <<>> THEN at.plan
    ELSE v[[at EXCEPT !.dirs = Tail(@), !.plan = After(v, at)]]

AppendPlan(plan, p) == [plan EXCEPT !.order = Append(@, p)]

LEMMA PlanTypes ==
  ASSUME NEW plan \in Plans, NEW p \in Packages
  PROVE  /\ [plan EXCEPT !.circular = TRUE] \in Plans
         /\ AppendPlan(plan, p) \in Plans
         /\ AppendPlan(plan, p).order = Append(plan.order, p)
         /\ AppendPlan(plan, p).circular = plan.circular
  <1>1. /\ plan.order \in Seq(Packages) /\ plan.circular \in BOOLEAN
        /\ plan = [order |-> plan.order, circular |-> plan.circular]
    BY DEF Plans
  <1>2. Append(plan.order, p) \in Seq(Packages)
    BY <1>1
  <1> DEFINE longer == Append(plan.order, p)
  <1>3. AppendPlan(plan, p) = [order |-> longer, circular |-> plan.circular]
    BY <1>1 DEF AppendPlan
  <1>4. \A b \in BOOLEAN : [plan EXCEPT !.circular = b] \in Plans
    BY DEF Plans
  <1> HIDE DEF longer
  <1>5. longer \in Seq(Packages)
    BY <1>2 DEF longer
  <1>6. \A b \in BOOLEAN, o \in Seq(Packages) : [order |-> o, circular |-> b] \in Plans
    BY DEF Plans
  <1>7. AppendPlan(plan, p) \in Plans /\ [plan EXCEPT !.circular = TRUE] \in Plans
    BY <1>1, <1>3, <1>4, <1>5, <1>6
  <1> QED
    BY <1>3, <1>7 DEF longer

(* A visit uses lower visits only, and makes plans of plans.               *)
LEMMA BodyIsLocal ==
  ASSUME DepsOK, NEW at \in Visits, NEW n \in Nat, Rank(at) <= n,
         NEW v, \A x \in Below(n) : v[x] \in Plans,
         NEW w, \A x \in Below(n) : w[x] = v[x]
  PROVE  Body(v, at) \in Plans /\ Body(w, at) = Body(v, at)
  <1>1. CASE at.dirs = <<>>
    BY <1>1 DEF Body, Visits
  <1>2. CASE at.dirs # <<>>
    <2> DEFINE p == Head(at.dirs)
               rest(plan) == [at EXCEPT !.dirs = Tail(@), !.plan = plan]
    <2>1. /\ p \in Packages
          /\ \A plan \in Plans : rest(plan) \in Visits /\ Rank(rest(plan)) < Rank(at)
          /\ Enter(at, p) \in Visits
          /\ p \notin at.path => Rank(Enter(at, p)) < Rank(at)
      BY <1>2, RankFalls
    <2>2. \A x \in Visits : Rank(x) < Rank(at) => x \in Below(n)
      <3>1. \A x \in Visits : Rank(x) \in Nat
        BY VisitsAreRanked
      <3> HIDE DEF Rank, Visits
      <3> QED
        BY <3>1 DEF Below
    <2>3. After(v, at) \in Plans /\ After(w, at) = After(v, at)
      <3>1. CASE p \in ToSet(at.plan.order)
        BY <3>1 DEF After, Visits
      <3>2. CASE p \notin ToSet(at.plan.order) /\ p \in at.path
        BY <2>1, <3>2, PlanTypes DEF After, Visits
      <3>3. CASE p \notin ToSet(at.plan.order) /\ p \notin at.path
        <4>1. Enter(at, p) \in Below(n)
          BY <2>1, <2>2, <3>3
        <4>2. /\ After(v, at) = AppendPlan(v[Enter(at, p)], p)
              /\ After(w, at) = AppendPlan(w[Enter(at, p)], p)
          BY <3>3 DEF After, AppendPlan
        <4> QED
          BY <2>1, <4>1, <4>2, PlanTypes
      <3> QED
        BY <3>1, <3>2, <3>3
    <2>4. rest(After(v, at)) \in Below(n)
      BY <2>1, <2>2, <2>3
    <2>5. /\ Body(v, at) = v[rest(After(v, at))]
          /\ Body(w, at) = w[rest(After(w, at))]
      BY <1>2 DEF Body
    <2> QED
      BY <2>3, <2>4, <2>5
  <1> QED
    BY <1>1, <1>2

(* The recursion has a solution below every rank.                          *)
LEMMA SolutionsExist ==
  ASSUME DepsOK
  PROVE  \A n \in Nat : \E v : v = [at \in Below(n) |-> Body(v, at)]
                             /\ \A x \in Below(n) : v[x] \in Plans
  <1> DEFINE Solves(v, n) == /\ v = [at \in Below(n) |-> Body(v, at)]
                             /\ \A x \in Below(n) : v[x] \in Plans
             Bad == {n \in Nat : \A v : ~Solves(v, n)}
  <1> SUFFICES ASSUME Bad # {} PROVE FALSE
    OBVIOUS
  <1>1. PICK n \in Bad : \A k \in Bad : n <= k
    BY LeastNat
  <1>2. n \in Nat /\ \A v : ~Solves(v, n)
    BY <1>1
  <1>3. CASE n = 0
    <2>1. Below(n) = {}
      BY <1>3, VisitsAreRanked DEF Below
    <2> DEFINE v == [at \in Below(n) |-> 0]
    <2>2. v = [at \in Below(n) |-> Body(v, at)]
      BY <2>1
    <2>3. Solves(v, n)
      BY <2>1, <2>2
    <2> QED
      BY <1>2, <2>3
  <1>4. CASE n # 0
    <2>1. n - 1 \in Nat /\ n - 1 \notin Bad
      BY <1>1, <1>2, <1>4
    <2>2. PICK v : Solves(v, n - 1)
      BY <2>1
    <2> DEFINE w == [at \in Below(n) |-> Body(v, at)]
    <2>3. \A x \in Below(n - 1) : x \in Below(n)
      BY <1>2, VisitsAreRanked DEF Below
    <2>4. \A x \in Below(n - 1) : w[x] = v[x]
      BY <2>2, <2>3
    <2>5. ASSUME NEW at \in Below(n)
          PROVE  Body(v, at) \in Plans /\ Body(w, at) = Body(v, at)
      <3>1. at \in Visits /\ Rank(at) <= n - 1
        BY <1>2, <2>5, VisitsAreRanked DEF Below
      <3> HIDE DEF w
      <3> QED
        BY <2>1, <2>2, <2>4, <3>1, BodyIsLocal
    <2>6. w = [at \in Below(n) |-> Body(w, at)]
      BY <2>5
    <2>7. \A x \in Below(n) : w[x] \in Plans
      BY <2>5
    <2> QED
      BY <1>2, <2>6, <2>7
  <1> QED
    BY <1>3, <1>4

Visit == CHOOSE v : v = [at \in Visits |-> Body(v, at)]

(* The traversal's function is what its recursive definition says.         *)
LEMMA VisitEquation ==
  ASSUME DepsOK
  PROVE  /\ Visit = [at \in Visits |-> Body(Visit, at)]
         /\ Traverse = Visit[Start]
  <1>1. \E v : v = [at \in Visits |-> Body(v, at)]
    BY SolutionsExist, VisitsAreRanked
  <1>2. Visit = [at \in Visits |-> Body(Visit, at)]
    BY <1>1 DEF Visit
  <1>3. Traverse = Visit[Start]
    BY DEF Traverse, Visit, Body, After
  <1> QED
    BY <1>2, <1>3

LEMMA LeastVisit ==
  ASSUME NEW S \in SUBSET Visits, S # {}
  PROVE  \E at \in S : \A x \in S : Rank(at) <= Rank(x)
  <1> DEFINE R == {Rank(x) : x \in S}
  <1>1. R \in SUBSET Nat /\ R # {}
    BY VisitsAreRanked
  <1>2. PICK m \in R : \A k \in R : m <= k
    BY <1>1, LeastNat
  <1> QED
    BY <1>2

LEMMA VisitsMakePlans ==
  ASSUME DepsOK
  PROVE  \A at \in Visits : Visit[at] \in Plans
  <1> DEFINE Bad == {at \in Visits : Visit[at] \notin Plans}
  <1> SUFFICES ASSUME Bad # {} PROVE FALSE
    OBVIOUS
  <1>1. PICK at \in Bad : \A x \in Bad : Rank(at) <= Rank(x)
    BY LeastVisit
  <1>2. \A x \in Below(Rank(at)) : x \in Visits /\ ~(Rank(at) <= Rank(x))
    <2>1. \A x \in Visits : Rank(x) \in Nat
      BY VisitsAreRanked
    <2> HIDE DEF Rank, Visits
    <2> QED
      BY <1>1, <2>1 DEF Below
  <1>3. \A x \in Below(Rank(at)) : Visit[x] \in Plans
    BY <1>1, <1>2
  <1>4. at \in Visits /\ Rank(at) \in Nat /\ Rank(at) <= Rank(at)
    BY <1>1, VisitsAreRanked
  <1>5. Body(Visit, at) \in Plans
    BY <1>3, <1>4, BodyIsLocal
  <1> QED
    BY <1>1, <1>4, <1>5, VisitEquation

-----------------------------------------------------------------------------
(***************************************************************************)
(* What a visit promises: it adds to the plan, only packages that are not  *)
(* under way, each once and after its dependencies, and in the end has     *)
(* what it was to visit, or met it under way.                              *)
(***************************************************************************)
Earlier(plan, i) == {plan.order[j] : j \in 1..(i - 1)}

InTurn(path, plan, i) ==
    /\ plan.order[i] \notin path \cup Earlier(plan, i)
    /\ ~plan.circular => DepsOf(plan.order[i]) \subseteq Earlier(plan, i)

Extends(plan, longer) ==
    /\ plan.circular => longer.circular
    /\ Len(plan.order) <= Len(longer.order)
    /\ \A i \in 1..Len(plan.order) : longer.order[i] = plan.order[i]

Has(path, plan, dirs) ==
    \A d \in dirs : \/ d \in Earlier(plan, Len(plan.order) + 1)
                    \/ plan.circular /\ d \in path

Grows(path, dirs, plan, longer) ==
    /\ longer \in Plans
    /\ Extends(plan, longer)
    /\ Has(path, longer, dirs)
    /\ \A i \in (Len(plan.order) + 1)..Len(longer.order) : InTurn(path, longer, i)

LEMMA PlanLengths ==
  ASSUME NEW plan \in Plans
  PROVE  /\ plan.order \in Seq(Packages) /\ Len(plan.order) \in Nat
         /\ plan.circular \in BOOLEAN
         /\ ToSet(plan.order) = Earlier(plan, Len(plan.order) + 1)
         /\ \A i \in 1..Len(plan.order) : plan.order[i] \in Packages
  <1>1. plan.order \in Seq(Packages) /\ plan.circular \in BOOLEAN
    BY DEF Plans
  <1>2. /\ Len(plan.order) \in Nat
        /\ \A i \in 1..Len(plan.order) : plan.order[i] \in Packages
    BY <1>1
  <1>3. ToSet(plan.order) = Earlier(plan, Len(plan.order) + 1)
    BY <1>2 DEF ToSet, Earlier
  <1> QED
    BY <1>1, <1>2, <1>3

LEMMA GrowsTransitive ==
  ASSUME NEW path, NEW dirs, NEW p,
         NEW plan \in Plans, NEW mid \in Plans, NEW end \in Plans,
         Grows(path, {p}, plan, mid), Grows(path, dirs \ {p}, mid, end)
  PROVE  Grows(path, dirs, plan, end)
  <1>1. Len(plan.order) \in Nat /\ Len(mid.order) \in Nat /\ Len(end.order) \in Nat
    BY PlanLengths
  <1>2. Extends(plan, mid) /\ Extends(mid, end)
    BY DEF Grows
  <1>3. Extends(plan, end)
    BY <1>1, <1>2 DEF Extends
  <1>4. \A i \in 1..(Len(mid.order) + 1) : Earlier(end, i) = Earlier(mid, i)
    <2> SUFFICES ASSUME NEW i \in 1..(Len(mid.order) + 1)
                 PROVE  Earlier(end, i) = Earlier(mid, i)
      OBVIOUS
    <2>1. \A j \in 1..(i - 1) : end.order[j] = mid.order[j]
      BY <1>1, <1>2 DEF Extends
    <2> QED
      BY <2>1 DEF Earlier
  <1>5. Earlier(mid, Len(mid.order) + 1) \subseteq Earlier(end, Len(end.order) + 1)
    <2>1. \A j \in 1..Len(mid.order) :
             j \in 1..Len(end.order) /\ end.order[j] = mid.order[j]
      BY <1>1, <1>2 DEF Extends
    <2> QED
      BY <1>1, <2>1 DEF Earlier
  <1>6. Has(path, end, dirs)
    <2>1. Has(path, end, dirs \ {p}) /\ Has(path, mid, {p})
      BY DEF Grows
    <2>2. Has(path, end, {p})
      BY <1>2, <1>5, <2>1 DEF Has, Extends
    <2> QED
      BY <2>1, <2>2 DEF Has
  <1>7. ASSUME NEW i \in (Len(plan.order) + 1)..Len(end.order)
        PROVE  InTurn(path, end, i)
    <2>1. CASE i \in (Len(mid.order) + 1)..Len(end.order)
      BY <2>1 DEF Grows
    <2>2. CASE i <= Len(mid.order)
      <3>1. /\ i \in (Len(plan.order) + 1)..Len(mid.order)
            /\ i \in 1..Len(mid.order) /\ i \in 1..(Len(mid.order) + 1)
        BY <1>1, <1>7, <2>2
      <3>2. InTurn(path, mid, i)
        BY <3>1 DEF Grows
      <3>3. /\ end.order[i] = mid.order[i] /\ Earlier(end, i) = Earlier(mid, i)
            /\ mid.circular => end.circular
        BY <1>2, <1>4, <3>1 DEF Extends
      <3> QED
        BY <3>2, <3>3 DEF InTurn
    <2> QED
      BY <1>1, <1>7, <2>1, <2>2
  <1> QED
    BY <1>3, <1>6, <1>7 DEF Grows

(* A package that has been entered is appended when its visit ends.        *)
LEMMA EnteredGrows ==
  ASSUME NEW path, NEW p \in Packages, p \notin path,
         NEW plan \in Plans, p \notin ToSet(plan.order), NEW e \in Plans,
         Grows(path \cup {p}, DepsOf(p), plan, e)
  PROVE  Grows(path, {p}, plan, AppendPlan(e, p))
  <1> DEFINE end == AppendPlan(e, p)
             n == Len(e.order)
             m == Len(plan.order)
  <1>1. n \in Nat /\ m \in Nat /\ e.order \in Seq(Packages)
    BY PlanLengths
  <1>2. /\ end \in Plans /\ end.circular = e.circular
        /\ end.order = Append(e.order, p)
    BY PlanTypes
  <1>3. /\ Len(end.order) = n + 1 /\ end.order[n + 1] = p
        /\ \A i \in 1..n : end.order[i] = e.order[i]
    BY <1>1, <1>2
  <1>4. /\ Extends(plan, e) /\ Has(path \cup {p}, e, DepsOf(p))
        /\ \A i \in (m + 1)..n : InTurn(path \cup {p}, e, i)
    BY DEF Grows
  <1> HIDE DEF end
  <1>5. m <= n /\ (plan.circular => e.circular)
        /\ \A i \in 1..m : e.order[i] = plan.order[i]
    BY <1>4 DEF Extends
  <1> HIDE DEF n, m
  <1>6. \A i \in 1..(n + 1) : Earlier(end, i) = Earlier(e, i)
    <2> SUFFICES ASSUME NEW i \in 1..(n + 1)
                 PROVE  Earlier(end, i) = Earlier(e, i)
      OBVIOUS
    <2>1. \A j \in 1..(i - 1) : end.order[j] = e.order[j]
      BY <1>1, <1>3
    <2> QED
      BY <2>1 DEF Earlier
  <1>7. Extends(plan, end)
    BY <1>1, <1>2, <1>3, <1>5 DEF Extends, m
  <1>8. p \in Earlier(end, Len(end.order) + 1)
    BY <1>1, <1>3 DEF Earlier
  <1>9. p \notin Earlier(e, n + 1)
    <2> SUFFICES ASSUME NEW j \in 1..n, e.order[j] = p PROVE FALSE
      BY <1>1 DEF Earlier
    <2>1. CASE j <= m
      <3>1. j \in 1..m /\ plan.order[j] = p
        BY <1>1, <1>5, <2>1
      <3>2. p \in Earlier(plan, m + 1)
        BY <1>1, <3>1 DEF Earlier
      <3> QED
        BY <3>2, PlanLengths DEF m
    <2>2. CASE ~(j <= m)
      <3>1. j \in (m + 1)..n
        BY <1>1, <2>2
      <3> QED
        BY <1>4, <3>1 DEF InTurn, n, m
    <2> QED
      BY <2>1, <2>2
  <1>10. ASSUME NEW i \in (m + 1)..(n + 1)
         PROVE  InTurn(path, end, i)
    <2>1. CASE i = n + 1
      <3>1. Earlier(end, i) = Earlier(e, n + 1) /\ end.order[i] = p
        BY <1>1, <1>3, <1>6, <2>1
      <3>2. ~e.circular => DepsOf(p) \subseteq Earlier(e, n + 1)
        BY <1>4 DEF Has, n
      <3> QED
        BY <1>2, <1>9, <3>1, <3>2 DEF InTurn
    <2>2. CASE i # n + 1
      <3>1. i \in (m + 1)..n /\ i \in 1..n /\ i \in 1..(n + 1)
        BY <1>1, <1>10, <2>2
      <3>2. InTurn(path \cup {p}, e, i)
        BY <1>4, <3>1 DEF n, m
      <3>3. Earlier(end, i) = Earlier(e, i) /\ end.order[i] = e.order[i]
        BY <1>3, <1>6, <3>1
      <3> QED
        BY <1>2, <3>2, <3>3 DEF InTurn
    <2> QED
      BY <2>1, <2>2
  <1>11. Has(path, end, {p})
    BY <1>8 DEF Has
  <1>12. Grows(path, {p}, plan, end)
    BY <1>2, <1>3, <1>7, <1>10, <1>11 DEF Grows, m
  <1> QED
    BY <1>12 DEF end

(* Every visit keeps its promise: one of least rank that did not would be  *)
(* made of visits that do.                                                 *)
LEMMA VisitsGrow ==
  ASSUME DepsOK
  PROVE  \A at \in Visits : Grows(at.path, ToSet(at.dirs), at.plan, Visit[at])
  <1> DEFINE Sound(at) == Grows(at.path, ToSet(at.dirs), at.plan, Visit[at])
             Bad == {at \in Visits : ~Sound(at)}
  <1> SUFFICES ASSUME Bad # {} PROVE FALSE
    OBVIOUS
  <1>1. PICK at \in Bad : \A x \in Bad : Rank(at) <= Rank(x)
    BY LeastVisit
  <1>2. at \in Visits /\ ~Sound(at) /\ at.plan \in Plans
    BY <1>1 DEF Visits
  <1>3. \A x \in Visits : Rank(x) < Rank(at) => Sound(x)
    <2>1. \A x \in Visits : Rank(x) \in Nat
      BY VisitsAreRanked
    <2> HIDE DEF Rank, Visits, Sound
    <2> QED
      BY <1>1, <1>2, <2>1
  <1>4. Visit[at] = Body(Visit, at)
    BY <1>2, VisitEquation
  <1>5. CASE at.dirs = <<>>
    <2>1. Visit[at] = at.plan
      BY <1>4, <1>5 DEF Body
    <2>2. Len(at.plan.order) \in Nat
      BY <1>2, PlanLengths
    <2>3. Extends(at.plan, at.plan) /\ Has(at.path, at.plan, ToSet(at.dirs))
      BY <1>2, <1>5, <2>2, ListingIsSequence DEF Extends, Has, Visits
    <2>4. (Len(at.plan.order) + 1)..Len(at.plan.order) = {}
      BY <2>2
    <2> QED
      BY <1>2, <1>5, <2>1, <2>3, <2>4 DEF Grows
  <1>6. CASE at.dirs # <<>>
    <2> DEFINE p == Head(at.dirs)
               next == After(Visit, at)
               rest == [at EXCEPT !.dirs = Tail(@), !.plan = next]
    <2>1. /\ p \in Packages
          /\ Enter(at, p) \in Visits
          /\ p \notin at.path => Rank(Enter(at, p)) < Rank(at)
      BY <1>2, <1>6, RankFalls
    <2>2. next \in Plans /\ Grows(at.path, {p}, at.plan, next)
      <3> HIDE DEF p
      <3>1. CASE p \in ToSet(at.plan.order)
        <4>1. next = at.plan
          BY <3>1 DEF After, p
        <4>2. Len(at.plan.order) \in Nat /\ p \in Earlier(at.plan, Len(at.plan.order) + 1)
          BY <1>2, <3>1, PlanLengths
        <4>3. Extends(at.plan, at.plan) /\ Has(at.path, at.plan, {p})
          BY <4>2 DEF Extends, Has
        <4>4. (Len(at.plan.order) + 1)..Len(at.plan.order) = {}
          BY <4>2
        <4> QED
          BY <1>2, <4>1, <4>3, <4>4 DEF Grows
      <3>2. CASE p \notin ToSet(at.plan.order) /\ p \in at.path
        <4>1. next = [at.plan EXCEPT !.circular = TRUE]
          BY <3>2 DEF After, p
        <4>2. /\ next \in Plans
              /\ next.order = at.plan.order
              /\ next.circular = TRUE
          BY <1>2, <2>1, <4>1, PlanTypes DEF Plans
        <4> HIDE DEF next
        <4>3. Len(at.plan.order) \in Nat
          BY <1>2, PlanLengths
        <4>4. Extends(at.plan, next) /\ Has(at.path, next, {p})
          BY <3>2, <4>2, <4>3 DEF Extends, Has
        <4>5. (Len(at.plan.order) + 1)..Len(next.order) = {}
          BY <4>2, <4>3
        <4> QED
          BY <4>2, <4>4, <4>5 DEF Grows
      <3>3. CASE p \notin ToSet(at.plan.order) /\ p \notin at.path
        <4> DEFINE e == Visit[Enter(at, p)]
        <4>1. next = AppendPlan(e, p)
          BY <3>3 DEF After, AppendPlan, p
        <4>2. /\ Enter(at, p).path = at.path \cup {p}
              /\ ToSet(Enter(at, p).dirs) = DepsOf(p) /\ Enter(at, p).plan = at.plan
          BY DEF Enter, DepsOf
        <4>3. Sound(Enter(at, p)) /\ e \in Plans
          BY <1>3, <2>1, <3>3, VisitsMakePlans DEF p
        <4>4. Grows(at.path \cup {p}, DepsOf(p), at.plan, e)
          BY <4>2, <4>3
        <4> HIDE DEF e
        <4>5. Grows(at.path, {p}, at.plan, AppendPlan(e, p))
          BY <1>2, <2>1, <3>3, <4>3, <4>4, EnteredGrows DEF p
        <4> QED
          BY <2>1, <4>1, <4>3, <4>5, PlanTypes DEF p
      <3> QED
        BY <3>1, <3>2, <3>3
    <2>3. /\ rest \in Visits /\ Rank(rest) < Rank(at)
          /\ rest.path = at.path /\ rest.dirs = Tail(at.dirs) /\ rest.plan = next
      BY <1>2, <1>6, <2>2, RankFalls DEF Visits
    <2>4. Visit[at] = Visit[rest]
      BY <1>4, <1>6 DEF Body
    <2>5. Sound(rest) /\ Visit[rest] \in Plans
      BY <1>3, <2>3, VisitsMakePlans
    <2>6. ToSet(at.dirs) \ {p} \subseteq ToSet(Tail(at.dirs))
      BY <1>2, <1>6, ListingIsSequence DEF Visits
    <2> HIDE DEF rest, next, p
    <2>7. Grows(at.path, ToSet(Tail(at.dirs)), next, Visit[rest])
      BY <2>3, <2>5
    <2>8. Grows(at.path, ToSet(at.dirs) \ {p}, next, Visit[rest])
      BY <2>6, <2>7 DEF Grows, Has
    <2>9. Grows(at.path, ToSet(at.dirs), at.plan, Visit[rest])
      BY <1>2, <2>2, <2>5, <2>8, GrowsTransitive
    <2> QED
      BY <1>2, <2>4, <2>9
  <1> QED
    BY <1>5, <1>6

(* The order in which packages are built and published: all of them, each  *)
(* once and, unless they form a circle, after its dependencies.            *)
LEMMA TraverseIsSound ==
  ASSUME DepsOK
  PROVE  /\ Traverse.order \in Seq(Packages)
         /\ Traverse.circular \in BOOLEAN
         /\ ToSet(Traverse.order) = Packages
         /\ \A i \in 1..Len(Traverse.order) : InTurn({}, Traverse, i)
  <1>1. /\ Start \in Visits /\ Start.path = {} /\ Start.plan.order = <<>>
        /\ ToSet(Start.dirs) = Packages
    <2> DEFINE all == [p \in Packages |-> p]
    <2>1. N \in 0..N /\ all \in [1..N -> Packages]
      BY PackageSets DEF Packages
    <2>2. all \in Listings
      BY <2>1 DEF Listings
    <2>3. DOMAIN all = Packages /\ \A p \in Packages : all[p] = p
      OBVIOUS
    <2>4. ToSet(all) = Packages
      BY <2>3 DEF ToSet
    <2> HIDE DEF all
    <2> QED
      BY <2>2, <2>4 DEF Start, Visits, Plans, all
  <1>2. Traverse \in Plans /\ Grows({}, Packages, Start.plan, Traverse)
    BY <1>1, VisitsGrow, VisitsMakePlans, VisitEquation
  <1>3. /\ Traverse.order \in Seq(Packages) /\ Traverse.circular \in BOOLEAN
        /\ Len(Traverse.order) \in Nat
        /\ ToSet(Traverse.order) = Earlier(Traverse, Len(Traverse.order) + 1)
        /\ \A i \in 1..Len(Traverse.order) : Traverse.order[i] \in Packages
    BY <1>2, PlanLengths
  <1>4. Packages \subseteq ToSet(Traverse.order)
    BY <1>2, <1>3 DEF Grows, Has
  <1>5. ToSet(Traverse.order) \subseteq Packages
    BY <1>3 DEF ToSet
  <1>6. Len(Start.plan.order) + 1 = 1
    BY <1>1
  <1>7. \A i \in 1..Len(Traverse.order) : InTurn({}, Traverse, i)
    BY <1>2, <1>6 DEF Grows
  <1> QED
    BY <1>3, <1>4, <1>5, <1>7

-----------------------------------------------------------------------------
(***************************************************************************)
(* Publishing.  What is known of a job by its stage: a job that builds or  *)
(* publishes is part way along the one order, and a job that publishes has *)
(* put what it has dealt with on npm, or counted it as failed.  Packages   *)
(* stay on npm, so no other job disturbs this.                             *)
(***************************************************************************)
Stages == {"queued", "synced", "building", "publishing", "viewing", "sending",
           "exit 0", "exit 1"}

JobRecords == [stage : Stages, left : Seq(Packages), failed : SUBSET Packages]

(* left is what remains of the order, from some package on.                *)
Position(ahead) == Len(Traverse.order) - Len(ahead)

Remains(ahead) ==
    /\ Position(ahead) \in Nat
    /\ \A i \in 1..Len(ahead) : ahead[i] = Traverse.order[Position(ahead) + i]

HandledTo(n, failed) ==
    \A i \in 1..n : Traverse.order[i] \in registry \cup failed

JobSound(b) ==
    /\ b.stage \notin {"queued", "exit 1"} => synced
    /\ b.stage \in {"building", "publishing", "viewing", "sending"} =>
          ~Traverse.circular /\ Remains(b.left)
    /\ b.stage \in {"publishing", "viewing", "sending"} =>
          HandledTo(Position(b.left), b.failed)
    /\ b.stage \in {"viewing", "sending"} =>
          b.left # <<>> /\ DepsOf(Head(b.left)) \cap b.failed = {}
    /\ b.stage = "exit 0" => registry = Packages

PublishInv ==
    /\ DepsOK
    /\ synced \in BOOLEAN
    /\ registry \subseteq Packages
    /\ job \in [Jobs -> JobRecords]
    /\ \A j \in Jobs : JobSound(job[j])

LEMMA TraverseStays == UNCHANGED deps => Traverse' = Traverse
  BY DEF Traverse, Enter

(* A job moves and packages may be added to npm: the others stay sound.    *)
LEMMA JobMovesKeeps ==
  ASSUME PublishInv, UNCHANGED <<deps, synced>>,
         registry \subseteq registry', registry' \subseteq Packages,
         NEW j \in Jobs, NEW b \in JobRecords, JobSound(b)',
         job' = [job EXCEPT ![j] = b]
  PROVE  PublishInv'
  <1>1. ASSUME NEW i \in Jobs
        PROVE  JobSound(job[i])'
    <2>1. CASE i = j
      <3>1. job'[i] = b
        BY <2>1 DEF PublishInv
      <3> QED
        BY <3>1 DEF JobSound, Remains, Position, HandledTo, DepsOf
    <2>2. CASE i # j
      <3>1. job'[i] = job[i] /\ JobSound(job[i])
        BY <2>2 DEF PublishInv
      <3>2. Traverse' = Traverse
        BY TraverseStays
      <3>3. registry = Packages => registry' = Packages
        OBVIOUS
      <3> QED
        BY <3>1, <3>2, <3>3 DEF JobSound, Remains, Position, HandledTo, DepsOf
    <2> QED
      BY <2>1, <2>2
  <1>2. job' \in [Jobs -> JobRecords]
    BY DEF PublishInv
  <1> QED
    BY <1>1, <1>2 DEF PublishInv, DepsOK

(* The registry stays as it is, too.                                       *)
LEMMA JobMovesSoundly ==
  ASSUME PublishInv, UNCHANGED <<deps, synced, registry>>,
         NEW j \in Jobs, NEW b \in JobRecords, JobSound(b),
         job' = [job EXCEPT ![j] = b]
  PROVE  PublishInv'
  <1>1. Traverse' = Traverse
    BY TraverseStays
  <1>2. JobSound(b)'
    BY <1>1 DEF JobSound, Remains, Position, HandledTo, DepsOf
  <1> QED
    BY <1>2, JobMovesKeeps DEF PublishInv

(* A package is dealt with: what remains starts after it.                  *)
LEMMA HeadIsNext ==
  ASSUME DepsOK, NEW ahead \in Seq(Packages), ahead # <<>>, Remains(ahead)
  PROVE  LET n == Position(ahead) + 1 IN
         /\ n \in 1..Len(Traverse.order)
         /\ Head(ahead) = Traverse.order[n]
         /\ Head(ahead) \in Packages
         /\ Tail(ahead) \in Seq(Packages)
         /\ Remains(Tail(ahead)) /\ Position(Tail(ahead)) = n
  <1> DEFINE o == Traverse.order
             len == Len(o)
             tail == Tail(ahead)
  <1>1. len \in Nat
    BY TraverseIsSound
  <1>2. /\ Len(ahead) \in Nat /\ Len(ahead) >= 1
        /\ Head(ahead) = ahead[1] /\ ahead[1] \in Packages
        /\ tail \in Seq(Packages) /\ Len(tail) = Len(ahead) - 1
        /\ \A i \in 1..Len(tail) : tail[i] = ahead[i + 1]
    <2>1. /\ Len(ahead) \in Nat /\ Len(ahead) >= 1
          /\ Head(ahead) = ahead[1] /\ ahead[1] \in Packages
      BY EmptySeq, LenProperties, HeadTailProperties
    <2>2. /\ tail \in Seq(Packages) /\ Len(tail) = Len(ahead) - 1
          /\ \A i \in 1..Len(tail) : tail[i] = ahead[i + 1]
      BY HeadTailProperties
    <2> QED
      BY <2>1, <2>2
  <1>3. /\ len - Len(ahead) \in Nat
        /\ \A i \in 1..Len(ahead) : ahead[i] = o[len - Len(ahead) + i]
    BY DEF Remains, Position
  <1> HIDE DEF len, o, tail
  <1>4. /\ len - Len(ahead) + 1 \in 1..len
        /\ Head(ahead) = o[len - Len(ahead) + 1]
        /\ len - Len(tail) = len - Len(ahead) + 1
        /\ len - Len(tail) \in Nat
    BY <1>1, <1>2, <1>3
  <1>5. \A i \in 1..Len(tail) : tail[i] = o[len - Len(tail) + i]
    <2> SUFFICES ASSUME NEW i \in 1..Len(tail)
                 PROVE  tail[i] = o[len - Len(tail) + i]
      OBVIOUS
    <2>1. i + 1 \in 1..Len(ahead) /\ len - Len(ahead) + (i + 1) = len - Len(tail) + i
      BY <1>1, <1>2
    <2> QED
      BY <1>2, <1>3, <2>1
  <1> QED
    BY <1>2, <1>4, <1>5 DEF Remains, Position, len, o, tail

(* The dependencies of the next package come earlier in the order, and not *)
(* again.                                                                  *)
LEMMA DependenciesAreBehind ==
  ASSUME DepsOK, ~Traverse.circular,
         NEW ahead \in Seq(Packages), ahead # <<>>, Remains(ahead)
  PROVE  /\ \A d \in DepsOf(Head(ahead)) :
               \E i \in 1..Position(ahead) : Traverse.order[i] = d
         /\ DepsOf(Head(ahead)) \cap ToSet(ahead) = {}
  <1> DEFINE n == Position(ahead)
             len == Len(Traverse.order)
  <1>1. n \in Nat /\ n + 1 \in 1..len /\ Head(ahead) = Traverse.order[n + 1]
    BY HeadIsNext DEF Remains
  <1>2. len \in Nat /\ n = len - Len(ahead) /\ Len(ahead) \in Nat
    BY TraverseIsSound DEF Position
  <1>3. \A i \in 1..len : /\ Traverse.order[i] \notin Earlier(Traverse, i)
                         /\ DepsOf(Traverse.order[i]) \subseteq Earlier(Traverse, i)
    BY TraverseIsSound DEF InTurn
  <1>4. \A i \in 1..Len(ahead) : ahead[i] = Traverse.order[n + i]
    BY DEF Remains
  <1> HIDE DEF n, len
  <1>5. DepsOf(Head(ahead)) \subseteq Earlier(Traverse, n + 1)
    BY <1>1, <1>3
  <1>6. \A d \in DepsOf(Head(ahead)) : \E i \in 1..n : Traverse.order[i] = d
    BY <1>1, <1>5 DEF Earlier
  <1>7. ASSUME NEW i \in 1..Len(ahead), ahead[i] \in DepsOf(Head(ahead))
        PROVE  FALSE
    <2>1. PICK k \in 1..n : Traverse.order[k] = Traverse.order[n + i]
      BY <1>4, <1>6, <1>7
    <2>2. n + i \in 1..len /\ k \in 1..(n + i - 1)
      BY <1>1, <1>2
    <2>3. \A m \in Int : k \in 1..(m - 1) => Traverse.order[k] \in Earlier(Traverse, m)
      BY DEF Earlier
    <2>4. Traverse.order[n + i] \in Earlier(Traverse, n + i)
      BY <1>1, <2>1, <2>2, <2>3
    <2> QED
      BY <1>3, <2>2, <2>4
  <1>8. \A d \in ToSet(ahead) : \E i \in 1..Len(ahead) : ahead[i] = d
    BY DEF ToSet
  <1> QED
    BY <1>6, <1>7, <1>8 DEF n

(* A package has been dealt with, published or failed.                     *)
LEMMA PackageIsHandled ==
  ASSUME PublishInv, NEW j \in Jobs, NEW old, job[j] = old,
         NEW failed \in SUBSET Packages,
         old.stage \in {"publishing", "viewing", "sending"}, old.left # <<>>,
         UNCHANGED <<deps, synced>>,
         registry \subseteq registry', registry' \subseteq Packages,
         old.failed \subseteq failed,
         Head(old.left) \in registry' \cup failed,
         job' = [job EXCEPT ![j] = [old EXCEPT !.stage = "publishing",
                                               !.left = Tail(old.left),
                                               !.failed = failed]]
  PROVE  PublishInv'
  <1>1. old \in JobRecords /\ JobSound(old) /\ DepsOK
    BY DEF PublishInv
  <1>2. ~Traverse.circular /\ Remains(old.left) /\ synced
    BY <1>1 DEF JobSound
  <1>3. HandledTo(Position(old.left), old.failed)
    BY <1>1 DEF JobSound
  <1>4. PICK n : n = Position(old.left) + 1
    OBVIOUS
  <1>5. Position(old.left) \in Nat
    BY <1>2 DEF Remains
  <1>6. /\ n \in Nat /\ Head(old.left) = Traverse.order[n]
        /\ Tail(old.left) \in Seq(Packages)
        /\ Remains(Tail(old.left)) /\ Position(Tail(old.left)) = n
    BY <1>1, <1>2, <1>4, <1>5, HeadIsNext DEF JobRecords
  <1>7. PICK new : new = [old EXCEPT !.stage = "publishing",
                                     !.left = Tail(old.left), !.failed = failed]
    OBVIOUS
  <1>8. /\ new \in JobRecords /\ new.stage = "publishing"
        /\ new.left = Tail(old.left) /\ new.failed = failed
    BY <1>1, <1>6, <1>7 DEF JobRecords, Stages
  <1>9. Traverse' = Traverse
    BY TraverseStays
  <1>10. \A i \in 1..n : Traverse.order[i] \in registry' \cup failed
    <2> SUFFICES ASSUME NEW i \in 1..n
                 PROVE  Traverse.order[i] \in registry' \cup failed
      OBVIOUS
    <2>1. CASE i = n
      BY <1>6, <2>1
    <2>2. CASE i # n
      <3>1. i \in 1..Position(old.left)
        BY <1>4, <1>5, <2>2
      <3> QED
        BY <1>3, <3>1 DEF HandledTo
    <2> QED
      BY <2>1, <2>2
  <1>11. Remains(new.left)' /\ Position(new.left)' = n
    BY <1>6, <1>8, <1>9 DEF Remains, Position
  <1>12. HandledTo(Position(new.left), new.failed)'
    BY <1>8, <1>9, <1>10, <1>11 DEF HandledTo
  <1>13. JobSound(new)'
    BY <1>2, <1>8, <1>9, <1>11, <1>12 DEF JobSound
  <1>14. job' = [job EXCEPT ![j] = new]
    BY <1>7
  <1> QED
    BY <1>8, <1>13, <1>14, JobMovesKeeps

LEMMA JobFailsKeeps ==
  ASSUME PublishInv, NEW j \in Jobs, UNCHANGED <<deps, synced, registry>>,
         job' = [job EXCEPT ![j] = JobFails(j)]
  PROVE  PublishInv'
  <1>1. PICK new : new = JobFails(j)
    OBVIOUS
  <1>2. new \in JobRecords /\ new.stage = "exit 1"
    BY <1>1 DEF PublishInv, JobRecords, JobFails, Stages
  <1>3. JobSound(new)
    BY <1>2 DEF JobSound
  <1> QED
    BY <1>1, <1>2, <1>3, JobMovesSoundly

(* The stage of a job is the whole of what changes.                        *)
LEMMA StageMoves ==
  ASSUME PublishInv, NEW j \in Jobs, NEW stage \in Stages,
         UNCHANGED <<deps, synced, registry>>,
         job' = [job EXCEPT ![j] = [job[j] EXCEPT !.stage = stage]],
         \A b \in JobRecords :
            b.stage = stage /\ b.left = job[j].left /\ b.failed = job[j].failed =>
               JobSound(b)
  PROVE  PublishInv'
  <1>1. PICK new : new = [job[j] EXCEPT !.stage = stage]
    OBVIOUS
  <1>2. /\ new \in JobRecords /\ new.stage = stage
        /\ new.left = job[j].left /\ new.failed = job[j].failed
    BY <1>1 DEF PublishInv, JobRecords
  <1> QED
    BY <1>1, <1>2, JobMovesSoundly

(* The whole order is about to be built or published.                      *)
LEMMA OrderStarts ==
  ASSUME PublishInv, NEW j \in Jobs, NEW stage \in {"building", "publishing"},
         UNCHANGED <<deps, synced, registry>>, synced, ~Traverse.circular,
         job' = [job EXCEPT ![j] = [job[j] EXCEPT !.stage = stage,
                                                  !.left = Traverse.order]]
  PROVE  PublishInv'
  <1>1. PICK new : new = [job[j] EXCEPT !.stage = stage, !.left = Traverse.order]
    OBVIOUS
  <1>2. Traverse.order \in Seq(Packages) /\ Len(Traverse.order) \in Nat
    BY TraverseIsSound DEF PublishInv
  <1>3. /\ new \in JobRecords /\ new.stage = stage /\ new.left = Traverse.order
    BY <1>1, <1>2 DEF PublishInv, JobRecords, Stages
  <1>4. Position(new.left) = 0 /\ Remains(new.left)
    BY <1>2, <1>3 DEF Position, Remains
  <1>5. HandledTo(Position(new.left), new.failed)
    BY <1>4 DEF HandledTo
  <1>6. JobSound(new)
    BY <1>3, <1>4, <1>5 DEF JobSound
  <1> QED
    BY <1>1, <1>3, <1>6, JobMovesSoundly

(* Published and NotPublished, with what the registry then holds.          *)
LEMMA PublishedKeeps ==
  ASSUME PublishInv, NEW j \in Jobs,
         job[j].stage \in {"publishing", "viewing", "sending"}, job[j].left # <<>>,
         UNCHANGED <<deps, synced>>,
         registry \subseteq registry', registry' \subseteq Packages,
         \/ /\ Current(j) \in registry'
            /\ job' = [job EXCEPT ![j] = Published(j)]
         \/ job' = [job EXCEPT ![j] = NotPublished(j)]
  PROVE  PublishInv'
  <1>1. PICK old : old = job[j]
    OBVIOUS
  <1>2. old \in JobRecords /\ JobSound(old) /\ DepsOK
    BY <1>1 DEF PublishInv
  <1>3. Remains(old.left)
    BY <1>1, <1>2 DEF JobSound
  <1>4. Head(old.left) \in Packages
    BY <1>1, <1>2, <1>3, HeadIsNext DEF JobRecords
  <1>5. Published(j) = [old EXCEPT !.stage = "publishing", !.left = Tail(old.left),
                                   !.failed = old.failed]
    BY <1>1, <1>2 DEF Published, JobRecords
  <1>6. NotPublished(j) = [old EXCEPT !.stage = "publishing", !.left = Tail(old.left),
                                      !.failed = old.failed \cup {Head(old.left)}]
    BY <1>1, <1>2 DEF Published, NotPublished, Current, JobRecords
  <1>7. old.failed \in SUBSET Packages
        /\ old.failed \cup {Head(old.left)} \in SUBSET Packages
    BY <1>2, <1>4 DEF JobRecords
  <1>8. CASE /\ Current(j) \in registry'
             /\ job' = [job EXCEPT ![j] = Published(j)]
    BY <1>1, <1>5, <1>7, <1>8, PackageIsHandled DEF Current
  <1>9. CASE job' = [job EXCEPT ![j] = NotPublished(j)]
    BY <1>1, <1>6, <1>7, <1>9, PackageIsHandled
  <1> QED
    BY <1>8, <1>9

LEMMA PublishKeptByNext == PublishInv /\ [PublishNext]_publishVars => PublishInv'
  <1> SUFFICES ASSUME PublishInv, [PublishNext]_publishVars
               PROVE  PublishInv'
    OBVIOUS
  <1>0. \A j \in Jobs : job[j] \in JobRecords /\ JobSound(job[j])
    BY DEF PublishInv
  <1>1. CASE UNCHANGED publishVars
    <2>1. Traverse' = Traverse
      BY <1>1, TraverseStays DEF publishVars
    <2> QED
      BY <1>1, <2>1 DEF publishVars, PublishInv, DepsOK, JobSound, Remains, Position,
                        HandledTo, DepsOf
  <1>2. ASSUME NEW j \in Jobs, StepFails(j)
        PROVE  PublishInv'
    BY <1>2, JobFailsKeeps DEF StepFails, JobMoves
  <1>3. ASSUME NEW j \in Jobs, CheckInternalDeps(j)
        PROVE  PublishInv'
    <2>1. CASE synced
      <3>1. /\ UNCHANGED <<deps, synced, registry>>
            /\ job' = [job EXCEPT ![j] = [job[j] EXCEPT !.stage = "synced"]]
        BY <1>3, <2>1 DEF CheckInternalDeps, JobMoves
      <3> QED
        BY <2>1, <3>1, StageMoves DEF JobSound, Stages
    <2>2. CASE ~synced
      BY <1>3, <2>2, JobFailsKeeps DEF CheckInternalDeps, JobMoves
    <2> QED
      BY <2>1, <2>2
  <1>4. ASSUME NEW j \in Jobs, PlanBuild(j)
        PROVE  PublishInv'
    <2>1. CASE Traverse.circular
      BY <1>4, <2>1, JobFailsKeeps DEF PlanBuild, JobMoves
    <2>2. CASE ~Traverse.circular
      <3>1. /\ UNCHANGED <<deps, synced, registry>> /\ job[j].stage = "synced"
            /\ job' = [job EXCEPT ![j] = [job[j] EXCEPT !.stage = "building",
                                                        !.left = Traverse.order]]
        BY <1>4, <2>2 DEF PlanBuild, JobMoves
      <3>2. synced
        BY <1>0, <3>1 DEF JobSound
      <3> QED
        BY <2>2, <3>1, <3>2, OrderStarts
    <2> QED
      BY <2>1, <2>2
  <1>5. ASSUME NEW j \in Jobs, Build(j)
        PROVE  PublishInv'
    <2>1. PICK old : old = job[j]
      OBVIOUS
    <2>2. /\ old \in JobRecords /\ JobSound(old) /\ DepsOK
          /\ old.stage = "building" /\ old.left # <<>>
          /\ UNCHANGED <<deps, synced, registry>>
          /\ job' = [job EXCEPT ![j] = [old EXCEPT !.left = Tail(old.left)]]
      BY <1>0, <1>5, <2>1 DEF Build, JobMoves, PublishInv
    <2>3. /\ ~Traverse.circular /\ Remains(old.left) /\ synced
          /\ old.left \in Seq(Packages)
      BY <2>2 DEF JobSound, JobRecords
    <2>4. Tail(old.left) \in Seq(Packages) /\ Remains(Tail(old.left))
      BY <2>2, <2>3, HeadIsNext
    <2>5. PICK new : new = [old EXCEPT !.left = Tail(old.left)]
      OBVIOUS
    <2>6. /\ new \in JobRecords /\ new.stage = "building" /\ new.left = Tail(old.left)
      BY <2>2, <2>4, <2>5 DEF JobRecords
    <2>7. JobSound(new)
      BY <2>3, <2>4, <2>6 DEF JobSound
    <2> QED
      BY <2>2, <2>5, <2>6, <2>7, JobMovesSoundly
  <1>6. ASSUME NEW j \in Jobs, StartPublishing(j)
        PROVE  PublishInv'
    <2>1. /\ UNCHANGED <<deps, synced, registry>> /\ job[j].stage = "building"
          /\ job' = [job EXCEPT ![j] = [job[j] EXCEPT !.stage = "publishing",
                                                      !.left = Traverse.order]]
      BY <1>6 DEF StartPublishing, JobMoves
    <2>2. synced /\ ~Traverse.circular
      BY <1>0, <2>1 DEF JobSound
    <2> QED
      BY <2>1, <2>2, OrderStarts
  <1>7. ASSUME NEW j \in Jobs, NEW valid \in BOOLEAN, NextPackage(j, valid)
        PROVE  PublishInv'
    <2>1. /\ UNCHANGED <<deps, synced, registry>> /\ job[j].stage = "publishing"
          /\ job[j].left # <<>>
      BY <1>7 DEF NextPackage, JobMoves
    <2>2. CASE DepsOf(Current(j)) \cap job[j].failed # {} \/ ~valid
      <3>1. job' = [job EXCEPT ![j] = NotPublished(j)]
        BY <1>7, <2>2 DEF NextPackage, JobMoves
      <3> QED
        BY <2>1, <3>1, PublishedKeeps DEF PublishInv
    <2>3. CASE ~(DepsOf(Current(j)) \cap job[j].failed # {} \/ ~valid)
      <3>1. job' = [job EXCEPT ![j] = [job[j] EXCEPT !.stage = "viewing"]]
        BY <1>7, <2>3 DEF NextPackage, JobMoves
      <3>2. /\ synced /\ ~Traverse.circular /\ Remains(job[j].left)
            /\ HandledTo(Position(job[j].left), job[j].failed)
        BY <1>0, <2>1 DEF JobSound
      <3>3. DepsOf(Head(job[j].left)) \cap job[j].failed = {}
        BY <2>3 DEF Current
      <3>4. ASSUME NEW b \in JobRecords, b.stage = "viewing",
                   b.left = job[j].left, b.failed = job[j].failed
            PROVE  JobSound(b)
        BY <2>1, <3>2, <3>3, <3>4 DEF JobSound
      <3> QED
        BY <2>1, <3>1, <3>4, StageMoves DEF Stages
    <2> QED
      BY <2>2, <2>3
  <1>8. ASSUME NEW j \in Jobs, NEW found \in BOOLEAN, View(j, found)
        PROVE  PublishInv'
    <2>1. /\ UNCHANGED <<deps, synced, registry>> /\ job[j].stage = "viewing"
          /\ found => Current(j) \in registry
      BY <1>8 DEF View, JobMoves
    <2>2. /\ synced /\ ~Traverse.circular /\ Remains(job[j].left)
          /\ HandledTo(Position(job[j].left), job[j].failed)
          /\ job[j].left # <<>> /\ DepsOf(Head(job[j].left)) \cap job[j].failed = {}
      BY <1>0, <2>1 DEF JobSound
    <2>3. CASE found
      <3>1. job' = [job EXCEPT ![j] = Published(j)]
        BY <1>8, <2>3 DEF View, JobMoves
      <3> QED
        BY <2>1, <2>2, <2>3, <3>1, PublishedKeeps DEF PublishInv
    <2>4. CASE ~found
      <3>1. job' = [job EXCEPT ![j] = [job[j] EXCEPT !.stage = "sending"]]
        BY <1>8, <2>4 DEF View, JobMoves
      <3>2. ASSUME NEW b \in JobRecords, b.stage = "sending",
                   b.left = job[j].left, b.failed = job[j].failed
            PROVE  JobSound(b)
        BY <2>2, <3>2 DEF JobSound
      <3> QED
        BY <2>1, <3>1, <3>2, StageMoves DEF Stages
    <2> QED
      BY <2>3, <2>4
  <1>9. ASSUME NEW j \in Jobs,
               NEW outcome \in {"accepted", "lost", "duplicate", "refused"},
               Publish(j, outcome)
        PROVE  PublishInv'
    <2>1. UNCHANGED <<deps, synced>> /\ job[j].stage = "sending"
      BY <1>9 DEF Publish
    <2>2. job[j].left # <<>> /\ Remains(job[j].left) /\ DepsOK
      BY <1>0, <2>1 DEF JobSound, PublishInv
    <2>3. Current(j) \in Packages
      BY <1>0, <2>2, HeadIsNext DEF JobRecords, Current
    <2>4. registry \subseteq registry' /\ registry' \subseteq Packages
      BY <1>9, <2>3 DEF Publish, PublishInv
    <2>5. CASE outcome \in {"accepted", "duplicate"}
      <3>1. Current(j) \in registry' /\ job' = [job EXCEPT ![j] = Published(j)]
        BY <1>9, <2>5 DEF Publish
      <3> QED
        BY <2>1, <2>2, <2>4, <3>1, PublishedKeeps
    <2>6. CASE outcome \notin {"accepted", "duplicate"}
      <3>1. job' = [job EXCEPT ![j] = NotPublished(j)]
        BY <1>9, <2>6 DEF Publish
      <3> QED
        BY <2>1, <2>2, <2>4, <3>1, PublishedKeeps
    <2> QED
      BY <2>5, <2>6
  <1>10. ASSUME NEW j \in Jobs, FinishPublishing(j)
         PROVE  PublishInv'
    <2>1. /\ UNCHANGED <<deps, synced, registry>> /\ job[j].stage = "publishing"
          /\ job[j].left = <<>>
      BY <1>10 DEF FinishPublishing, JobMoves
    <2>2. CASE job[j].failed = {}
      <3>1. job' = [job EXCEPT ![j] = [job[j] EXCEPT !.stage = "exit 0"]]
        BY <1>10, <2>2 DEF FinishPublishing, JobMoves
      <3>2. HandledTo(Position(job[j].left), job[j].failed) /\ synced
        BY <1>0, <2>1 DEF JobSound
      <3>3. /\ Traverse.order \in Seq(Packages) /\ Len(Traverse.order) \in Nat
            /\ ToSet(Traverse.order) = Packages
        BY TraverseIsSound DEF PublishInv
      <3>4. Position(job[j].left) = Len(Traverse.order)
        BY <2>1, <3>3 DEF Position
      <3>5. \A i \in 1..Len(Traverse.order) : Traverse.order[i] \in registry
        BY <2>2, <3>2, <3>4 DEF HandledTo
      <3>6. Packages \subseteq registry
        BY <3>3, <3>5 DEF ToSet
      <3>7. registry = Packages
        BY <3>6 DEF PublishInv
      <3> QED
        BY <2>1, <3>1, <3>2, <3>7, StageMoves DEF JobSound, Stages
    <2>3. CASE job[j].failed # {}
      BY <1>10, <2>1, <2>3, JobFailsKeeps DEF FinishPublishing, JobMoves
    <2> QED
      BY <2>2, <2>3
  <1> QED
    BY <1>1, <1>2, <1>3, <1>4, <1>5, <1>6, <1>7, <1>8, <1>9, <1>10 DEF PublishNext

LEMMA PublishInvHolds == PublishSpec => []PublishInv
  <1>1. PublishInit => PublishInv
    <2> SUFFICES ASSUME PublishInit PROVE PublishInv
      OBVIOUS
    <2> DEFINE b == [stage |-> "queued", left |-> <<>>, failed |-> {}]
    <2>1. b \in JobRecords /\ b.stage = "queued"
      BY DEF JobRecords, Stages
    <2>2. JobSound(b)
      BY <2>1 DEF JobSound
    <2>3. job = [j \in Jobs |-> b]
      BY DEF PublishInit
    <2> HIDE DEF b
    <2>4. job \in [Jobs -> JobRecords] /\ \A j \in Jobs : JobSound(job[j])
      BY <2>1, <2>2, <2>3
    <2> QED
      BY <2>4 DEF PublishInit, PublishInv, DepsOK
  <1> QED
    BY <1>1, PublishKeptByNext, PTL DEF PublishSpec

(* The repository, the registry and the jobs have their type.              *)
THEOREM PublishingIsTyped == PublishSpec => []PublishTypeOK
  <1>1. PublishInv => PublishTypeOK
    <2> SUFFICES ASSUME PublishInv PROVE PublishTypeOK
      OBVIOUS
    <2>1. \A s \in Seq(Packages) : ToSet(s) \subseteq Packages
      BY DEF ToSet
    <2> QED
      BY <2>1 DEF PublishInv, DepsOK, JobRecords, Stages, PublishTypeOK
  <1> QED
    BY <1>1, PublishInvHolds, PTL

(* However many packages there are, however they depend on each other and  *)
(* however many jobs run: see DependenciesComeFirst.                       *)
LEMMA PublishingIsInOrder ==
  PublishInv /\ [PublishNext]_publishVars =>
    [/\ \A p \in registry' \ registry : synced /\ DepsOf(p) \subseteq registry
     /\ \A j \in Jobs :
           job[j].stage = "building" /\ job[j].left # <<>> =>
              DepsOf(Current(j)) \cap ToSet(job[j].left) = {}]_publishVars
  <1> SUFFICES ASSUME PublishInv, [PublishNext]_publishVars
               PROVE  /\ \A p \in registry' \ registry :
                            synced /\ DepsOf(p) \subseteq registry
                      /\ \A j \in Jobs :
                            job[j].stage = "building" /\ job[j].left # <<>> =>
                               DepsOf(Current(j)) \cap ToSet(job[j].left) = {}
    OBVIOUS
  <1>0. DepsOK /\ \A j \in Jobs : job[j] \in JobRecords /\ JobSound(job[j])
    BY DEF PublishInv
  <1>1. ASSUME NEW j \in Jobs, job[j].stage = "building", job[j].left # <<>>
        PROVE  DepsOf(Current(j)) \cap ToSet(job[j].left) = {}
    <2>1. ~Traverse.circular /\ Remains(job[j].left) /\ job[j].left \in Seq(Packages)
      BY <1>0, <1>1 DEF JobSound, JobRecords
    <2> QED
      BY <1>0, <1>1, <2>1, DependenciesAreBehind DEF Current
  <1>2. ASSUME NEW p \in registry' \ registry
        PROVE  synced /\ DepsOf(p) \subseteq registry
    <2>1. PICK j \in Jobs, outcome \in {"accepted", "lost", "duplicate", "refused"} :
             Publish(j, outcome)
      BY <1>2 DEF PublishNext, publishVars, StepFails, CheckInternalDeps, PlanBuild,
                  Build, StartPublishing, NextPackage, View, FinishPublishing, JobMoves
    <2>2. p = Current(j) /\ job[j].stage = "sending"
      BY <1>2, <2>1 DEF Publish
    <2>3. /\ synced /\ ~Traverse.circular /\ Remains(job[j].left)
          /\ HandledTo(Position(job[j].left), job[j].failed)
          /\ job[j].left # <<>> /\ DepsOf(Head(job[j].left)) \cap job[j].failed = {}
          /\ job[j].left \in Seq(Packages)
      BY <1>0, <2>2 DEF JobSound, JobRecords
    <2>4. \A d \in DepsOf(p) : \E i \in 1..Position(job[j].left) : Traverse.order[i] = d
      BY <1>0, <2>2, <2>3, DependenciesAreBehind DEF Current
    <2>5. \A d \in DepsOf(p) : d \in registry \cup job[j].failed
      BY <2>3, <2>4 DEF HandledTo
    <2> QED
      BY <2>2, <2>3, <2>5 DEF Current
  <1> QED
    BY <1>1, <1>2

(* Nothing is on npm, and nothing is built, before what it depends on.     *)
THEOREM PublishOrderIsKept == PublishSpec => DependenciesComeFirst
  BY PublishInvHolds, PublishingIsInOrder, PTL DEF PublishSpec, DependenciesComeFirst

(* A job that exits with 0 has every package on npm.                       *)
THEOREM ExitIsPublished == PublishSpec => []ExitMeansPublished
  <1>1. PublishInv => ExitMeansPublished
    BY DEF PublishInv, JobSound, ExitMeansPublished
  <1> QED
    BY <1>1, PublishInvHolds, PTL

-----------------------------------------------------------------------------
(***************************************************************************)
(* The verification of a release.  What is known of the release, and what  *)
(* is left over, by the step that has been reached.                        *)
(***************************************************************************)
RunRecords ==
    [step : {"resolve", "install", "manifests", "boot", "consumer",
             "close", "remove", "passed", "failed", "exited"},
     attempt : 1..ResolveAttempts, overall : {"pass", "fail"},
     failure : {"none", "resolve", "install", "verify", "contract", "internal"},
     attached : BOOLEAN, cleanup : BOOLEAN,
     exit : {"none", "0", "1"},
     written : {"none", "pass", "fail", "unavailable"}]

Progress ==
    /\ run.step \in {"boot", "consumer"} => release.right
    /\ run.step \in {"resolve", "install", "manifests", "boot", "consumer"} =>
          run.overall = "fail" /\ run.failure = "none"
    /\ run.overall = "pass" => IsGood(release)
    /\ run.step \in {"close", "remove"} /\ run.failure = "none" => run.overall = "pass"
    /\ run.step # "exited" => run.exit = "none" /\ run.written = "none"

Leftovers ==
    /\ run.step \notin {"boot", "consumer", "close"} => ~left.server
    /\ run.step = "consumer" => left.server
    /\ run.step = "close" /\ run.failure = "none" => left.server
    /\ run.step = "remove" /\ run.failure = "none" => (left.keys => run.cleanup)
    /\ run.step = "passed" => left = Nothing /\ run.overall = "pass"

VerifyInv == VerifyTypeOK /\ Progress /\ Leftovers /\ ExitMeansVerified

(* A run that only moves on.                                               *)
LEMMA VerifyMoves ==
    ASSUME VerifyInv, UNCHANGED release,
           NEW r \in RunRecords, run' = r,
           left' \in [project : BOOLEAN, keys : BOOLEAN, server : BOOLEAN],
           run.step # "exited",
           r.exit = "none", r.written = "none",
           r.step # "exited",
           r.step \in {"boot", "consumer"} => release.right,
           r.step \in {"resolve", "install", "manifests", "boot", "consumer"} =>
              r.overall = "fail" /\ r.failure = "none",
           r.overall = "pass" => IsGood(release),
           r.step \in {"close", "remove"} /\ r.failure = "none" => r.overall = "pass",
           r.step \notin {"boot", "consumer", "close"} => ~left'.server,
           r.step = "consumer" => left'.server,
           r.step = "close" /\ r.failure = "none" => left'.server,
           r.step = "remove" /\ r.failure = "none" => (left'.keys => r.cleanup),
           r.step = "passed" =>
              ~left'.project /\ ~left'.keys /\ ~left'.server /\ r.overall = "pass"
    PROVE  VerifyInv'
<1>1. VerifyTypeOK'
  BY DEF VerifyInv, VerifyTypeOK, RunRecords
<1>2. Progress'
  BY DEF VerifyInv, Progress
<1>3. left'.project = FALSE /\ left'.keys = FALSE /\ left'.server = FALSE
        => left' = Nothing
  BY DEF Nothing
<1>4. Leftovers'
  BY <1>3 DEF Leftovers, Nothing
<1>5. ExitMeansVerified'
  BY DEF VerifyInv, ExitMeansVerified, Progress
<1>. QED
  BY <1>1, <1>2, <1>4, <1>5 DEF VerifyInv

Lefts == [project : BOOLEAN, keys : BOOLEAN, server : BOOLEAN]

(* Something is thrown before the verification has passed.                 *)
LEMMA ThrowKeeps ==
    ASSUME VerifyInv, UNCHANGED release,
           NEW phase \in {"resolve", "install", "verify", "contract", "internal"},
           Throw(phase), left' \in Lefts,
           run.step \in {"resolve", "install", "manifests", "boot", "consumer"}
    PROVE  VerifyInv'
<1>. DEFINE r == [run EXCEPT !.step = "close", !.failure = phase, !.attached = TRUE]
<1>1. run \in RunRecords
  BY DEF VerifyInv, VerifyTypeOK, RunRecords
<1>2. /\ r \in RunRecords /\ r.step = "close" /\ r.failure = phase
      /\ r.overall = run.overall /\ r.exit = run.exit /\ r.written = run.written
  BY <1>1 DEF RunRecords
<1>3. run' = r
  BY DEF Throw
<1>4. run.overall = "fail" /\ run.exit = "none" /\ run.written = "none"
  BY DEF VerifyInv, Progress
<1>. HIDE DEF r
<1>. QED
  BY <1>2, <1>3, <1>4, VerifyMoves DEF Lefts

(* The verification goes on to its next step.                              *)
LEMMA MovesKeeps ==
    ASSUME VerifyInv, UNCHANGED release,
           NEW to \in {"install", "manifests", "boot", "consumer", "remove",
                       "passed", "failed"},
           Moves(to), left' \in Lefts,
           run.step # "exited",
           to \in {"boot", "consumer"} => release.right,
           to \in {"install", "manifests", "boot", "consumer"} =>
              run.overall = "fail" /\ run.failure = "none",
           to = "remove" /\ run.failure = "none" => run.overall = "pass",
           to \notin {"boot", "consumer"} => ~left'.server,
           to = "consumer" => left'.server,
           to = "remove" /\ run.failure = "none" => (left'.keys => run.cleanup),
           to = "passed" =>
              ~left'.project /\ ~left'.keys /\ ~left'.server /\ run.overall = "pass"
    PROVE  VerifyInv'
<1>. DEFINE r == [run EXCEPT !.step = to]
<1>1. run \in RunRecords
  BY DEF VerifyInv, VerifyTypeOK, RunRecords
<1>2. /\ r \in RunRecords /\ r.step = to /\ r.failure = run.failure
      /\ r.overall = run.overall /\ r.exit = run.exit /\ r.written = run.written
      /\ r.cleanup = run.cleanup
  BY <1>1 DEF RunRecords
<1>3. run' = r
  BY DEF Moves
<1>4. /\ run.exit = "none" /\ run.written = "none"
      /\ run.overall = "pass" => IsGood(release)
  BY DEF VerifyInv, Progress
<1>. HIDE DEF r
<1>. QED
  BY <1>2, <1>3, <1>4, VerifyMoves DEF Lefts

LEMMA VerifyKeptByNext == VerifyInv /\ [VerifyNext]_verifyVars => VerifyInv'
<1>. SUFFICES ASSUME VerifyInv, [VerifyNext]_verifyVars
              PROVE  VerifyInv'
  OBVIOUS
<1>0. /\ run \in RunRecords /\ left \in Lefts /\ release \in Releases
      /\ Progress /\ Leftovers
  BY DEF VerifyInv, VerifyTypeOK, RunRecords, Lefts
<1>1. CASE UNCHANGED verifyVars
  BY <1>1 DEF verifyVars, VerifyInv, VerifyTypeOK, Progress, Leftovers,
              ExitMeansVerified
<1>2. CASE RefuseVersion
  BY <1>0, <1>2, MovesKeeps DEF RefuseVersion, Leftovers
<1>3. ASSUME NEW answer \in {"found", "garbled", "transient", "refused"}, Resolve(answer)
      PROVE  VerifyInv'
  <2>1. /\ UNCHANGED <<release, left>> /\ run.step = "resolve"
        /\ \/ Moves("install") \/ Throw("internal") \/ Throw("resolve")
           \/ /\ run.attempt < ResolveAttempts
              /\ run' = [run EXCEPT !.attempt = @ + 1]
    BY <1>3 DEF Resolve
  <2>2. CASE Moves("install")
    BY <1>0, <2>1, <2>2, MovesKeeps DEF Progress, Leftovers
  <2>3. CASE Throw("internal") \/ Throw("resolve")
    BY <1>0, <2>1, <2>3, ThrowKeeps
  <2>4. CASE /\ run.attempt < ResolveAttempts
             /\ run' = [run EXCEPT !.attempt = @ + 1]
    <3>. DEFINE r == [run EXCEPT !.attempt = run.attempt + 1]
    <3>1. run.attempt + 1 \in 1..ResolveAttempts
      BY <1>0, <2>4, VerifyAssumption DEF RunRecords
    <3>2. /\ r \in RunRecords /\ r.step = "resolve" /\ r.failure = run.failure
          /\ r.overall = run.overall /\ r.exit = run.exit /\ r.written = run.written
      BY <1>0, <2>1, <3>1 DEF RunRecords
    <3>3. run' = r
      BY <2>4
    <3>. HIDE DEF r
    <3>. QED
      BY <1>0, <2>1, <3>2, <3>3, VerifyMoves DEF Progress, Leftovers, Lefts
  <2>. QED
    BY <2>1, <2>2, <2>3, <2>4
<1>4. ASSUME NEW outcome \in {"installed", "failed", "no directory"}, Install(outcome)
      PROVE  VerifyInv'
  <2>1. /\ UNCHANGED release /\ run.step = "install"
        /\ left' = [left EXCEPT !.project = outcome # "no directory"]
        /\ Moves("manifests") \/ Throw("install") \/ Throw("internal")
    BY <1>4 DEF Install
  <2>2. left' \in Lefts /\ left'.server = left.server
    BY <1>0, <2>1 DEF Lefts
  <2>3. CASE Moves("manifests")
    BY <1>0, <2>1, <2>2, <2>3, MovesKeeps DEF Progress, Leftovers
  <2>4. CASE Throw("install") \/ Throw("internal")
    BY <2>1, <2>2, <2>4, ThrowKeeps
  <2>. QED
    BY <2>1, <2>3, <2>4
<1>5. ASSUME NEW phase \in {"verify", "internal"}, CheckManifests(phase)
      PROVE  VerifyInv'
  <2>1. CASE release.right
    <3>1. Moves("boot") /\ UNCHANGED <<release, left>> /\ run.step = "manifests"
      BY <1>5, <2>1 DEF CheckManifests
    <3>. QED
      BY <1>0, <2>1, <3>1, MovesKeeps DEF Progress
  <2>2. CASE ~release.right
    BY <1>0, <1>5, <2>2, ThrowKeeps DEF CheckManifests
  <2>. QED
    BY <2>1, <2>2
<1>6. CASE MakeKeys \/ SpawnServer
  <2>1. /\ run' = run /\ release' = release /\ run.step = "boot"
        /\ left' \in Lefts
    BY <1>0, <1>6 DEF MakeKeys, SpawnServer, Lefts
  <2>. QED
    BY <1>0, <2>1, VerifyMoves DEF Progress, Lefts
<1>7. CASE ServerReady
  BY <1>0, <1>7, MovesKeeps DEF ServerReady, Progress
<1>8. ASSUME NEW removed \in BOOLEAN, BootFails(removed)
      PROVE  VerifyInv'
  <2>1. left' \in Lefts
    <3>1. (left.keys /\ ~removed) \in BOOLEAN
      OBVIOUS
    <3>. QED
      BY <1>0, <1>8, <3>1 DEF BootFails, Lefts
  <2>. QED
    BY <1>8, <2>1, ThrowKeeps DEF BootFails
<1>9. CASE BootCrashes
  <2>1. /\ run' \in RunRecords /\ run'.step = "exited" /\ run'.exit = "1"
        /\ run'.overall = run.overall /\ run'.written = run.written
        /\ release' = release
    BY <1>0, <1>9 DEF BootCrashes, RunRecords
  <2>2. left' \in Lefts /\ left'.server = FALSE
    BY <1>0, <1>9 DEF BootCrashes, Lefts
  <2>3. run.overall = "fail" /\ run.written = "none"
    BY <1>0, <1>9 DEF BootCrashes, Progress
  <2>4. VerifyTypeOK'
    BY <1>0, <2>1, <2>2 DEF VerifyTypeOK, RunRecords, Lefts
  <2>. QED
    BY <2>1, <2>2, <2>3, <2>4 DEF VerifyInv, Progress, Leftovers, ExitMeansVerified
<1>10. ASSUME NEW o \in ConsumerOutcomes, RunConsumer(o)
       PROVE  VerifyInv'
  <2>1. /\ run.step = "consumer" /\ UNCHANGED <<release, left>>
        /\ ConsumerIsPossible(o)
    BY <1>10 DEF RunConsumer
  <2>2. CASE Verdict(o) = "none"
    <3>. DEFINE r == [run EXCEPT !.step = "close", !.overall = "pass"]
    <3>1. /\ r \in RunRecords /\ r.step = "close" /\ r.failure = run.failure
          /\ r.overall = "pass" /\ r.exit = run.exit /\ r.written = run.written
      BY <1>0 DEF RunRecords
    <3>2. run' = r
      BY <1>10, <2>2 DEF RunConsumer
    <3>3. release.inside /\ release.sound
      BY <1>0, <2>1, <2>2 DEF Verdict, ConsumerOutcomes, Releases
    <3>4. IsGood(release) /\ left.server
      BY <1>0, <2>1, <3>3 DEF IsGood, Progress, Leftovers
    <3>. HIDE DEF r
    <3>. QED
      BY <1>0, <2>1, <3>1, <3>2, <3>4, VerifyMoves DEF Progress, Lefts
  <2>3. CASE Verdict(o) # "none"
    <3>1. Verdict(o) \in {"contract", "verify", "internal", "none"}
      BY DEF Verdict
    <3>. QED
      BY <1>0, <1>10, <2>1, <2>3, <3>1, ThrowKeeps DEF RunConsumer
  <2>. QED
    BY <2>2, <2>3
<1>11. ASSUME NEW removed \in BOOLEAN, CloseServer(removed)
       PROVE  VerifyInv'
  <2>1. CASE left.server
    <3>. DEFINE r == [run EXCEPT !.step = "remove", !.cleanup = ~removed]
    <3>1. (~removed) \in BOOLEAN
      OBVIOUS
    <3>2. /\ r \in RunRecords /\ r.step = "remove" /\ r.failure = run.failure
          /\ r.overall = run.overall /\ r.exit = run.exit /\ r.written = run.written
          /\ r.cleanup = ~removed
      BY <1>0, <3>1 DEF RunRecords
    <3>3. run' = r /\ release' = release /\ run.step = "close"
      BY <1>11, <2>1 DEF CloseServer
    <3>4. left' \in Lefts /\ left'.server = FALSE /\ left'.keys = ~removed
      BY <1>0, <1>11, <2>1, <3>1 DEF CloseServer, Lefts
    <3>. HIDE DEF r
    <3>. QED
      BY <1>0, <3>2, <3>3, <3>4, VerifyMoves DEF Progress, Lefts
  <2>2. CASE ~left.server
    <3>1. Moves("remove") /\ UNCHANGED <<release, left>> /\ run.step = "close"
      BY <1>11, <2>2 DEF CloseServer
    <3>2. run.failure # "none"
      BY <1>0, <2>2, <3>1 DEF Leftovers
    <3>. QED
      BY <1>0, <2>2, <3>1, <3>2, MovesKeeps
  <2>. QED
    BY <2>1, <2>2
<1>12. ASSUME NEW removed \in BOOLEAN, RemoveProject(removed)
       PROVE  VerifyInv'
  <2>1. /\ run.step = "remove" /\ release' = release
        /\ left' = [left EXCEPT !.project = left.project /\ ~removed]
    BY <1>12 DEF RemoveProject
  <2>2. /\ left' \in Lefts /\ left'.server = left.server /\ left'.keys = left.keys
        /\ left'.project <=> left.project /\ ~removed
    <3>1. (left.project /\ ~removed) \in BOOLEAN
      OBVIOUS
    <3>. QED
      BY <1>0, <2>1, <3>1 DEF Lefts
  <2>3. ~left.server
    BY <1>0, <2>1 DEF Leftovers
  <2>4. CASE left.project /\ ~removed
    <3>. DEFINE r == [run EXCEPT !.step = "failed", !.attached = FALSE]
    <3>1. /\ r \in RunRecords /\ r.step = "failed" /\ r.failure = run.failure
          /\ r.overall = run.overall /\ r.exit = run.exit /\ r.written = run.written
      BY <1>0 DEF RunRecords
    <3>2. run' = r
      BY <1>12, <2>4 DEF RemoveProject
    <3>. HIDE DEF r
    <3>. QED
      BY <1>0, <2>1, <2>2, <2>3, <3>1, <3>2, VerifyMoves DEF Progress, Lefts
  <2>5. CASE (removed \/ ~left.project) /\ run.cleanup /\ run.failure = "none"
    <3>. DEFINE r == [run EXCEPT !.step = "failed", !.failure = "internal",
                                 !.attached = TRUE]
    <3>1. /\ r \in RunRecords /\ r.step = "failed" /\ r.failure = "internal"
          /\ r.overall = run.overall /\ r.exit = run.exit /\ r.written = run.written
      BY <1>0 DEF RunRecords
    <3>2. run' = r
      BY <1>12, <2>5 DEF RemoveProject
    <3>. HIDE DEF r
    <3>. QED
      BY <1>0, <2>1, <2>2, <2>3, <3>1, <3>2, VerifyMoves DEF Progress, Lefts
  <2>6. CASE (removed \/ ~left.project) /\ ~(run.cleanup /\ run.failure = "none")
    <3>1. Moves(IF run.failure = "none" THEN "passed" ELSE "failed")
      BY <1>12, <2>6 DEF RemoveProject
    <3>2. CASE run.failure = "none"
      <4>1. ~left.keys /\ run.overall = "pass"
        BY <1>0, <2>1, <2>6, <3>2 DEF Progress, Leftovers
      <4>. QED
        BY <2>1, <2>2, <2>3, <2>6, <3>1, <3>2, <4>1, MovesKeeps
    <3>3. CASE run.failure # "none"
      BY <2>1, <2>2, <2>3, <3>1, <3>3, MovesKeeps
    <3>. QED
      BY <3>2, <3>3
  <2>. QED
    BY <2>4, <2>5, <2>6
<1>13. ASSUME NEW requested \in BOOLEAN, Exit(requested)
       PROVE  VerifyInv'
  <2>1. /\ run.step \in {"passed", "failed"} /\ release' = release /\ left' = left
        /\ \E exit \in {"0", "1"}, written \in {"none", "pass", "fail", "unavailable"} :
              /\ run' = [run EXCEPT !.step = "exited", !.exit = exit, !.written = written]
              /\ exit = "0" => run.step = "passed"
              /\ written = "pass" => run.overall = "pass"
    BY <1>0, <1>13 DEF Exit, RunRecords
  <2>2. PICK exit \in {"0", "1"}, written \in {"none", "pass", "fail", "unavailable"} :
          /\ run' = [run EXCEPT !.step = "exited", !.exit = exit, !.written = written]
          /\ exit = "0" => run.step = "passed"
          /\ written = "pass" => run.overall = "pass"
    BY <2>1
  <2>3. /\ run' \in RunRecords /\ run'.step = "exited" /\ run'.exit = exit
        /\ run'.written = written /\ run'.overall = run.overall
    BY <1>0, <2>2 DEF RunRecords
  <2>4. VerifyTypeOK'
    BY <1>0, <2>1, <2>3 DEF VerifyTypeOK, RunRecords, Lefts
  <2>5. /\ ~left.server
        /\ exit = "0" => left = Nothing /\ run.overall = "pass"
        /\ run.overall = "pass" => IsGood(release)
    BY <1>0, <2>1, <2>2 DEF Leftovers, Progress
  <2>. QED
    BY <2>1, <2>2, <2>3, <2>4, <2>5
       DEF VerifyInv, Progress, Leftovers, ExitMeansVerified
<1>. QED
  BY <1>1, <1>2, <1>3, <1>4, <1>5, <1>6, <1>7, <1>8, <1>9, <1>10, <1>11, <1>12,
     <1>13 DEF VerifyNext

LEMMA VerifyInvHolds == VerifySpec => []VerifyInv
<1>1. VerifyInit => VerifyInv
  BY VerifyAssumption
     DEF VerifyInit, VerifyInv, VerifyTypeOK, Progress, Leftovers,
         ExitMeansVerified, Nothing
<1>. QED
  BY <1>1, VerifyKeptByNext, PTL DEF VerifySpec

(* The release, the run and its leftovers have their type.                 *)
THEOREM VerificationIsTyped == VerifySpec => []VerifyTypeOK
<1>1. VerifyInv => VerifyTypeOK
  BY DEF VerifyInv
<1>. QED
  BY <1>1, VerifyInvHolds, PTL

(* However many lookups a run may take, an exit with 0 proves the release, *)
(* and nothing is left running: see ExitMeansVerified.                     *)
THEOREM VerificationIsTrue == VerifySpec => []ExitMeansVerified
<1>1. VerifyInv => ExitMeansVerified
  BY DEF VerifyInv
<1>. QED
  BY <1>1, VerifyInvHolds, PTL

-----------------------------------------------------------------------------
(***************************************************************************)
(* The run checks either workflow at a time, so both are as they are alone.*)
(***************************************************************************)
LEMMA BothWorkflowsRun == MCSpec => PublishSpec /\ VerifySpec
  <1>1. MCInit => PublishInit /\ VerifyInit
    BY DEF MCInit
  <1>2. [MCNext]_releaseVars => [PublishNext]_publishVars /\ [VerifyNext]_verifyVars
    BY DEF MCNext, releaseVars
  <1> QED
    BY <1>1, <1>2, PTL DEF MCSpec, PublishSpec, VerifySpec

(* Nothing reaches npm before what it depends on, in the system that the   *)
(* run checks: see DependenciesComeFirst.                                  *)
THEOREM ReleaseOrderIsKept == MCSpec => DependenciesComeFirst
  BY BothWorkflowsRun, PublishOrderIsKept, PTL

(* Whichever script it is, an exit with 0 proves what the script is for:   *)
(* see ExitsTellTheTruth.                                                  *)
THEOREM ExitsAreTrue == MCSpec => []ExitsTellTheTruth
  <1>1. ExitMeansPublished /\ ExitMeansVerified => ExitsTellTheTruth
    BY DEF ExitsTellTheTruth
  <1> QED
    BY <1>1, BothWorkflowsRun, ExitIsPublished, VerificationIsTrue, PTL
=============================================================================
