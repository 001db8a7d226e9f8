------------------------ MODULE AudienceCohortProofs ------------------------
(***************************************************************************)
(* What a complete audience run says: its rows, its arms and its counts are *)
(* those of one in-memory draw over the whole audience, and the run         *)
(* implements the atomic freeze of FrozenCohort                             *)
(* (packages/campaign-engine/src/audience-run.ts,                           *)
(* packages/customer-state/src/experiments.ts).                             *)
(*                                                                         *)
(* First the control arithmetic, for every census, rate and hash; then the  *)
(* inductive invariant Truth, which says of the durable rows and of every   *)
(* call's local variables how far they agree with what the audience ought   *)
(* to be frozen as; then one lemma per group of actions, and the theorems.  *)
(*                                                                         *)
(* Sums over sets are proved about by taking a smallest counterexample.     *)
(***************************************************************************)
EXTENDS AudienceRunProofs, WellFoundedInduction

-----------------------------------------------------------------------------
(* Sums over sets, and the control arithmetic *)

(* A nonempty set of subsets of a finite set has a member with no smaller   *)
(* one: what the sums over sets are proved by.                              *)
LEMMA SmallestSet ==
    ASSUME NEW S, IsFiniteSet(S), NEW U, U \subseteq SUBSET S, U # {}
    PROVE  \E T \in U : \A V \in U : V \subseteq T => V = T
<1>1. IsWellFoundedOn(StrictSubsetOrdering(S), SUBSET S)
  BY FS_StrictSubsetOrderingWellFounded, FS_FiniteSubsetsOfFinite
<1> DEFINE R == StrictSubsetOrdering(S)
<1>2. \E T \in U : \A V \in U : <<V, T>> \notin R
  <2> HIDE DEF R
  <2>1. IsWellFoundedOn(R, SUBSET S)
    BY <1>1 DEF R
  <2> QED BY <2>1, WFMin
<1> QED BY <1>2 DEF StrictSubsetOrdering

(* The part of a finite set that a partition puts in T.                     *)
Members(part, T) == {c \in DOMAIN part : part[c] \in T}

(* The recursion by which the community modules sum size over a set: g has  *)
(* the sum of every subset of S.                                            *)
Sums(g, size, S) ==
    g = [T \in SUBSET S |->
            IF T = {} THEN 0
            ELSE size[CHOOSE x \in T : TRUE] + g[T \ {CHOOSE x \in T : TRUE}]]

(* Adding up the sizes of the parts counts every element once.              *)
LEMMA SumOfParts ==
    ASSUME NEW part, IsFiniteSet(DOMAIN part), NEW S, IsFiniteSet(S), NEW size,
           \A s \in S : size[s] = Cardinality({c \in DOMAIN part : part[c] = s})
    PROVE  LET count == [T \in SUBSET S |-> Cardinality(Members(part, T))]
           IN  /\ Sums(count, size, S)
               /\ \A g : Sums(g, size, S) => g[S] = count[S]
<1> DEFINE count == [T \in SUBSET S |-> Cardinality(Members(part, T))]
<1>1. \A T : IsFiniteSet(Members(part, T)) /\ Cardinality(Members(part, T)) \in Nat
  <2> SUFFICES ASSUME NEW T
               PROVE  IsFiniteSet(Members(part, T)) /\ Cardinality(Members(part, T)) \in Nat
    OBVIOUS
  <2>1. Members(part, T) \in SUBSET DOMAIN part
    BY DEF Members
  <2> QED BY <2>1, FS_Subset, FS_CardinalityType
<1>2. ASSUME NEW T \in SUBSET S, NEW x \in T
      PROVE  count[T] = size[x] + count[T \ {x}]
  <2> DEFINE A == Members(part, {x})
             B == Members(part, T \ {x})
  <2>1. Members(part, T) = A \union B /\ A \intersect B = {}
    BY DEF Members
  <2>2. /\ IsFiniteSet(A) /\ IsFiniteSet(B) /\ Cardinality(A) \in Nat /\ Cardinality(B) \in Nat
        /\ Cardinality({}) = 0
    BY <1>1, FS_EmptySet
  <2>3. Cardinality(A \union B) = Cardinality(A) + Cardinality(B)
    <3> HIDE DEF A, B
    <3>1. Cardinality(A \union B) = Cardinality(A) + Cardinality(B) - Cardinality(A \intersect B)
      BY <2>2, FS_Union
    <3>2. Cardinality(A \intersect B) = 0
      BY <2>1, FS_EmptySet
    <3> QED BY <3>1, <3>2, <2>2
  <2>4. size[x] = Cardinality(A)
    <3>1. A = {c \in DOMAIN part : part[c] = x}
      BY DEF Members
    <3> QED BY <3>1
  <2>5. T \ {x} \in SUBSET S
    OBVIOUS
  <2> QED BY <2>1, <2>3, <2>4, <2>5
<1>3. count[{}] = 0
  <2>1. Members(part, {}) = {}
    BY DEF Members
  <2> QED BY <2>1, FS_EmptySet
<1>4. Sums(count, size, S)
  <2> DEFINE next == [T \in SUBSET S |->
                        IF T = {} THEN 0
                        ELSE size[CHOOSE x \in T : TRUE] + count[T \ {CHOOSE x \in T : TRUE}]]
  <2>1. ASSUME NEW T \in SUBSET S PROVE count[T] = next[T]
    <3>1. CASE T = {}
      BY <3>1, <1>3
    <3>2. CASE T # {}
      <4>1. (CHOOSE x \in T : TRUE) \in T
        BY <3>2
      <4> HIDE DEF count
      <4>2. count[T] = size[CHOOSE x \in T : TRUE] + count[T \ {CHOOSE x \in T : TRUE}]
        BY <4>1, <1>2
      <4> QED BY <3>2, <4>2
    <3> QED BY <3>1, <3>2
  <2>2. DOMAIN count = SUBSET S
    OBVIOUS
  <2> QED BY <2>1, <2>2 DEF Sums
<1>5. ASSUME NEW g, Sums(g, size, S)
      PROVE  g[S] = count[S]
  <2> DEFINE Bad == {T \in SUBSET S : g[T] # count[T]}
  <2>1. SUFFICES ASSUME Bad # {} PROVE FALSE
    BY <2>1
  <2>2. PICK T \in Bad : \A V \in Bad : V \subseteq T => V = T
    <3> HIDE DEF count
    <3>1. Bad \subseteq SUBSET S
      OBVIOUS
    <3> HIDE DEF Bad
    <3> QED BY <2>1, <3>1, SmallestSet
  <2>3. T \in SUBSET S /\ g[T] # count[T]
    OBVIOUS
  <2> DEFINE x == CHOOSE x \in T : TRUE
  <2> HIDE DEF count
  <2>4. g[T] = IF T = {} THEN 0 ELSE size[x] + g[T \ {x}]
    BY <1>5, <2>3 DEF Sums
  <2>5. T # {}
    BY <2>3, <2>4, <1>3
  <2>6. x \in T
    BY <2>5
  <2>7. T \ {x} \in SUBSET S /\ T \ {x} # T /\ T \ {x} \subseteq T
    BY <2>6, <2>3
  <2>8. g[T \ {x}] = count[T \ {x}]
    BY <2>2, <2>7
  <2>9. count[T] = size[x] + count[T \ {x}]
    BY <1>2, <2>3, <2>6
  <2> QED BY <2>3, <2>4, <2>5, <2>8, <2>9
<1> HIDE DEF count
<1>6. Sums(count, size, S) /\ \A g : Sums(g, size, S) => g[S] = count[S]
  BY <1>4, <1>5
<1> QED BY <1>6 DEF count

(* The census of a stratum map, summed.                                     *)
LEMMA CensusSum ==
    ASSUME NEW stratum, IsFiniteSet(DOMAIN stratum), NEW S, S \subseteq Strata
    PROVE  MapThenSumSet(LAMBDA s : CensusOf(stratum)[s], S) = Cardinality(Members(stratum, S))
<1> DEFINE census == CensusOf(stratum)
           count  == [T \in SUBSET S |-> Cardinality(Members(stratum, T))]
<1>1. IsFiniteSet(S)
  BY QuotaAssumption, FS_Subset
<1>2. Sums(count, census, S) /\ \A g : Sums(g, census, S) => g[S] = count[S]
  <2>1. \A s \in S : census[s] = Cardinality({c \in DOMAIN stratum : stratum[c] = s})
    BY DEF CensusOf
  <2> HIDE DEF census
  <2> QED BY <1>1, <2>1, SumOfParts
<1>3. MapThenSumSet(LAMBDA s : CensusOf(stratum)[s], S) = (CHOOSE g : Sums(g, census, S))[S]
  BY DEF MapThenSumSet, MapThenFoldSet, Sums
<1>4. Sums(CHOOSE g : Sums(g, census, S), census, S)
  <2> HIDE DEF census
  <2> QED BY <1>2
<1> HIDE DEF census
<1> QED BY <1>2, <1>3, <1>4

(* A candidate's stratum is counted.                                        *)
LEMMA StratumCounted ==
    ASSUME NEW stratum, IsFiniteSet(DOMAIN stratum), NEW c \in DOMAIN stratum,
           stratum[c] \in Strata
    PROVE  stratum[c] \in CountedStrata(CensusOf(stratum))
<1> DEFINE census == CensusOf(stratum)
           peers  == {d \in DOMAIN stratum : stratum[d] = stratum[c]}
<1>1. c \in peers /\ peers \in SUBSET DOMAIN stratum
  OBVIOUS
<1> HIDE DEF peers
<1>2. IsFiniteSet(peers) /\ Cardinality(peers) \in Nat /\ Cardinality(peers) # 0
  BY <1>1, FS_Subset, FS_CardinalityType, FS_EmptySet
<1>3. census[stratum[c]] = Cardinality(peers)
  BY DEF CensusOf, peers
<1>4. census[stratum[c]] > 0
  BY <1>2, <1>3
<1> QED BY <1>4 DEF CountedStrata

(* What a stratum's candidates are planned under is counted once each: the  *)
(* planned count of an assignment stratum is the size of its group.         *)
LEMMA PlannedCountOfGroup ==
    ASSUME NEW stratum, IsFiniteSet(DOMAIN stratum),
           \A c \in DOMAIN stratum : stratum[c] \in Strata,
           NEW a
    PROVE  LET census == CensusOf(stratum)
               group  == {c \in DOMAIN stratum : AssignmentStratum(census, stratum[c]) = a}
           IN  /\ PlannedCount(census, a) = Cardinality(group)
               /\ a \notin PlannedStrata(census) => group = {}
<1> DEFINE census == CensusOf(stratum)
           group  == {c \in DOMAIN stratum : AssignmentStratum(census, stratum[c]) = a}
           sources == {s \in CountedStrata(census) : AssignmentStratum(census, s) = a}
<1>1. \A c \in DOMAIN stratum : stratum[c] \in CountedStrata(census)
  BY StratumCounted
<1>2. Members(stratum, sources) = group
  BY <1>1 DEF Members
<1>3. PlannedCount(census, a) = Cardinality(Members(stratum, sources))
  <2>1. sources \subseteq Strata
    BY DEF CountedStrata
  <2> HIDE DEF sources
  <2>2. MapThenSumSet(LAMBDA s : CensusOf(stratum)[s], sources)
          = Cardinality(Members(stratum, sources))
    BY <2>1, CensusSum
  <2> QED BY <2>2 DEF PlannedCount, sources
<1>4. a \notin PlannedStrata(census) => group = {}
  BY <1>1 DEF PlannedStrata
<1> QED BY <1>2, <1>3, <1>4

(* The draw in the database, over rows that carry their final stratum and   *)
(* the hash of one set of parameters, is the draw in memory.                *)
LEMMA DrawIsReference ==
    ASSUME NEW rows, IsFiniteSet(DOMAIN rows), NEW stratum, NEW hash, NEW rates,
           stratum = [c \in Candidates(rows) |-> rows[c].verdict],
           \A c \in Candidates(rows) :
              /\ rows[c].assigned = AssignmentStratum(CensusOf(stratum), rows[c].verdict)
              /\ Hash[rows[c].seed] = hash
    PROVE  \A c \in Candidates(rows) :
              DrawnArms(rows, CensusOf(stratum), rates)[c]
                = AssignStratifiedCohortArms(stratum, hash, rates)[c]
<1> DEFINE census   == CensusOf(stratum)
           Group(a) == {c \in DOMAIN stratum : AssignmentStratum(census, stratum[c]) = a}
           value    == [c \in Candidates(rows) |-> RowHash(rows, c)]
           inMemory == UNION {Withheld(Group(a), hash[a],
                                       ControlCount(Cardinality(Group(a)), rates[a])) :
                                a \in AssignmentStrata}
           drawn    == UNION {Withheld(RankedIn(rows, a), value,
                                       PlannedQuota(census, rates, a)) :
                                a \in PlannedStrata(census)}
<1>1. /\ DOMAIN stratum = Candidates(rows) /\ Candidates(rows) \in SUBSET DOMAIN rows
      /\ \A c \in Candidates(rows) : stratum[c] = rows[c].verdict /\ stratum[c] \in Strata
  BY DEF Candidates, IsCandidate
<1>2. IsFiniteSet(DOMAIN stratum)
  BY <1>1, FS_Subset
<1>3. \A a : RankedIn(rows, a) = Group(a)
  BY <1>1 DEF RankedIn
<1>4. \A a : /\ PlannedCount(census, a) = Cardinality(Group(a))
             /\ a \notin PlannedStrata(census) => Group(a) = {}
  BY <1>1, <1>2, PlannedCountOfGroup
<1>5. \A a : PlannedQuota(census, rates, a) = ControlCount(Cardinality(Group(a)), rates[a])
  BY <1>4 DEF PlannedQuota
<1>6. ASSUME NEW a, NEW quota
      PROVE  Withheld(Group(a), value, quota) = Withheld(Group(a), hash[a], quota)
  <2>1. \A c \in Group(a) : value[c] = hash[a][c]
    BY <1>1 DEF RowHash
  <2>2. \A c \in Group(a) : {d \in Group(a) : RanksAhead(value, d, c)}
                              = {d \in Group(a) : RanksAhead(hash[a], d, c)}
    BY <2>1 DEF RanksAhead
  <2> HIDE DEF Group, value
  <2> QED BY <2>2 DEF Withheld
<1>7. PlannedStrata(census) \subseteq AssignmentStrata
  BY DEF PlannedStrata, CountedStrata, AssignmentStratum, AssignmentStrata
<1>8. drawn = inMemory
  <2>1. ASSUME NEW a \in AssignmentStrata, a \notin PlannedStrata(census), NEW quota
        PROVE  Withheld(Group(a), hash[a], quota) = {}
    BY <1>4, <2>1 DEF Withheld
  <2>2. drawn = UNION {Withheld(Group(a), hash[a],
                                ControlCount(Cardinality(Group(a)), rates[a])) :
                         a \in PlannedStrata(census)}
    <3> HIDE DEF Group, value
    <3> QED BY <1>3, <1>5, <1>6
  <2> HIDE DEF Group, drawn, census
  <2> QED BY <1>7, <2>1, <2>2
<1>9. ASSUME NEW c \in Candidates(rows)
      PROVE  DrawnArms(rows, census, rates)[c]
               = AssignStratifiedCohortArms(stratum, hash, rates)[c]
  <2>1. rows[c].assigned \in PlannedStrata(census)
    <3>1. c \in Group(rows[c].assigned)
      BY <1>1
    <3> HIDE DEF Group
    <3> QED BY <1>4, <3>1
  <2>2. DrawnArms(rows, census, rates)[c] = IF c \in drawn THEN "CONTROL" ELSE "TREATMENT"
    BY <1>1, <2>1 DEF DrawnArms
  <2>3. AssignStratifiedCohortArms(stratum, hash, rates)[c]
          = IF c \in inMemory THEN "CONTROL" ELSE "TREATMENT"
    BY <1>1 DEF AssignStratifiedCohortArms
  <2> HIDE DEF drawn, inMemory
  <2> QED BY <2>2, <2>3, <1>8
<1> QED BY <1>9

(* Customers are numbers, and each has a value.                             *)
Valued(value, G) == G \subseteq Nat /\ \A c \in G : value[c] \in Nat

(* Among the customers of a nonempty group one is ranked behind all others. *)
LEMMA LastRanked ==
    ASSUME NEW value, NEW G, IsFiniteSet(G), Valued(value, G), G # {}
    PROVE  \E m \in G : \A d \in G \ {m} : RanksAhead(value, d, m)
<1> DEFINE Last(T, m) == \A d \in T \ {m} : RanksAhead(value, d, m)
           Bad == {T \in SUBSET G : T # {} /\ \A m \in T : ~Last(T, m)}
<1>1. SUFFICES ASSUME Bad # {} PROVE FALSE
  BY <1>1
<1>2. PICK T \in Bad : \A V \in Bad : V \subseteq T => V = T
  <2>1. Bad \subseteq SUBSET G
    OBVIOUS
  <2> HIDE DEF Bad
  <2> QED BY <1>1, <2>1, SmallestSet
<1>3. T \in SUBSET G /\ T # {} /\ \A m \in T : ~Last(T, m)
  OBVIOUS
<1>4. PICK x \in T : TRUE
  BY <1>3
<1>5. T \ {x} # {}
  <2> SUFFICES ASSUME T \ {x} = {} PROVE FALSE
    OBVIOUS
  <2> QED BY <1>3
<1>6. PICK m \in T \ {x} : Last(T \ {x}, m)
  <2>1. T \ {x} \in SUBSET G /\ T \ {x} # T
    BY <1>3
  <2>2. T \ {x} \notin Bad
    BY <1>2, <2>1
  <2> QED BY <1>5, <2>1, <2>2
<1>7. /\ x \in Nat /\ m \in Nat /\ value[x] \in Nat /\ value[m] \in Nat /\ x # m
      /\ m \in T /\ x \in T
  BY <1>3, <1>6 DEF Valued
<1>8. CASE RanksAhead(value, x, m)
  <2>1. Last(T, m)
    BY <1>6, <1>8
  <2> QED BY <1>3, <1>7, <2>1
<1>9. CASE ~RanksAhead(value, x, m)
  <2>1. RanksAhead(value, m, x)
    BY <1>7, <1>9 DEF RanksAhead
  <2>2. ASSUME NEW d \in T \ {x} PROVE RanksAhead(value, d, x)
    <3>1. d \in Nat /\ value[d] \in Nat /\ (d = m \/ RanksAhead(value, d, m))
      BY <1>3, <1>6, <2>2 DEF Valued
    <3> QED BY <1>7, <2>1, <3>1 DEF RanksAhead
  <2> QED BY <1>3, <1>7, <2>2
<1> QED BY <1>8, <1>9

(* The ranking withholds exactly the quota.                                 *)
LEMMA WithheldExactly ==
    ASSUME NEW value, NEW G, IsFiniteSet(G), Valued(value, G),
           NEW quota \in 0 .. Cardinality(G)
    PROVE  Cardinality(Withheld(G, value, quota)) = quota
<1> DEFINE Rank(T, c) == Cardinality({d \in T : RanksAhead(value, d, c)})
           Exact(T) == \A q \in 0 .. Cardinality(T) : Cardinality(Withheld(T, value, q)) = q
           Bad == {T \in SUBSET G : ~Exact(T)}
<1>1. SUFFICES ASSUME Bad # {} PROVE FALSE
  BY <1>1
<1>2. PICK T \in Bad : \A V \in Bad : V \subseteq T => V = T
  <2>1. Bad \subseteq SUBSET G
    OBVIOUS
  <2> HIDE DEF Bad
  <2> QED BY <1>1, <2>1, SmallestSet
<1>3. T \in SUBSET G /\ ~Exact(T)
  OBVIOUS
<1>4. IsFiniteSet(T) /\ Cardinality(T) \in Nat
  BY <1>3, FS_Subset, FS_CardinalityType
<1>5. ASSUME NEW c \in T PROVE Rank(T, c) \in Nat /\ Rank(T, c) < Cardinality(T)
  <2> DEFINE ahead == {d \in T : RanksAhead(value, d, c)}
  <2>1. value[c] \in Nat /\ c \in Nat
    BY <1>3, <1>5 DEF Valued
  <2>2. ahead \subseteq T \ {c}
    BY <2>1 DEF RanksAhead
  <2>3. IsFiniteSet(T \ {c}) /\ Cardinality(T \ {c}) = Cardinality(T) - 1
    BY <1>4, <1>5, FS_RemoveElement
  <2> HIDE DEF ahead
  <2>4. /\ Cardinality(ahead) \in Nat /\ Cardinality(ahead) <= Cardinality(T \ {c})
    BY <2>2, <2>3, FS_Subset, FS_CardinalityType
  <2> QED BY <1>4, <2>3, <2>4 DEF ahead
<1>6. \A q : Withheld(T, value, q) = {c \in T : Rank(T, c) < q}
  BY DEF Withheld
<1>7. Cardinality(Withheld(T, value, Cardinality(T))) = Cardinality(T)
  <2> HIDE DEF Rank
  <2>1. Withheld(T, value, Cardinality(T)) = T
    BY <1>5, <1>6
  <2> QED BY <2>1
<1>8. T # {}
  <2> SUFFICES ASSUME T = {} PROVE FALSE
    OBVIOUS
  <2>1. Cardinality(T) = 0
    BY FS_EmptySet
  <2> HIDE DEF Rank
  <2> QED BY <1>3, <1>7, <2>1
<1>9. PICK m \in T : \A d \in T \ {m} : RanksAhead(value, d, m)
  <2>1. Valued(value, T)
    BY <1>3 DEF Valued
  <2> QED BY <1>4, <1>8, <2>1, LastRanked
<1> DEFINE R == T \ {m}
<1>10. /\ IsFiniteSet(R) /\ Cardinality(R) = Cardinality(T) - 1
       /\ Cardinality(T) \in Nat \ {0}
  BY <1>4, <1>8, FS_RemoveElement, FS_EmptySet
<1>11. Exact(R)
  <2>1. R \in SUBSET G /\ R # T /\ R \subseteq T
    BY <1>3
  <2> HIDE DEF Exact
  <2> QED BY <1>2, <2>1
<1>12. Rank(T, m) = Cardinality(R)
  <2>1. m \in Nat /\ value[m] \in Nat
    BY <1>3 DEF Valued
  <2>2. ~RanksAhead(value, m, m)
    BY <2>1 DEF RanksAhead
  <2>3. {d \in T : RanksAhead(value, d, m)} = R
    BY <1>9, <2>2
  <2> QED BY <2>3
<1>13. ASSUME NEW c \in R PROVE Rank(T, c) = Rank(R, c)
  <2>1. /\ m \in Nat /\ value[m] \in Nat /\ c \in Nat /\ value[c] \in Nat /\ c # m
        /\ RanksAhead(value, c, m)
    BY <1>3, <1>9, <1>13 DEF Valued
  <2>2. ~RanksAhead(value, m, c)
    BY <2>1 DEF RanksAhead
  <2>3. {d \in T : RanksAhead(value, d, c)} = {d \in R : RanksAhead(value, d, c)}
    BY <2>2
  <2> QED BY <2>3
<1>14. ASSUME NEW q \in 0 .. Cardinality(T), q # Cardinality(T)
       PROVE  Cardinality(Withheld(T, value, q)) = q
  <2>1. q \in 0 .. Cardinality(R) /\ ~(Cardinality(R) < q)
    BY <1>10, <1>14
  <2>2. Withheld(T, value, q) = Withheld(R, value, q)
    <3>1. Withheld(R, value, q) = {c \in R : Rank(R, c) < q}
      BY DEF Withheld
    <3> HIDE DEF Rank
    <3> QED BY <1>6, <1>12, <1>13, <2>1, <3>1
  <2> QED BY <1>11, <2>1, <2>2
<1>15. Exact(T)
  BY <1>7, <1>14
<1> QED BY <1>3, <1>15

(* A quota leaves somebody out of the control group, if there is anybody.   *)
LEMMA QuotaBounds ==
    ASSUME NEW n \in Nat, NEW rate \in Nat
    PROVE  /\ ControlCount(n, rate) \in 0 .. n
           /\ n > 0 => ControlCount(n, rate) < n
<1> USE QuotaAssumption
<1>1. NormalizedRate(rate) \in Nat
  BY DEF NormalizedRate, Greatest, Least
<1>2. n * NormalizedRate(rate) \in Nat
  BY <1>1
<1>3. (n * NormalizedRate(rate)) \div 100 \in Nat
  <2> DEFINE product == n * NormalizedRate(rate)
  <2> HIDE DEF product
  <2>1. product \in Nat => product \div 100 \in Nat
    OBVIOUS
  <2> QED BY <1>2, <2>1 DEF product
<1>4. Greatest(0, n - 1) \in 0 .. n /\ (n > 0 => Greatest(0, n - 1) < n)
  BY DEF Greatest
<1> DEFINE share == (n * NormalizedRate(rate)) \div 100
           rest  == Greatest(0, n - 1)
<1> HIDE DEF share, rest
<1>5. Least(share, rest) \in 0 .. n /\ (n > 0 => Least(share, rest) < n)
  BY <1>3, <1>4 DEF Least, share, rest
<1> QED BY <1>5 DEF ControlCount, share, rest

(* The control group planned from a census is the one the draw gives.       *)
LEMMA PlannedIsDrawn ==
    ASSUME NEW stratum, IsFiniteSet(DOMAIN stratum), DOMAIN stratum \subseteq Customers,
           \A c \in DOMAIN stratum : stratum[c] \in Strata,
           NEW values \in [AssignmentStrata -> [Customers -> Nat]],
           NEW rates \in [AssignmentStrata -> Nat]
    PROVE  LET arms == AssignStratifiedCohortArms(stratum, values, rates)
           IN  Cardinality({c \in DOMAIN stratum : arms[c] = "CONTROL"})
                 = PlannedControl(CensusOf(stratum), rates)
<1> DEFINE census   == CensusOf(stratum)
           Group(a) == {c \in DOMAIN stratum : AssignmentStratum(census, stratum[c]) = a}
           Quota(a) == ControlCount(Cardinality(Group(a)), rates[a])
           Drawn(a) == Withheld(Group(a), values[a], Quota(a))
           controls == UNION {Drawn(a) : a \in AssignmentStrata}
           part     == [c \in controls |-> AssignmentStratum(census, stratum[c])]
           S        == PlannedStrata(census)
           size     == [a \in S |-> PlannedQuota(census, rates, a)]
           count    == [T \in SUBSET S |-> Cardinality(Members(part, T))]
<1>1. \A a : Drawn(a) \subseteq Group(a) /\ Group(a) \subseteq DOMAIN stratum
  BY DEF Withheld
<1>2. {c \in DOMAIN stratum : AssignStratifiedCohortArms(stratum, values, rates)[c] = "CONTROL"}
        = controls
  <2>1. AssignStratifiedCohortArms(stratum, values, rates)
          = [c \in DOMAIN stratum |-> IF c \in controls THEN "CONTROL" ELSE "TREATMENT"]
    BY DEF AssignStratifiedCohortArms
  <2>2. controls \subseteq DOMAIN stratum
    <3> HIDE DEF Drawn, Group
    <3> QED BY <1>1
  <2> HIDE DEF controls
  <2> QED BY <2>1, <2>2
<1>3. S \subseteq AssignmentStrata /\ IsFiniteSet(S)
  <2>1. S \subseteq AssignmentStrata
    BY DEF PlannedStrata, CountedStrata, AssignmentStratum, AssignmentStrata
  <2>2. IsFiniteSet(AssignmentStrata)
    BY QuotaAssumption, FS_AddElement DEF AssignmentStrata
  <2> HIDE DEF S
  <2> QED BY <2>1, <2>2, FS_Subset
<1>4. ASSUME NEW a \in AssignmentStrata
      PROVE  /\ Cardinality(Drawn(a)) = Quota(a)
             /\ PlannedQuota(census, rates, a) = Quota(a)
             /\ a \notin S => Group(a) = {}
  <2>1. /\ PlannedCount(census, a) = Cardinality(Group(a))
        /\ a \notin S => Group(a) = {}
    BY PlannedCountOfGroup
  <2>2. PlannedQuota(census, rates, a) = Quota(a)
    BY <2>1 DEF PlannedQuota
  <2>3. IsFiniteSet(Group(a)) /\ Cardinality(Group(a)) \in Nat
    <3>1. Group(a) \in SUBSET DOMAIN stratum
      OBVIOUS
    <3> HIDE DEF Group
    <3> QED BY <3>1, FS_Subset, FS_CardinalityType
  <2>4. Quota(a) \in 0 .. Cardinality(Group(a))
    <3>1. rates[a] \in Nat
      OBVIOUS
    <3> HIDE DEF Group
    <3> QED BY <2>3, <3>1, QuotaBounds
  <2>5. Valued(values[a], Group(a))
    <3>1. /\ values[a] \in [Customers -> Nat] /\ Group(a) \subseteq Customers
          /\ Customers \subseteq Nat
      BY RunAssumption DEF Customers
    <3> HIDE DEF Group
    <3> QED BY <3>1 DEF Valued
  <2>6. Cardinality(Drawn(a)) = Quota(a)
    <3> HIDE DEF Group, Quota
    <3> QED BY <2>3, <2>4, <2>5, WithheldExactly
  <2> QED BY <2>1, <2>2, <2>6
<1>5. DOMAIN part = controls /\ IsFiniteSet(DOMAIN part)
  <2>1. DOMAIN part = controls
    OBVIOUS
  <2>2. controls \in SUBSET DOMAIN stratum
    <3> HIDE DEF Drawn, Group
    <3> QED BY <1>1
  <2> HIDE DEF part, controls
  <2> QED BY <2>1, <2>2, FS_Subset
<1>6. ASSUME NEW a \in AssignmentStrata PROVE {c \in controls : part[c] = a} = Drawn(a)
  <2>1. ASSUME NEW b \in AssignmentStrata, NEW c \in Drawn(b)
        PROVE  part[c] = b /\ c \in controls
    <3>1. c \in Group(b) /\ c \in controls
      <4> HIDE DEF Group
      <4> QED BY <1>1
    <3> QED BY <3>1
  <2>2. \A c \in controls : \E b \in AssignmentStrata : c \in Drawn(b)
    OBVIOUS
  <2> HIDE DEF Drawn, controls, part
  <2> QED BY <2>1, <2>2
<1>7. \A a \in S : size[a] = Cardinality({c \in DOMAIN part : part[c] = a})
  <2> HIDE DEF S, controls, part, Drawn, Quota, census
  <2> QED BY <1>3, <1>4, <1>5, <1>6
<1>8. Sums(count, size, S) /\ \A g : Sums(g, size, S) => g[S] = count[S]
  <2> HIDE DEF part, size, S
  <2> QED BY <1>3, <1>5, <1>7, SumOfParts
<1>9. Members(part, S) = controls
  <2>1. ASSUME NEW c \in controls PROVE part[c] \in S
    <3>1. PICK a \in AssignmentStrata : c \in Drawn(a)
      OBVIOUS
    <3>2. c \in Group(a)
      <4> HIDE DEF Group
      <4> QED BY <1>1, <3>1
    <3>3. a \in S /\ part[c] = a
      <4>1. part[c] = a
        BY <3>2
      <4> HIDE DEF Group, S, part
      <4> QED BY <1>4, <3>2, <4>1
    <3> QED BY <3>3
  <2> HIDE DEF controls, S, part
  <2> QED BY <1>5, <2>1 DEF Members
<1>10. PlannedControl(census, rates) = Cardinality(controls)
  <2> DEFINE Planned(g) ==
               g = [T \in SUBSET S |->
                      IF T = {} THEN 0
                      ELSE PlannedQuota(census, rates, CHOOSE x \in T : TRUE)
                             + g[T \ {CHOOSE x \in T : TRUE}]]
  <2>1. PlannedControl(census, rates) = (CHOOSE g : Planned(g))[S]
    BY DEF PlannedControl, MapThenSumSet, MapThenFoldSet
  <2>2. ASSUME NEW g PROVE Planned(g) <=> Sums(g, size, S)
    <3>1. ASSUME NEW T \in SUBSET S, T # {}
          PROVE  size[CHOOSE x \in T : TRUE]
                   = PlannedQuota(census, rates, CHOOSE x \in T : TRUE)
      <4>1. (CHOOSE x \in T : TRUE) \in S
        BY <3>1
      <4> HIDE DEF S, census
      <4> QED BY <4>1
    <3> DEFINE planned == [T \in SUBSET S |->
                             IF T = {} THEN 0
                             ELSE PlannedQuota(census, rates, CHOOSE x \in T : TRUE)
                                    + g[T \ {CHOOSE x \in T : TRUE}]]
               summed  == [T \in SUBSET S |->
                             IF T = {} THEN 0
                             ELSE size[CHOOSE x \in T : TRUE] + g[T \ {CHOOSE x \in T : TRUE}]]
    <3> HIDE DEF S, size, census
    <3>2. ASSUME NEW T \in SUBSET S PROVE planned[T] = summed[T]
      BY <3>1
    <3>3. planned = summed
      BY <3>2
    <3> QED BY <3>3 DEF Sums
  <2>3. Planned(CHOOSE g : Planned(g))
    <3>1. Planned(count)
      <4> HIDE DEF Planned, count, size, S
      <4> QED BY <1>8, <2>2
    <3> HIDE DEF Planned
    <3> QED BY <3>1
  <2>4. count[S] = Cardinality(controls)
    <3> HIDE DEF controls, S, part
    <3> QED BY <1>9
  <2> HIDE DEF Planned, count, size, S, controls
  <2> QED BY <1>8, <2>1, <2>2, <2>3, <2>4
<1> HIDE DEF controls, census
<1> QED BY <1>2, <1>10 DEF census

-----------------------------------------------------------------------------
(* What the rows ought to say *)

(* The calls of one run agree on the holdout rate of every stratum.  A      *)
(* takeover compares the seed and the policy version of the row it read,    *)
(* not the rates, which the caller computes.                                *)
SameRates == \A p, q \in Params : Rates[p] = Rates[q]

(* The candidates by what evaluating them says, their census, the stratum   *)
(* each is finally ranked in, and the arms of the in-memory draw.           *)
Judged == [c \in {d \in Customers : audience[d] \in Strata} |-> audience[c]]

TrueCensus == CensusOf(Judged)

Final(c) == AssignmentStratum(TrueCensus, audience[c])

TrueArms(p) == AssignStratifiedCohortArms(Judged, Hash[p], Rates[p])

ArmSize(arm) == Cardinality({c \in DOMAIN Judged : TrueArms(run.params)[c] = arm})

(* The customers of the store are those up to some id.                      *)
Segment == \A c, d \in Customers : c < d /\ d \in Present => c \in Present

(* A durable row says what evaluating its customer says; it is ranked in    *)
(* its own or already in its final stratum, and its arm is drawn as in      *)
(* memory or not at all.                                                    *)
RowsTrue ==
    /\ \A c \in DOMAIN members :
         /\ c \in Present
         /\ members[c].verdict = audience[c]
         /\ audience[c] \in Strata => members[c].assigned \in {audience[c], Final(c)}
    /\ NobodyDiscards =>
         \A c \in Candidates(members) : members[c].arm \in {None, TrueArms(run.params)[c]}

(* Everybody has a row; every row its final stratum; every row its arm.     *)
AllStaged == DOMAIN members = Present
AllFinal  == \A c \in Candidates(members) : members[c].assigned = Final(c)
AllDrawn  == \A c \in Candidates(members) : members[c].arm = TrueArms(run.params)[c]

(* After the final flush. *)
PastStream == {"count", "census", "mark", "fixup", "draw", "arms", "complete"}

(* The rows a call is about to write, and what it knows of the end.         *)
BufferTrue(w) ==
    /\ \A c \in call[w].flushed + 1 .. call[w].pos :
         c \in Present /\ call[w].buffer[c - call[w].flushed] = audience[c]
    /\ call[w].ended =>
         /\ call[w].pc \in PastStream \union {"insert", "renew", "failing"}
         /\ call[w].pos + 1 \notin Present

(* How far the durable rows have come, by where a call is: nothing else     *)
(* tells a call that others have not undone what it relies on.              *)
StageTrue(w) ==
    /\ call[w].pc \in PastStream => AllStaged
    /\ call[w].pc \in PastStream \ {"count"} =>
         call[w].candidates = Cardinality(DOMAIN Judged)
    /\ call[w].pc \in PastStream \ {"count", "census"} => call[w].census = TrueCensus
    /\ call[w].pc \in {"fixup", "draw", "arms", "complete"} =>
         run.candidateCount = Cardinality(DOMAIN Judged)
    /\ call[w].pc = "fixup" =>
         /\ call[w].pending \subseteq PooledStrata(TrueCensus)
         /\ \A c \in call[w].todo : c \in DOMAIN Judged /\ Final(c) = Pooled
         /\ \A c \in DOMAIN Judged : \/ audience[c] \in call[w].pending
                                     \/ c \in call[w].todo
                                     \/ members[c].assigned = Final(c)
    /\ call[w].pc \in {"draw", "arms", "complete"} => AllFinal
    /\ call[w].pc \in {"arms", "complete"} => AllDrawn
    /\ call[w].pc = "complete" =>
         /\ call[w].control = ArmSize("CONTROL")
         /\ call[w].treatment = ArmSize("TREATMENT")
         /\ call[w].control + call[w].treatment = call[w].candidates

CallsTrue == \A w \in Workers : BufferTrue(w) /\ StageTrue(w)

(* What the row of a complete run stands for. *)
RunTrue ==
    run.status = "complete" =>
        /\ AllStaged /\ AllFinal /\ AllDrawn
        /\ run.candidateCount = Cardinality(DOMAIN Judged)
        /\ run.controlCount = ArmSize("CONTROL")
        /\ run.treatmentCount = ArmSize("TREATMENT")
        /\ run.controlCount + run.treatmentCount = run.candidateCount

Truth == Segment /\ RowsTrue /\ CallsTrue /\ RunTrue

(* With the audience unchanged, what the rows ought to say is unchanged.    *)
LEMMA SameJudgement ==
    ASSUME audience' = audience
    PROVE  /\ Present' = Present /\ Judged' = Judged /\ TrueCensus' = TrueCensus
           /\ \A c : Final(c)' = Final(c)
           /\ \A p : TrueArms(p)' = TrueArms(p)
           /\ Segment => Segment'
<1>1. Present' = Present /\ Judged' = Judged
  BY DEF Present, Judged
<1>2. TrueCensus' = TrueCensus
  BY <1>1 DEF TrueCensus
<1> QED BY <1>1, <1>2 DEF Final, TrueArms, Segment

LEMMA JudgedFacts ==
    ASSUME TypeOK
    PROVE  /\ DOMAIN Judged = {c \in Customers : audience[c] \in Strata}
           /\ DOMAIN Judged \subseteq Present
           /\ \A c \in DOMAIN Judged : Judged[c] = audience[c]
           /\ IsFiniteSet(DOMAIN Judged)
<1>1. IsFiniteSet(Customers)
  BY FS_Interval, RunAssumption DEF Customers
<1>2. DOMAIN Judged = {c \in Customers : audience[c] \in Strata}
  BY DEF Judged
<1>3. DOMAIN Judged \in SUBSET Customers
  BY <1>2
<1>4. IsFiniteSet(DOMAIN Judged)
  BY <1>1, <1>3, FS_Subset
<1> QED BY <1>2, <1>4, RunAssumption DEF Judged, Present

LEMMA RowsFacts ==
    ASSUME TypeOK, RowsTrue
    PROVE  /\ Candidates(members) = DOMAIN members \intersect DOMAIN Judged
           /\ IsFiniteSet(DOMAIN members)
           /\ AllStaged =>
                /\ Candidates(members) = DOMAIN Judged
                /\ FrozenStratum = Judged
                /\ StratumCensus(members) = TrueCensus
<1>1. Candidates(members) = DOMAIN members \intersect DOMAIN Judged
  BY JudgedFacts DEF Candidates, IsCandidate, RowsTrue, TypeOK
<1>2. IsFiniteSet(DOMAIN members)
  <2>1. DOMAIN members \in SUBSET Customers
    BY DEF TypeOK
  <2>2. IsFiniteSet(Customers)
    BY FS_Interval, RunAssumption DEF Customers
  <2> QED BY <2>1, <2>2, FS_Subset
<1>3. ASSUME AllStaged
      PROVE  /\ Candidates(members) = DOMAIN Judged
             /\ FrozenStratum = Judged
             /\ StratumCensus(members) = TrueCensus
  <2>1. Candidates(members) = DOMAIN Judged
    BY <1>1, <1>3, JudgedFacts DEF AllStaged
  <2>2. FrozenStratum = Judged
    BY <2>1, JudgedFacts DEF FrozenStratum, Judged, RowsTrue, Candidates
  <2>3. ASSUME NEW s \in Strata
        PROVE  {c \in DOMAIN members : members[c].verdict = s}
                 = {c \in DOMAIN Judged : Judged[c] = s}
    BY <1>3, JudgedFacts DEF RowsTrue, AllStaged, Present
  <2> QED BY <2>1, <2>2, <2>3 DEF StratumCensus, TrueCensus, CensusOf
<1> QED BY <1>1, <1>2, <1>3

(* A step that leaves the run's parameters alone and only brings rows       *)
(* closer to what they ought to say.                                        *)
Kept ==
    /\ audience' = audience
    /\ run'.params = run.params
    /\ run'.candidateCount \in {run.candidateCount, Cardinality(DOMAIN Judged)}
    /\ \A c \in DOMAIN members :
         /\ c \in DOMAIN members'
         /\ c \in DOMAIN Judged =>
              /\ members'[c].assigned \in {members[c].assigned, Final(c)}
              /\ members'[c].arm \in {members[c].arm, TrueArms(run.params)[c]}

LEMMA KeptFacts ==
    ASSUME TypeOK, TypeOK', RowsTrue, RowsTrue', Kept
    PROVE  /\ AllStaged => AllStaged'
           /\ AllStaged /\ AllFinal => AllFinal'
           /\ AllStaged /\ AllDrawn => AllDrawn'
           /\ \A arm : ArmSize(arm)' = ArmSize(arm)
<1>1. /\ Present' = Present /\ Judged' = Judged
      /\ \A c : Final(c)' = Final(c)
      /\ \A p : TrueArms(p)' = TrueArms(p)
  BY SameJudgement DEF Kept
<1>2. run'.params = run.params
  BY DEF Kept
<1>3. AllStaged => AllStaged'
  BY <1>1 DEF AllStaged, Kept, RowsTrue
<1>4. /\ Candidates(members) = DOMAIN members \intersect DOMAIN Judged
      /\ Candidates(members') = DOMAIN members' \intersect DOMAIN Judged
  <2>1. \A c \in DOMAIN members' : c \in Customers /\ members'[c].verdict = audience[c]
    BY DEF RowsTrue, TypeOK, Kept
  <2>2. Candidates(members') = DOMAIN members' \intersect DOMAIN Judged
    BY <2>1, JudgedFacts DEF Candidates, IsCandidate
  <2> QED BY <2>2, RowsFacts
<1>5. AllStaged => Candidates(members') = Candidates(members)
  BY <1>1, <1>3, <1>4 DEF AllStaged
<1>6. AllStaged /\ AllFinal => AllFinal'
  <2> SUFFICES ASSUME AllStaged, AllFinal, NEW c \in Candidates(members')
               PROVE  members'[c].assigned = Final(c)
    BY <1>1 DEF AllFinal
  <2>1. c \in Candidates(members) /\ c \in DOMAIN members /\ c \in DOMAIN Judged
    BY <1>4, <1>5
  <2> QED BY <2>1 DEF AllFinal, Kept
<1>7. AllStaged /\ AllDrawn => AllDrawn'
  <2> SUFFICES ASSUME AllStaged, AllDrawn, NEW c \in Candidates(members')
               PROVE  members'[c].arm = TrueArms(run.params)[c]
    BY <1>1, <1>2 DEF AllDrawn
  <2>1. c \in Candidates(members) /\ c \in DOMAIN members /\ c \in DOMAIN Judged
    BY <1>4, <1>5
  <2> QED BY <2>1 DEF AllDrawn, Kept
<1>8. \A arm : ArmSize(arm)' = ArmSize(arm)
  BY <1>1, <1>2 DEF ArmSize
<1> QED BY <1>3, <1>6, <1>7, <1>8

(* A call that does not move keeps what it knows through such a step.       *)
LEMMA BufferKept ==
    ASSUME audience' = audience, NEW v \in Workers, BufferTrue(v), call'[v] = call[v]
    PROVE  BufferTrue(v)'
BY SameJudgement DEF BufferTrue

LEMMA StageKept ==
    ASSUME TypeOK, TypeOK', RowsTrue, RowsTrue', Kept,
           NEW v \in Workers, StageTrue(v), call'[v] = call[v]
    PROVE  StageTrue(v)'
<1>1. /\ Judged' = Judged /\ TrueCensus' = TrueCensus
      /\ \A c : Final(c)' = Final(c) /\ audience' = audience
  BY SameJudgement DEF Kept
<1>2. /\ AllStaged => AllStaged'
      /\ AllStaged /\ AllFinal => AllFinal'
      /\ AllStaged /\ AllDrawn => AllDrawn'
      /\ \A arm : ArmSize(arm)' = ArmSize(arm)
  BY KeptFacts
<1>3. call[v].pc = "fixup" =>
         /\ call'[v].pending \subseteq PooledStrata(TrueCensus')
         /\ \A c \in call'[v].todo : c \in DOMAIN Judged' /\ Final(c)' = Pooled
         /\ \A c \in DOMAIN Judged' : \/ audience'[c] \in call'[v].pending
                                      \/ c \in call'[v].todo
                                      \/ members'[c].assigned = Final(c)'
  <2> SUFFICES ASSUME call[v].pc = "fixup", NEW c \in DOMAIN Judged,
                      members[c].assigned = Final(c)
               PROVE  members'[c].assigned = Final(c)
    BY <1>1 DEF StageTrue
  <2>1. c \in DOMAIN members
    BY JudgedFacts DEF StageTrue, PastStream, AllStaged
  <2> QED BY <2>1 DEF Kept
<1>4. call[v].pc \in {"fixup", "draw", "arms", "complete"} =>
         run'.candidateCount = Cardinality(DOMAIN Judged')
  BY <1>1 DEF StageTrue, Kept
<1>5. call[v].pc = "complete" =>
         /\ call'[v].control = ArmSize("CONTROL")'
         /\ call'[v].treatment = ArmSize("TREATMENT")'
         /\ call'[v].control + call'[v].treatment = call'[v].candidates
  BY <1>2 DEF StageTrue
<1> QED BY <1>1, <1>2, <1>3, <1>4, <1>5 DEF StageTrue, PastStream

-----------------------------------------------------------------------------
(* What the statements that write rows do to them *)

(* Steps that touch no row keep them true.                                  *)
LEMMA SameRows ==
    ASSUME TypeOK, RowsTrue, audience' = audience, members' = members,
           run'.params = run.params,
           run'.candidateCount \in {run.candidateCount, Cardinality(DOMAIN Judged)},
           NobodyDiscards' => NobodyDiscards
    PROVE  Kept /\ RowsTrue'
<1>1. Kept
  BY DEF Kept
<1>2. RowsTrue'
  BY SameJudgement DEF RowsTrue, Candidates
<1> QED BY <1>1, <1>2

(* A complete run stays what it is while rows are kept.                     *)
LEMMA RunKept ==
    ASSUME TypeOK, TypeOK', RowsTrue, RowsTrue', Kept, RunTrue,
           run'.status = "complete" =>
             /\ run.status = "complete"
             /\ run'.candidateCount = run.candidateCount
             /\ run'.controlCount = run.controlCount
             /\ run'.treatmentCount = run.treatmentCount
    PROVE  RunTrue'
BY KeptFacts, SameJudgement DEF RunTrue, Kept

(* The others of such a step, and then everyone.                            *)
LEMMA TruthKept ==
    ASSUME TypeOK, TypeOK', Truth, RowsTrue', RunTrue', Kept,
           NEW w \in Workers, BufferTrue(w)', StageTrue(w)',
           \A v \in Workers \ {w} : call'[v] = call[v]
    PROVE  Truth'
<1>1. audience' = audience
  BY DEF Kept
<1>2. ASSUME NEW v \in Workers PROVE BufferTrue(v)' /\ StageTrue(v)'
  <2>1. CASE v = w
    BY <2>1
  <2>2. CASE v # w
    BY <1>1, <2>2, BufferKept, StageKept DEF Truth, CallsTrue
  <2> QED BY <2>1, <2>2
<1> QED BY <1>1, <1>2, SameJudgement DEF Truth, CallsTrue

(* When a call has reached the end, everybody is staged.                    *)
LEMMA EndStaged ==
    ASSUME TypeOK, Segment, RowsTrue, NEW n \in 0 .. LastCustomer, n + 1 \notin Present,
           \A c \in Customers : c <= n => c \in DOMAIN members
    PROVE  AllStaged
<1>1. ASSUME NEW c \in Present PROVE c <= n
  <2>1. c \in Customers /\ c \in Int /\ n \in Int /\ 1 <= n + 1
    BY RunAssumption DEF Present, Customers
  <2> SUFFICES ASSUME ~(c <= n) PROVE FALSE
    OBVIOUS
  <2>2. n + 1 \in Customers
    BY <2>1, RunAssumption DEF Customers
  <2>3. n + 1 = c \/ n + 1 < c
    BY <2>1
  <2> QED BY <2>1, <2>2, <2>3 DEF Segment
<1>2. \A c \in Present : c \in Customers
  BY DEF Present
<1> QED BY <1>1, <1>2 DEF AllStaged, RowsTrue

(* An attempt may count on these.                                           *)
LEMMA AttemptFacts ==
    ASSUME TypeOK, Coordinated, NEW w \in Workers, call[w].pc \in Attempting
    PROVE  /\ NobodyDiscards /\ call[w].seed = run.params /\ run.status # "none"
           /\ \A c \in DOMAIN members : members[c].seed = run.params
BY DEF Coordinated, NobodyDiscards, Attempting

(* The rows a flush stages are true.                                        *)
LEMMA InsertKeeps ==
    ASSUME TypeOK, Coordinated, Truth, NEW w \in Workers, InsertMembers(w)
    PROVE  Kept /\ RowsTrue'
<1>1. /\ call[w].pc \in Attempting /\ run' = run /\ audience' = audience
      /\ call[w] \in LocalState /\ call[w] \in Call
  BY DEF InsertMembers, Attempting, TypeOK, LocalState
<1>2. NobodyDiscards
  BY <1>1, AttemptFacts
<1> DEFINE new == Staged(call[w])
<1>3. DOMAIN new = call[w].flushed + 1 .. call[w].pos
  BY <1>1, StagedType
<1>4. ASSUME NEW c \in DOMAIN new
      PROVE  /\ c \in Present /\ new[c].verdict = audience[c]
             /\ audience[c] \in Strata => new[c].assigned = audience[c]
             /\ new[c].arm = None
  <2>1. c \in call[w].flushed + 1 .. call[w].pos
    BY <1>3
  <2>2. c \in Present /\ call[w].buffer[c - call[w].flushed] = audience[c]
    BY <2>1 DEF Truth, CallsTrue, BufferTrue
  <2>3. new[c] = NewRow(call[w].buffer[c - call[w].flushed], call[w].seed)
    BY <1>4 DEF Staged
  <2> QED BY <2>2, <2>3 DEF NewRow
<1> HIDE DEF new
<1>5. members' = InsertMissing(members, new)
  BY DEF InsertMembers, new
<1>6. /\ DOMAIN members' = DOMAIN members \union DOMAIN new
      /\ \A c \in DOMAIN members : members'[c] = members[c]
      /\ \A c \in DOMAIN new : c \notin DOMAIN members => members'[c] = new[c]
  BY <1>5 DEF InsertMissing
<1>7. Kept
  BY <1>1, <1>6 DEF Kept
<1>8. RowsTrue'
  <2>1. ASSUME NEW c \in DOMAIN members'
        PROVE  /\ c \in Present /\ members'[c].verdict = audience[c]
               /\ audience[c] \in Strata => members'[c].assigned \in {audience[c], Final(c)}
               /\ c \in Candidates(members') =>
                    members'[c].arm \in {None, TrueArms(run.params)[c]}
    <3>1. CASE c \in DOMAIN members
      <4>1. members'[c] = members[c]
        BY <1>6, <3>1
      <4>2. c \in Candidates(members') => c \in Candidates(members)
        BY <4>1, <3>1 DEF Candidates
      <4> QED BY <1>2, <3>1, <4>1, <4>2 DEF Truth, RowsTrue
    <3>2. CASE c \notin DOMAIN members
      BY <1>4, <1>6, <3>2
    <3> QED BY <3>1, <3>2
  <2>2. /\ Present' = Present /\ (\A c : Final(c)' = Final(c))
        /\ (\A p : TrueArms(p)' = TrueArms(p))
    BY <1>1, SameJudgement
  <2>3. \A c \in Candidates(members') : c \in DOMAIN members'
    BY DEF Candidates
  <2> QED BY <1>1, <2>1, <2>2, <2>3 DEF RowsTrue
<1> QED BY <1>7, <1>8

(* A rewritten row is a candidate's of a pooled stratum.                    *)
LEMMA RewriteKeeps ==
    ASSUME TypeOK, Coordinated, Truth, NEW w \in Workers, NEW d \in Customers,
           RewritePooledRow(w, d)
    PROVE  Kept /\ RowsTrue'
<1>1. /\ call[w].pc = "fixup" /\ run' = run /\ audience' = audience
      /\ d \in call[w].todo
  BY DEF RewritePooledRow
<1>2. NobodyDiscards
  BY <1>1, AttemptFacts DEF Attempting
<1>3. d \in DOMAIN Judged /\ Final(d) = Pooled
  BY <1>1 DEF Truth, CallsTrue, StageTrue
<1>4. members \in [DOMAIN members -> Row] /\ DOMAIN members' = DOMAIN members
  BY DEF TypeOK, RewritePooledRow
<1>5. \A c \in DOMAIN members :
        /\ members'[c].verdict = members[c].verdict /\ members'[c].arm = members[c].arm
        /\ members'[c].assigned = IF c = d THEN Pooled ELSE members[c].assigned
  BY <1>4 DEF RewritePooledRow, Row
<1>6. Kept
  BY <1>1, <1>3, <1>4, <1>5 DEF Kept
<1>7. RowsTrue'
  <2>1. /\ Present' = Present /\ (\A c : Final(c)' = Final(c))
        /\ (\A p : TrueArms(p)' = TrueArms(p))
    BY <1>1, SameJudgement
  <2>2. Candidates(members') = Candidates(members)
    BY <1>4, <1>5 DEF Candidates, IsCandidate
  <2>3. \A c \in Candidates(members) : c \in DOMAIN members
    BY DEF Candidates
  <2> QED BY <1>1, <1>2, <1>3, <1>4, <1>5, <2>1, <2>2, <2>3 DEF Truth, RowsTrue
<1> QED BY <1>6, <1>7

(* The draw over final rows gives every candidate the reference arm.        *)
LEMMA DrawKeeps ==
    ASSUME SameRates, TypeOK, Coordinated, Truth, NEW w \in Workers, DrawArms(w)
    PROVE  /\ Kept /\ RowsTrue'
           /\ \A c \in Candidates(members') : members'[c].arm = TrueArms(run.params)[c]
           /\ DOMAIN members' = DOMAIN members
           /\ \A c \in DOMAIN members : c \notin Candidates(members) => members'[c] = members[c]
           /\ \A c \in DOMAIN members :
                members'[c] = [members[c] EXCEPT !.arm = members'[c].arm]
<1> DEFINE arms == DrawnArms(members, call[w].census, Rates[call[w].params])
<1>1. /\ call[w].pc = "draw" /\ run' = run /\ audience' = audience
      /\ members' = [c \in DOMAIN members |-> [members[c] EXCEPT !.arm = arms[c]]]
      /\ call[w].params \in Params /\ run.params \in Params
  BY DEF DrawArms, TypeOK, LocalState, Call, Run
<1>2. /\ NobodyDiscards /\ \A c \in DOMAIN members : members[c].seed = run.params
  BY <1>1, AttemptFacts DEF Attempting
<1>3. AllStaged /\ AllFinal /\ call[w].census = TrueCensus /\ RowsTrue
  BY <1>1 DEF Truth, CallsTrue, StageTrue, PastStream
<1>4. /\ Candidates(members) = DOMAIN Judged /\ FrozenStratum = Judged
      /\ IsFiniteSet(DOMAIN members) /\ Candidates(members) \subseteq DOMAIN members
  BY <1>3, RowsFacts DEF Candidates
<1>5. Rates[call[w].params] = Rates[run.params]
  BY <1>1 DEF SameRates
<1>6. \A c \in Candidates(members) : arms[c] = TrueArms(run.params)[c]
  <2>1. \A c \in Candidates(members) :
           /\ members[c].assigned = AssignmentStratum(CensusOf(Judged), members[c].verdict)
           /\ Hash[members[c].seed] = Hash[run.params]
    BY <1>2, <1>3, <1>4 DEF AllFinal, Final, TrueCensus, RowsTrue
  <2>2. Judged = [c \in Candidates(members) |-> members[c].verdict]
    BY <1>4 DEF FrozenStratum
  <2>3. \A c \in Candidates(members) :
          DrawnArms(members, CensusOf(Judged), Rates[run.params])[c]
            = AssignStratifiedCohortArms(Judged, Hash[run.params], Rates[run.params])[c]
    BY <1>4, <2>1, <2>2, DrawIsReference
  <2> QED BY <1>3, <1>5, <2>3 DEF TrueArms, TrueCensus
<1>7. \A c \in DOMAIN members : c \notin Candidates(members) => arms[c] = members[c].arm
  BY DEF DrawnArms
<1> HIDE DEF arms
<1>8. members \in [DOMAIN members -> Row] /\ DOMAIN members' = DOMAIN members
  BY <1>1 DEF TypeOK
<1>9. \A c \in DOMAIN members :
        /\ members'[c].verdict = members[c].verdict
        /\ members'[c].assigned = members[c].assigned
        /\ members'[c].arm = arms[c]
  BY <1>1, <1>8 DEF Row
<1>10. Candidates(members') = Candidates(members)
  BY <1>8, <1>9 DEF Candidates, IsCandidate
<1>11. Kept
  BY <1>1, <1>4, <1>6, <1>8, <1>9 DEF Kept
<1>12. RowsTrue'
  <2>1. /\ Present' = Present /\ (\A c : Final(c)' = Final(c))
        /\ (\A p : TrueArms(p)' = TrueArms(p))
    BY <1>1, SameJudgement
  <2> QED BY <1>1, <1>3, <1>4, <1>6, <1>8, <1>9, <1>10, <2>1 DEF RowsTrue
<1>13. ASSUME NEW c \in DOMAIN members
       PROVE  /\ c \notin Candidates(members) => members'[c] = members[c]
              /\ members'[c] = [members[c] EXCEPT !.arm = members'[c].arm]
  <2>1. members'[c] = [members[c] EXCEPT !.arm = arms[c]] /\ members[c] \in Row
    BY <1>1, <1>8
  <2>2. c \notin Candidates(members) => arms[c] = members[c].arm
    BY <1>7
  <2>3. members[c] = [members[c] EXCEPT !.arm = members[c].arm]
    BY <2>1 DEF Row
  <2> QED BY <1>9, <2>1, <2>2, <2>3
<1> QED BY <1>4, <1>6, <1>8, <1>9, <1>10, <1>11, <1>12, <1>13

-----------------------------------------------------------------------------
(* Every step keeps it *)

(* Joining, creating and taking over.                                       *)
LEMMA TruthOfJoining ==
    ASSUME TypeOK, TypeOK', Orderly, Coordinated, Truth, NEW w \in Workers,
           Create(w) \/ Claim(w) \/ Discard(w) \/ Reread(w)
    PROVE  Truth'
<1>1. /\ call[w] \in Call /\ run \in Run /\ call \in [Workers -> LocalState]
      /\ audience' = audience
      /\ RowsTrue /\ RunTrue /\ Segment
      /\ \A v \in Workers : BufferTrue(v) /\ StageTrue(v)
  BY DEF TypeOK, LocalState, Create, Claim, Discard, Reread, Truth, CallsTrue
<1>2. ~call[w].ended
  BY DEF Create, Claim, Discard, Reread, Truth, CallsTrue, BufferTrue, PastStream
<1>3. Segment'
  BY <1>1, SameJudgement
<1>4. CASE Create(w) \/ Reread(w)
  <2>1. /\ \A v \in Workers \ {w} : call'[v] = call[v]
        /\ members' = members
        /\ call'[w].pc = "stream" /\ call'[w].flushed = call'[w].pos
        /\ call'[w].ended = call[w].ended /\ call'[w].pos \in Nat
    <3>1. Attempt(w, run') /\ members' = members /\ run'.cursor \in 0 .. LastCustomer
      BY <1>1, <1>4, NoRunType DEF Create, Reread, Run, TypeOK
    <3> QED BY <1>1, <3>1, RunAssumption DEF Attempt, Becomes, Call
  <2>2. BufferTrue(w)' /\ StageTrue(w)'
    BY <1>2, <2>1 DEF BufferTrue, StageTrue, PastStream
  <2>3. CASE Reread(w)
    <3>1. run' = run /\ call[w].pc = "reread"
      BY <2>3 DEF Reread
    <3>2. NobodyDiscards' => NobodyDiscards
      BY <2>1, <3>1 DEF NobodyDiscards
    <3>3. Kept /\ RowsTrue'
      BY <1>1, <2>1, <3>1, <3>2, SameRows
    <3>4. RunTrue'
      BY <1>1, <3>1, <3>3, RunKept
    <3> QED BY <2>1, <2>2, <3>3, <3>4, TruthKept
  <2>4. CASE Create(w)
    <3>1. run.status = "none" /\ DOMAIN members = {} /\ run'.status = "resolving"
      BY <2>4, NoRunType DEF Create, Coordinated, Run
    <3>2. RowsTrue' /\ RunTrue'
      BY <2>1, <3>1 DEF RowsTrue, RunTrue, Candidates
    <3>3. ASSUME NEW v \in Workers \ {w} PROVE BufferTrue(v)' /\ StageTrue(v)'
      <4>1. call'[v] = call[v] /\ call[v].pc \in {"idle", "create"}
        BY <2>1, <3>1 DEF Coordinated
      <4> QED BY <1>1, <4>1, BufferKept DEF StageTrue, PastStream
    <3> QED BY <1>3, <2>2, <3>2, <3>3 DEF Truth, CallsTrue
  <2> QED BY <1>4, <2>3, <2>4
<1>5. CASE Claim(w)
  <2>1. /\ \A v \in Workers \ {w} : call'[v] = call[v]
        /\ members' = members /\ run'.status = "resolving"
        /\ call[w].pc = "claim"
        /\ call'[w].pc = IF Resumable(w) THEN "reread" ELSE "discard"
        /\ call'[w].flushed = call[w].flushed /\ call'[w].pos = call[w].pos
        /\ call'[w].buffer = call[w].buffer /\ call'[w].ended = call[w].ended
    BY <1>1, <1>5 DEF Claim, Goto, Becomes, Call, Run
  <2>2. BufferTrue(w)' /\ StageTrue(w)'
    BY <1>1, <1>2, <2>1, SameJudgement DEF BufferTrue, StageTrue, PastStream
  <2>3. RunTrue'
    BY <2>1 DEF RunTrue
  <2>4. CASE Resumable(w)
    <3>1. run'.params = run.params /\ run'.candidateCount = run.candidateCount
      BY <1>1, <1>5, <2>4 DEF Claim, Run
    <3>2. NobodyDiscards' => NobodyDiscards
      BY <2>1 DEF NobodyDiscards
    <3>3. Kept /\ RowsTrue'
      BY <1>1, <2>1, <3>1, <3>2, SameRows
    <3> QED BY <2>1, <2>2, <2>3, <3>3, TruthKept
  <2>5. CASE ~Resumable(w)
    <3>1. ~NobodyDiscards'
      BY <2>1, <2>5 DEF NobodyDiscards
    <3>2. RowsTrue'
      BY <1>1, <2>1, <3>1, SameJudgement DEF RowsTrue
    <3>3. ASSUME NEW v \in Workers \ {w} PROVE BufferTrue(v)' /\ StageTrue(v)'
      <4>1. call'[v] = call[v] /\ call[v].pc \notin PastStream
        BY <1>5, <2>1, <2>5, StartingOver DEF Claimed, Attempting, PastStream
      <4> QED BY <1>1, <4>1, BufferKept DEF StageTrue, PastStream
    <3> QED BY <1>3, <2>2, <2>3, <3>2, <3>3 DEF Truth, CallsTrue
  <2> QED BY <2>4, <2>5
<1>6. CASE Discard(w)
  <2>1. /\ DOMAIN members' = {} /\ run' = run
        /\ \A v \in Workers : call[v].pc \notin Attempting
    BY <1>6 DEF Discard, NoRows, Coordinated
  <2>2. ASSUME NEW v \in Workers
        PROVE  /\ call'[v].pc \in {call[v].pc, "reread"}
               /\ call'[v].pos = call[v].pos /\ call'[v].flushed = call[v].flushed
               /\ call'[v].buffer = call[v].buffer /\ call'[v].ended = call[v].ended
    BY <1>6 DEF Discard, TypeOK, LocalState, Call
  <2>3. ASSUME NEW v \in Workers PROVE BufferTrue(v)' /\ StageTrue(v)'
    <3>1. call'[v].pc \notin Attempting /\ ~call[v].ended
      BY <1>1, <2>1, <2>2 DEF Attempting, BufferTrue, PastStream
    <3> QED BY <1>1, <2>2, <3>1, SameJudgement DEF BufferTrue, StageTrue, PastStream, Attempting
  <2>4. RowsTrue'
    BY <2>1 DEF RowsTrue, Candidates
  <2>5. RunTrue'
    <3>1. run.status # "complete"
      BY <1>6 DEF Discard, Orderly, NobodyDiscards, Sole, Claimed
    <3> QED BY <2>1, <3>1 DEF RunTrue
  <2> QED BY <1>3, <2>3, <2>4, <2>5 DEF Truth, CallsTrue
<1> QED BY <1>4, <1>5, <1>6

(* Steps beside the attempts.                                               *)
LEMMA TruthOfTheRest ==
    ASSUME TypeOK, TypeOK', Orderly, Coordinated, Truth, audience' = audience,
           Apart \/ \E w \in Workers : Aside(w)
    PROVE  Truth'
<1>1. /\ run \in Run /\ call \in [Workers -> LocalState]
      /\ RowsTrue /\ RunTrue /\ Segment
      /\ \A v \in Workers : BufferTrue(v) /\ StageTrue(v)
  BY DEF TypeOK, Truth, CallsTrue
<1>2. CASE Apart
  <2>1. /\ members' = members /\ call' = call
        /\ run'.params = run.params /\ run'.status = run.status
        /\ run'.candidateCount = run.candidateCount /\ run'.controlCount = run.controlCount
        /\ run'.treatmentCount = run.treatmentCount
    BY <1>1, <1>2 DEF Apart, Run
  <2>2. Kept /\ RowsTrue'
    BY <1>1, <2>1, SameRows DEF NobodyDiscards
  <2>3. RunTrue'
    BY <1>1, <2>1, <2>2, RunKept
  <2>4. \A v \in Workers : BufferTrue(v)' /\ StageTrue(v)'
    BY <1>1, <2>1, <2>2, BufferKept, StageKept
  <2> QED BY <1>1, <2>2, <2>3, <2>4, SameJudgement DEF Truth, CallsTrue
<1>3. ASSUME NEW w \in Workers, Aside(w) PROVE Truth'
  <2>1. /\ members' = members /\ \A v \in Workers \ {w} : call'[v] = call[v]
        /\ run'.params = run.params
        /\ run'.status = "complete" => run.status = "complete"
        /\ run'.candidateCount = run.candidateCount /\ run'.controlCount = run.controlCount
        /\ run'.treatmentCount = run.treatmentCount
    BY <1>1, <1>3 DEF Aside, Run
  <2>2. NobodyDiscards' => NobodyDiscards
    BY <1>3, <2>1 DEF Aside, Orderly, NobodyDiscards
  <2>3. Kept /\ RowsTrue'
    BY <1>1, <2>1, <2>2, SameRows
  <2>4. RunTrue'
    BY <1>1, <2>1, <2>3, RunKept
  <2>5. StageTrue(w)'
    BY <1>3 DEF Aside, StageTrue, PastStream
  <2>6. BufferTrue(w)'
    <3>1. CASE call'[w].flushed = call'[w].pos /\ ~call'[w].ended
      <4>1. call'[w].pos \in Nat
        BY RunAssumption DEF TypeOK, LocalState, Call
      <4> QED BY <3>1, <4>1 DEF BufferTrue
    <3>2. CASE /\ call'[w].pc \in {"join", "claim", "failing"}
               /\ call'[w].pos = call[w].pos /\ call'[w].flushed = call[w].flushed
               /\ call'[w].buffer = call[w].buffer /\ call'[w].ended = call[w].ended
               /\ call'[w].pc # "failing" => call[w].pc \in {"create", "join"}
      BY <1>1, <3>2, SameJudgement DEF BufferTrue, PastStream
    <3> QED BY <1>3, <3>1, <3>2 DEF Aside
  <2> QED BY <2>1, <2>3, <2>4, <2>5, <2>6, TruthKept
<1> QED BY <1>2, <1>3

(* What holds of an attempt before its step, and what stays.                *)
LEMMA BeforeStep ==
    ASSUME TypeOK, Coordinated, Truth, NEW w \in Workers, call[w].pc \in Attempting
    PROVE  /\ call[w] \in Call /\ call[w] \in LocalState /\ run \in Run
           /\ call \in [Workers -> LocalState]
           /\ NobodyDiscards /\ RowsTrue /\ RunTrue /\ Segment
           /\ BufferTrue(w) /\ StageTrue(w)
BY AttemptFacts DEF TypeOK, LocalState, Truth, CallsTrue

LEMMA NobodyDiscardsStep ==
    ASSUME NobodyDiscards, NEW w \in Workers, call'[w].pc # "discard",
           \A v \in Workers \ {w} : call'[v] = call[v]
    PROVE  NobodyDiscards'
BY DEF NobodyDiscards

(* Steps of an attempt that touch neither run nor rows.                     *)
LEMMA TruthWithin ==
    ASSUME TypeOK, TypeOK', Coordinated, Truth, NEW w \in Workers, Within(w),
           BufferTrue(w)', StageTrue(w)'
    PROVE  Truth'
<1>1. /\ run' = run /\ members' = members /\ audience' = audience
      /\ \A v \in Workers \ {w} : call'[v] = call[v]
      /\ call[w].pc \in Attempting
  BY WithinShape
<1>2. NobodyDiscards /\ RowsTrue /\ RunTrue
  BY <1>1, BeforeStep
<1>3. Kept /\ RowsTrue'
  BY <1>1, <1>2, SameRows
<1>4. RunTrue'
  BY <1>1, <1>2, <1>3, RunKept
<1> QED BY <1>1, <1>3, <1>4, TruthKept

(* Evaluating the audience.                                                 *)
LEMMA TruthOfStream ==
    ASSUME TypeOK, TypeOK', Coordinated, Covered, Truth, NEW w \in Workers,
           Evaluate(w) \/ EndOfAudience(w)
    PROVE  Truth'
<1>1. /\ call[w].pc = "stream" /\ Within(w) /\ audience' = audience /\ members' = members
  BY DEF Evaluate, EndOfAudience, Within
<1>2. /\ call[w] \in Call /\ call[w] \in LocalState /\ call \in [Workers -> LocalState]
      /\ RowsTrue /\ Segment /\ BufferTrue(w) /\ StageTrue(w)
  BY <1>1, BeforeStep DEF Attempting
<1>3. ~call[w].ended
  BY <1>1, <1>2 DEF BufferTrue, PastStream
<1>4. /\ call[w].pos \in Nat /\ call[w].flushed \in Nat /\ Len(call[w].buffer) \in Nat
      /\ call[w].pos = call[w].flushed + Len(call[w].buffer)
      /\ call[w].buffer \in Seq(Verdicts)
  BY <1>2, RunAssumption DEF LocalState, Call
<1>5. CASE Evaluate(w)
  <2> DEFINE next == call[w].pos + 1
  <2>1. /\ next \in Present /\ next \in Nat /\ next = call[w].pos + 1
        /\ call'[w].pos = next /\ call'[w].flushed = call[w].flushed
        /\ call'[w].buffer = Append(call[w].buffer, audience[next])
        /\ call'[w].ended = call[w].ended
        /\ call'[w].pc \in {"insert", "stream"}
    BY <1>2, <1>4, <1>5 DEF Evaluate, Becomes, Call
  <2> HIDE DEF next
  <2>2. StageTrue(w)'
    BY <2>1 DEF StageTrue, PastStream
  <2>3. ASSUME NEW c \in call'[w].flushed + 1 .. call'[w].pos
        PROVE  c \in Present /\ call'[w].buffer[c - call'[w].flushed] = audience[c]
    <3>1. CASE c = next
      <4>1. c - call[w].flushed = Len(call[w].buffer) + 1
        BY <1>4, <2>1, <3>1
      <4>2. Append(call[w].buffer, audience[next])[Len(call[w].buffer) + 1] = audience[next]
        BY <1>4
      <4> QED BY <2>1, <3>1, <4>1, <4>2
    <3>2. CASE c # next
      <4>1. /\ c \in call[w].flushed + 1 .. call[w].pos
            /\ c - call[w].flushed \in 1 .. Len(call[w].buffer)
        <5>1. c \in Int /\ call[w].flushed + 1 <= c /\ c <= call[w].pos + 1
          BY <1>4, <2>1, <2>3
        <5>2. c # call[w].pos + 1
          BY <2>1, <3>2
        <5>3. c \in call[w].flushed + 1 .. call[w].pos
          BY <1>4, <5>1, <5>2
        <5> QED BY <1>4, <5>3
      <4>2. Append(call[w].buffer, audience[next])[c - call[w].flushed]
              = call[w].buffer[c - call[w].flushed]
        BY <1>4, <4>1
      <4> QED BY <1>2, <2>1, <4>1, <4>2 DEF BufferTrue
    <3> QED BY <3>1, <3>2
  <2>4. BufferTrue(w)'
    BY <1>1, <1>3, <2>1, <2>3, SameJudgement DEF BufferTrue
  <2> QED BY <1>1, <2>2, <2>4, TruthWithin
<1>6. CASE EndOfAudience(w)
  <2>1. /\ call[w].pos + 1 \notin Present
        /\ call'[w].pos = call[w].pos /\ call'[w].flushed = call[w].flushed
        /\ call'[w].buffer = call[w].buffer
        /\ call'[w].pc = IF call[w].buffer = << >> THEN "count" ELSE "insert"
    BY <1>2, <1>6 DEF EndOfAudience, Becomes, Call
  <2>2. BufferTrue(w)'
    BY <1>1, <1>2, <2>1, SameJudgement DEF BufferTrue, PastStream
  <2>3. ASSUME call[w].buffer = << >> PROVE AllStaged
    <3>1. call[w].flushed = call[w].pos /\ call[w].pos \in 0 .. LastCustomer
      BY <1>2, <1>4, <2>3 DEF Call
    <3>2. \A c \in Customers : c <= call[w].pos => c \in DOMAIN members
      BY <1>1, <3>1 DEF Covered, Attempting, Durable
    <3> QED BY <1>2, <2>1, <3>1, <3>2, EndStaged
  <2>4. AllStaged' <=> AllStaged
    BY <1>1, SameJudgement DEF AllStaged
  <2>5. StageTrue(w)'
    BY <2>1, <2>3, <2>4 DEF StageTrue, PastStream
  <2> QED BY <1>1, <2>2, <2>5, TruthWithin
<1> QED BY <1>5, <1>6

(* The two statements of a flush.                                           *)
LEMMA TruthOfFlush ==
    ASSUME TypeOK, TypeOK', Coordinated, Covered, Truth, NEW w \in Workers,
           InsertMembers(w) \/ RenewLease(w)
    PROVE  Truth'
<1>1. call[w].pc \in {"insert", "renew"} /\ audience' = audience
  BY DEF InsertMembers, RenewLease
<1>2. /\ call[w] \in Call /\ call[w] \in LocalState /\ call \in [Workers -> LocalState]
      /\ run \in Run /\ NobodyDiscards /\ RowsTrue /\ RunTrue /\ Segment
      /\ BufferTrue(w) /\ StageTrue(w)
  BY <1>1, BeforeStep DEF Attempting
<1>3. CASE InsertMembers(w)
  <2>1. /\ run' = run /\ \A v \in Workers \ {w} : call'[v] = call[v]
        /\ call'[w].pc = "renew" /\ call'[w].flushed = call[w].flushed
        /\ call'[w].pos = call[w].pos /\ call'[w].buffer = call[w].buffer
        /\ call'[w].ended = call[w].ended
    BY <1>2, <1>3 DEF InsertMembers, Goto, Becomes, Call
  <2>2. Kept /\ RowsTrue'
    BY <1>3, InsertKeeps
  <2>3. RunTrue'
    BY <1>2, <2>1, <2>2, RunKept
  <2>4. BufferTrue(w)' /\ StageTrue(w)'
    BY <1>1, <1>2, <2>1, SameJudgement DEF BufferTrue, StageTrue, PastStream
  <2> QED BY <2>1, <2>2, <2>3, <2>4, TruthKept
<1>4. CASE RenewLease(w)
  <2>1. /\ members' = members /\ \A v \in Workers \ {w} : call'[v] = call[v]
        /\ call[w].pc = "renew"
        /\ call'[w].pc = IF call[w].ended THEN "count" ELSE "stream"
        /\ call'[w].flushed = call[w].pos /\ call'[w].pos = call[w].pos
        /\ call'[w].ended = call[w].ended /\ call[w].pos \in 0 .. LastCustomer
    BY <1>2, <1>4 DEF RenewLease, Becomes, Call
  <2>2. /\ run'.params = run.params /\ run'.status = run.status
        /\ run'.candidateCount = run.candidateCount /\ run'.controlCount = run.controlCount
        /\ run'.treatmentCount = run.treatmentCount
    BY <1>2, <1>4 DEF RenewLease, Run
  <2>3. Kept /\ RowsTrue'
    BY <1>1, <1>2, <2>1, <2>2, SameRows
  <2>4. RunTrue'
    BY <1>2, <2>2, <2>3, RunKept
  <2>5. BufferTrue(w)'
    BY <1>1, <1>2, <2>1, SameJudgement, RunAssumption DEF BufferTrue, PastStream
  <2>6. ASSUME call[w].ended PROVE AllStaged'
    <3>1. call[w].pos + 1 \notin Present
      BY <1>2, <2>6 DEF BufferTrue
    <3>2. \A c \in Customers : c <= call[w].pos => c \in DOMAIN members
      BY <2>1 DEF Covered, Attempting, Durable
    <3>3. AllStaged
      BY <1>2, <2>1, <3>1, <3>2, EndStaged
    <3> QED BY <1>1, <2>1, <3>3, SameJudgement DEF AllStaged
  <2>7. StageTrue(w)'
    BY <2>1, <2>6 DEF StageTrue, PastStream
  <2> QED BY <2>1, <2>3, <2>4, <2>5, <2>7, TruthKept
<1> QED BY <1>3, <1>4

(* Only the fix-up, or a fix-up that failed, has listed rows at hand.       *)
Listing == \A w \in Workers : call[w].pc \notin {"fixup", "failing"} => call[w].todo = {}

LEMMA ListingStep == TypeOK /\ Listing /\ [Next]_vars => Listing'
<1> SUFFICES ASSUME TypeOK, Listing, [Next]_vars PROVE Listing'
  OBVIOUS
<1>1. ASSUME NEW w \in Workers
      PROVE  /\ call[w] \in Call /\ call[w] \in LocalState
             /\ call \in [Workers -> LocalState]
  BY DEF TypeOK, LocalState
<1>2. Idle.todo = {}
  BY DEF Idle
<1>3. ASSUME NEW w \in Workers, \A v \in Workers \ {w} : call'[v] = call[v],
             \/ call'[w].todo = {}
             \/ call'[w].pc \in {"fixup", "failing"}
             \/ call'[w].todo = call[w].todo /\ call[w].pc \notin {"fixup", "failing"}
      PROVE  Listing'
  BY <1>3 DEF Listing
<1>4. ASSUME NEW w \in Workers, NEW p \in Params, Start(w, p) PROVE Listing'
  BY <1>1, <1>3, <1>4 DEF Start, Becomes, Idle
<1>5. ASSUME NEW w \in Workers, Reuse(w) \/ Busy(w) \/ Complete(w) \/ MarkFailed(w) \/ Crash(w)
      PROVE  Listing'
  <2>1. call'[w] = Idle /\ \A v \in Workers \ {w} : call'[v] = call[v]
    BY <1>1, <1>5 DEF Reuse, Busy, Complete, MarkFailed, Crash, Return, Becomes
  <2> QED BY <1>2, <1>3, <2>1
<1>6. ASSUME NEW w \in Workers,
             \/ LoseCreation(w) \/ Join(w) \/ Claim(w) \/ Create(w)
             \/ Reread(w) \/ Evaluate(w) \/ EndOfAudience(w) \/ InsertMembers(w)
             \/ RenewLease(w) \/ LoseLease(w) \/ CountDecisions(w) \/ TakeCensus(w)
             \/ MarkAssigning(w) \/ DrawArms(w) \/ CheckArms(w)
      PROVE  Listing'
  <2>1. /\ \A v \in Workers \ {w} : call'[v] = call[v]
        /\ call'[w].todo = call[w].todo /\ call[w].pc \notin {"fixup", "failing"}
    <3>1. CASE LoseCreation(w)
      BY <1>1, <3>1 DEF LoseCreation, Goto, Becomes, Call
    <3>2. CASE Join(w)
      BY <1>1, <3>2 DEF Join, Becomes, Call
    <3>3. CASE Claim(w)
      BY <1>1, <3>3 DEF Claim, Goto, Becomes, Call
    <3>4. CASE Create(w)
      BY <1>1, <3>4 DEF Create, Attempt, Becomes, Call
    <3>5. CASE Reread(w)
      BY <1>1, <3>5 DEF Reread, Attempt, Becomes, Call
    <3>6. CASE Evaluate(w)
      BY <1>1, <3>6 DEF Evaluate, Becomes, Call
    <3>7. CASE EndOfAudience(w)
      BY <1>1, <3>7 DEF EndOfAudience, Becomes, Call
    <3>8. CASE InsertMembers(w)
      BY <1>1, <3>8 DEF InsertMembers, Goto, Becomes, Call
    <3>9. CASE RenewLease(w)
      BY <1>1, <3>9 DEF RenewLease, Becomes, Call
    <3>10. CASE LoseLease(w)
      BY <1>1, <3>10 DEF LoseLease, Goto, Becomes, Call
    <3>11. CASE CountDecisions(w)
      BY <1>1, <3>11 DEF CountDecisions, Becomes, Call
    <3>12. CASE TakeCensus(w)
      BY <1>1, <3>12 DEF TakeCensus, Becomes, Call
    <3>13. CASE MarkAssigning(w)
      BY <1>1, <3>13 DEF MarkAssigning, Becomes, Call
    <3>14. CASE DrawArms(w)
      BY <1>1, <3>14 DEF DrawArms, Goto, Becomes, Call
    <3>15. CASE CheckArms(w)
      BY <1>1, <3>15 DEF CheckArms, Becomes, Call
    <3> QED
      BY <1>6, <3>1, <3>2, <3>3, <3>4, <3>5, <3>6, <3>7, <3>8, <3>9, <3>10, <3>11,
         <3>12, <3>13, <3>14, <3>15
  <2> QED BY <1>3, <2>1
<1>7. ASSUME NEW w \in Workers, PooledRowGone(w) \/ FixupDone(w) \/ StepFails(w)
      PROVE  Listing'
  <2>1. CASE PooledRowGone(w)
    BY <1>1, <1>3, <2>1 DEF PooledRowGone, Goto, Becomes, Call
  <2>2. CASE FixupDone(w)
    BY <1>1, <1>3, <2>2 DEF FixupDone, Goto, Becomes, Call
  <2>3. CASE StepFails(w)
    BY <1>1, <1>3, <2>3 DEF StepFails, Goto, Becomes, Call
  <2> QED BY <1>7, <2>1, <2>2, <2>3
<1>8. ASSUME NEW w \in Workers, NEW s \in Strata, ListPooledRows(w, s) PROVE Listing'
  BY <1>1, <1>3, <1>8 DEF ListPooledRows, Becomes, Call
<1>9. ASSUME NEW w \in Workers, NEW c \in Customers, RewritePooledRow(w, c) PROVE Listing'
  BY <1>1, <1>3, <1>9 DEF RewritePooledRow, Becomes, Call
<1>10. ASSUME NEW w \in Workers, Discard(w) PROVE Listing'
  <2>1. \A v \in Workers : call'[v].todo = call[v].todo /\ (call'[v].pc = call[v].pc \/ v = w)
    BY <1>1, <1>10 DEF Discard, LocalState, Call
  <2> QED BY <1>10, <2>1 DEF Listing, Discard
<1>11. CASE UNCHANGED vars \/ LeaseExpires \/ CustomersDrift
  BY <1>11 DEF vars, LeaseExpires, CustomersDrift, Listing
<1> QED
  BY <1>4, <1>5, <1>6, <1>7, <1>8, <1>9, <1>10, <1>11 DEF Next, Step

(* Counting and planning.                                                   *)
LEMMA TruthOfCounting ==
    ASSUME TypeOK, TypeOK', Coordinated, Listing, Truth, NEW w \in Workers,
           CountDecisions(w) \/ TakeCensus(w) \/ MarkAssigning(w)
    PROVE  Truth'
<1>1. /\ call[w].pc \in {"count", "census", "mark"} /\ audience' = audience
      /\ members' = members
  BY DEF CountDecisions, TakeCensus, MarkAssigning
<1>2. /\ call[w] \in Call /\ call \in [Workers -> LocalState]
      /\ run \in Run /\ NobodyDiscards /\ RowsTrue /\ RunTrue
      /\ BufferTrue(w) /\ StageTrue(w)
  BY <1>1, BeforeStep DEF Attempting
<1>3. AllStaged /\ (AllStaged' <=> AllStaged)
  BY <1>1, <1>2, SameJudgement DEF StageTrue, PastStream, AllStaged
<1>4. /\ Candidates(members) = DOMAIN Judged /\ StratumCensus(members) = TrueCensus
  BY <1>2, <1>3, RowsFacts
<1>5. Judged' = Judged /\ TrueCensus' = TrueCensus /\ (\A c : Final(c)' = Final(c))
  BY <1>1, SameJudgement
<1>6. ASSUME call'[w].flushed = call[w].flushed, call'[w].pos = call[w].pos,
             call'[w].buffer = call[w].buffer, call'[w].ended = call[w].ended,
             call'[w].pc \in PastStream
      PROVE  BufferTrue(w)'
  BY <1>1, <1>2, <1>6, SameJudgement DEF BufferTrue
<1>7. CASE CountDecisions(w)
  <2>1. /\ call'[w].flushed = call[w].flushed /\ call'[w].pos = call[w].pos
        /\ call'[w].buffer = call[w].buffer /\ call'[w].ended = call[w].ended
        /\ call'[w].pc = "census" /\ call'[w].candidates = Cardinality(Candidates(members))
    BY <1>2, <1>7 DEF CountDecisions, Becomes, Call
  <2>2. BufferTrue(w)' /\ StageTrue(w)'
    BY <1>3, <1>4, <1>5, <1>6, <2>1 DEF StageTrue, PastStream
  <2> QED BY <1>7, <2>2, TruthWithin DEF Within
<1>8. CASE TakeCensus(w)
  <2>1. /\ call'[w].flushed = call[w].flushed /\ call'[w].pos = call[w].pos
        /\ call'[w].buffer = call[w].buffer /\ call'[w].ended = call[w].ended
        /\ call'[w].pc = "mark" /\ call'[w].candidates = call[w].candidates
        /\ call'[w].census = StratumCensus(members) /\ call[w].pc = "census"
    BY <1>2, <1>8 DEF TakeCensus, Becomes, Call
  <2>2. BufferTrue(w)' /\ StageTrue(w)'
    BY <1>2, <1>3, <1>4, <1>5, <1>6, <2>1 DEF StageTrue, PastStream
  <2> QED BY <1>8, <2>2, TruthWithin DEF Within
<1>9. CASE MarkAssigning(w)
  <2>1. /\ \A v \in Workers \ {w} : call'[v] = call[v]
        /\ call'[w].flushed = call[w].flushed /\ call'[w].pos = call[w].pos
        /\ call'[w].buffer = call[w].buffer /\ call'[w].ended = call[w].ended
        /\ call'[w].pc = "fixup" /\ call'[w].candidates = call[w].candidates
        /\ call'[w].census = call[w].census /\ call[w].pc = "mark"
        /\ call'[w].pending = PooledStrata(call[w].census)
        /\ call'[w].todo = call[w].todo
    BY <1>2, <1>9 DEF MarkAssigning, Becomes, Call
  <2>2. /\ run'.params = run.params /\ run'.status = "assigning"
        /\ run'.candidateCount = call[w].candidates
    BY <1>2, <1>9 DEF MarkAssigning, Run
  <2>3. call[w].candidates = Cardinality(DOMAIN Judged) /\ call[w].census = TrueCensus
    BY <1>2, <2>1 DEF StageTrue, PastStream
  <2>4. NobodyDiscards' => NobodyDiscards
    BY <1>2
  <2>5. Kept /\ RowsTrue'
    BY <1>1, <1>2, <2>2, <2>3, <2>4, SameRows
  <2>6. RunTrue'
    BY <2>2 DEF RunTrue
  <2>7. call[w].todo = {}
    BY <2>1 DEF Listing
  <2>8. ASSUME NEW c \in DOMAIN Judged
        PROVE  audience[c] \in PooledStrata(TrueCensus) \/ members[c].assigned = Final(c)
    <3>1. audience[c] \in CountedStrata(TrueCensus) /\ audience[c] \in Strata
      BY <2>8, JudgedFacts, StratumCounted DEF TrueCensus
    <3>2. members[c].assigned \in {audience[c], Final(c)}
      BY <1>2, <1>3, <2>8, <3>1, JudgedFacts DEF RowsTrue, AllStaged
    <3>3. CASE IsPooled(TrueCensus, audience[c])
      BY <3>1, <3>3 DEF PooledStrata
    <3>4. CASE ~IsPooled(TrueCensus, audience[c])
      BY <3>2, <3>4 DEF Final, AssignmentStratum
    <3> QED BY <3>3, <3>4
  <2>9. BufferTrue(w)' /\ StageTrue(w)'
    BY <1>1, <1>3, <1>5, <1>6, <2>1, <2>2, <2>3, <2>7, <2>8 DEF StageTrue, PastStream
  <2> QED BY <2>1, <2>5, <2>6, <2>9, TruthKept
<1> QED BY <1>7, <1>8, <1>9

(* Pooling.                                                                 *)
LEMMA TruthOfFixup ==
    ASSUME TypeOK, TypeOK', Coordinated, Truth, NEW w \in Workers,
           \/ \E s \in Strata : ListPooledRows(w, s)
           \/ \E d \in Customers : RewritePooledRow(w, d)
           \/ FixupDone(w)
    PROVE  Truth'
<1>1. call[w].pc = "fixup" /\ audience' = audience /\ run' = run
  BY DEF ListPooledRows, RewritePooledRow, FixupDone
<1>2. /\ call[w] \in Call /\ call \in [Workers -> LocalState]
      /\ run \in Run /\ NobodyDiscards /\ RowsTrue /\ RunTrue
      /\ BufferTrue(w) /\ StageTrue(w)
  BY <1>1, BeforeStep DEF Attempting
<1>3. /\ AllStaged
      /\ call[w].candidates = Cardinality(DOMAIN Judged)
      /\ call[w].census = TrueCensus
      /\ run.candidateCount = Cardinality(DOMAIN Judged)
      /\ call[w].pending \subseteq PooledStrata(TrueCensus)
      /\ \A c \in call[w].todo : c \in DOMAIN Judged /\ Final(c) = Pooled
      /\ \A c \in DOMAIN Judged : \/ audience[c] \in call[w].pending
                                  \/ c \in call[w].todo
                                  \/ members[c].assigned = Final(c)
  BY <1>1, <1>2 DEF StageTrue, PastStream
<1>4. Judged' = Judged /\ TrueCensus' = TrueCensus /\ (\A c : Final(c)' = Final(c))
  BY <1>1, SameJudgement
<1>5. ASSUME call'[w].flushed = call[w].flushed, call'[w].pos = call[w].pos,
             call'[w].buffer = call[w].buffer, call'[w].ended = call[w].ended,
             call'[w].pc \in PastStream
      PROVE  BufferTrue(w)'
  BY <1>1, <1>2, <1>5, SameJudgement DEF BufferTrue
<1>6. ASSUME NEW s \in Strata, ListPooledRows(w, s) PROVE Truth'
  <2>1. /\ call'[w].flushed = call[w].flushed /\ call'[w].pos = call[w].pos
        /\ call'[w].buffer = call[w].buffer /\ call'[w].ended = call[w].ended
        /\ call'[w].pc = "fixup" /\ call'[w].candidates = call[w].candidates
        /\ call'[w].census = call[w].census
        /\ call'[w].pending = call[w].pending \ {s}
        /\ call'[w].todo = {c \in DOMAIN members : members[c].verdict = s}
        /\ s \in call[w].pending /\ call[w].todo = {} /\ members' = members
    BY <1>1, <1>2, <1>6 DEF ListPooledRows, Becomes, Call
  <2>2. AllStaged'
    BY <1>1, <1>3, <2>1, SameJudgement DEF AllStaged
  <2>3. ASSUME NEW c \in call'[w].todo PROVE c \in DOMAIN Judged /\ Final(c) = Pooled
    <3>1. c \in DOMAIN members /\ audience[c] = s /\ c \in Customers
      BY <1>2, <2>1 DEF RowsTrue, TypeOK
    <3>2. c \in DOMAIN Judged
      BY <3>1, JudgedFacts
    <3>3. IsPooled(TrueCensus, s)
      BY <1>3, <2>1 DEF PooledStrata
    <3> QED BY <3>1, <3>2, <3>3 DEF Final, AssignmentStratum
  <2>4. ASSUME NEW c \in DOMAIN Judged
        PROVE  \/ audience[c] \in call'[w].pending
               \/ c \in call'[w].todo
               \/ members'[c].assigned = Final(c)
    <3>1. c \in DOMAIN members /\ members[c].verdict = audience[c]
      BY <1>2, <1>3, <2>4, JudgedFacts DEF AllStaged, RowsTrue
    <3> QED BY <1>3, <2>1, <3>1
  <2>5. BufferTrue(w)' /\ StageTrue(w)'
    BY <1>1, <1>3, <1>4, <1>5, <2>1, <2>2, <2>3, <2>4 DEF StageTrue, PastStream
  <2>6. Within(w)
    BY <1>6 DEF Within
  <2> QED BY <2>5, <2>6, TruthWithin
<1>7. ASSUME NEW d \in Customers, RewritePooledRow(w, d) PROVE Truth'
  <2>1. /\ call'[w].flushed = call[w].flushed /\ call'[w].pos = call[w].pos
        /\ call'[w].buffer = call[w].buffer /\ call'[w].ended = call[w].ended
        /\ call'[w].pc = "fixup" /\ call'[w].candidates = call[w].candidates
        /\ call'[w].census = call[w].census /\ call'[w].pending = call[w].pending
        /\ call'[w].todo = call[w].todo \ {d} /\ d \in call[w].todo
        /\ \A v \in Workers \ {w} : call'[v] = call[v]
    BY <1>1, <1>2, <1>7 DEF RewritePooledRow, Becomes, Call
  <2>2. Kept /\ RowsTrue'
    BY <1>7, RewriteKeeps
  <2>3. AllStaged' /\ RunTrue'
    BY <1>1, <1>2, <1>3, <2>2, KeptFacts, RunKept
  <2>4. ASSUME NEW c \in DOMAIN Judged
        PROVE  \/ audience[c] \in call[w].pending
               \/ c \in call[w].todo \ {d}
               \/ members'[c].assigned = Final(c)
    <3>1. c \in DOMAIN members /\ members \in [DOMAIN members -> Row]
      BY <1>3, <2>4, JudgedFacts DEF AllStaged, TypeOK
    <3>2. members'[c].assigned = IF c = d THEN Pooled ELSE members[c].assigned
      BY <1>7, <3>1 DEF RewritePooledRow, Row
    <3> QED BY <1>3, <2>1, <3>2
  <2>5. BufferTrue(w)' /\ StageTrue(w)'
    BY <1>1, <1>3, <1>4, <1>5, <2>1, <2>3, <2>4 DEF StageTrue, PastStream
  <2> QED BY <2>1, <2>2, <2>3, <2>5, TruthKept
<1>8. CASE FixupDone(w)
  <2>1. /\ call'[w].flushed = call[w].flushed /\ call'[w].pos = call[w].pos
        /\ call'[w].buffer = call[w].buffer /\ call'[w].ended = call[w].ended
        /\ call'[w].pc = "draw" /\ call'[w].candidates = call[w].candidates
        /\ call'[w].census = call[w].census /\ members' = members
        /\ call[w].todo = {} /\ call[w].pending = {}
    BY <1>1, <1>2, <1>8 DEF FixupDone, Goto, Becomes, Call
  <2>2. AllStaged'
    BY <1>1, <1>3, <2>1, SameJudgement DEF AllStaged
  <2>3. AllFinal'
    <3>1. Candidates(members) = DOMAIN Judged
      BY <1>2, <1>3, RowsFacts
    <3> QED BY <1>3, <1>4, <2>1, <3>1 DEF AllFinal
  <2>4. BufferTrue(w)' /\ StageTrue(w)'
    BY <1>1, <1>3, <1>4, <1>5, <2>1, <2>2, <2>3 DEF StageTrue, PastStream
  <2>5. Within(w)
    BY <1>8 DEF Within
  <2> QED BY <2>4, <2>5, TruthWithin
<1> QED BY <1>6, <1>7, <1>8

(* Drawing, checking and completing.                                        *)
LEMMA TruthOfDrawing ==
    ASSUME SameRates, TypeOK, TypeOK', Coordinated, Truth, NEW w \in Workers,
           DrawArms(w) \/ CheckArms(w) \/ Complete(w)
    PROVE  Truth'
<1>1. call[w].pc \in {"draw", "arms", "complete"} /\ audience' = audience
  BY DEF DrawArms, CheckArms, Complete
<1>2. /\ call[w] \in Call /\ call \in [Workers -> LocalState]
      /\ run \in Run /\ NobodyDiscards /\ RowsTrue /\ RunTrue
      /\ BufferTrue(w) /\ StageTrue(w)
  BY <1>1, BeforeStep DEF Attempting
<1>3. /\ AllStaged /\ AllFinal
      /\ call[w].candidates = Cardinality(DOMAIN Judged)
      /\ call[w].census = TrueCensus
      /\ run.candidateCount = Cardinality(DOMAIN Judged)
  BY <1>1, <1>2 DEF StageTrue, PastStream
<1>4. Judged' = Judged /\ TrueCensus' = TrueCensus /\ (\A c : Final(c)' = Final(c))
      /\ (\A p : TrueArms(p)' = TrueArms(p))
  BY <1>1, SameJudgement
<1>5. ASSUME call'[w].flushed = call[w].flushed, call'[w].pos = call[w].pos,
             call'[w].buffer = call[w].buffer, call'[w].ended = call[w].ended,
             call'[w].pc \in PastStream \union {"failing"}
      PROVE  BufferTrue(w)'
  BY <1>1, <1>2, <1>5, SameJudgement DEF BufferTrue
<1>6. CASE DrawArms(w)
  <2>1. /\ call'[w].flushed = call[w].flushed /\ call'[w].pos = call[w].pos
        /\ call'[w].buffer = call[w].buffer /\ call'[w].ended = call[w].ended
        /\ call'[w].pc = "arms" /\ call'[w].candidates = call[w].candidates
        /\ call'[w].census = call[w].census /\ run' = run
        /\ \A v \in Workers \ {w} : call'[v] = call[v]
    BY <1>2, <1>6 DEF DrawArms, Goto, Becomes, Call
  <2>2. /\ Kept /\ RowsTrue'
        /\ \A c \in Candidates(members') : members'[c].arm = TrueArms(run.params)[c]
    BY <1>6, DrawKeeps
  <2>3. AllStaged' /\ AllFinal' /\ RunTrue'
    BY <1>2, <1>3, <2>1, <2>2, KeptFacts, RunKept
  <2>4. AllDrawn'
    BY <1>4, <2>1, <2>2 DEF AllDrawn
  <2>5. BufferTrue(w)' /\ StageTrue(w)'
    BY <1>1, <1>3, <1>4, <1>5, <2>1, <2>3, <2>4 DEF StageTrue, PastStream
  <2> QED BY <2>1, <2>2, <2>3, <2>5, TruthKept
<1>7. CASE CheckArms(w)
  <2>1. /\ call'[w].flushed = call[w].flushed /\ call'[w].pos = call[w].pos
        /\ call'[w].buffer = call[w].buffer /\ call'[w].ended = call[w].ended
        /\ call'[w].pc \in {"complete", "failing"} /\ call'[w].candidates = call[w].candidates
        /\ call'[w].census = call[w].census /\ run' = run /\ members' = members
        /\ call'[w].control = Cardinality(InArm(members, "CONTROL"))
        /\ call'[w].treatment = Cardinality(InArm(members, "TREATMENT"))
        /\ call'[w].pc = "complete" =>
             call'[w].control + call'[w].treatment = call'[w].candidates
        /\ call[w].pc = "arms"
    BY <1>2, <1>7 DEF CheckArms, Becomes, Call
  <2>2. AllStaged' /\ AllFinal' /\ AllDrawn' /\ AllDrawn
    BY <1>1, <1>2, <1>3, <1>4, <2>1, SameJudgement DEF AllStaged, AllFinal, AllDrawn, StageTrue
  <2>3. \A arm : InArm(members, arm) = {c \in DOMAIN Judged : TrueArms(run.params)[c] = arm}
    <3>1. Candidates(members) = DOMAIN Judged
      BY <1>2, <1>3, RowsFacts
    <3> QED BY <2>2, <3>1 DEF InArm, AllDrawn
  <2>4. call'[w].control = ArmSize("CONTROL")' /\ call'[w].treatment = ArmSize("TREATMENT")'
    BY <1>4, <2>1, <2>3 DEF ArmSize
  <2>5. BufferTrue(w)' /\ StageTrue(w)'
    BY <1>1, <1>3, <1>4, <1>5, <2>1, <2>2, <2>4 DEF StageTrue, PastStream
  <2>6. Within(w)
    BY <1>7 DEF Within
  <2> QED BY <2>5, <2>6, TruthWithin
<1>8. CASE Complete(w)
  <2>1. /\ \A v \in Workers \ {w} : call'[v] = call[v]
        /\ call'[w] = Idle /\ members' = members /\ call[w].pc = "complete"
        /\ run'.params = run.params /\ run'.status = "complete"
        /\ run'.candidateCount = run.candidateCount
        /\ run'.controlCount = call[w].control /\ run'.treatmentCount = call[w].treatment
    BY <1>2, <1>8 DEF Complete, Return, Becomes, Run
  <2>2. NobodyDiscards' => NobodyDiscards
    BY <1>2
  <2>3. Kept /\ RowsTrue'
    BY <1>1, <1>2, <2>1, <2>2, SameRows
  <2>4. /\ AllDrawn /\ call[w].control = ArmSize("CONTROL")
        /\ call[w].treatment = ArmSize("TREATMENT")
        /\ call[w].control + call[w].treatment = call[w].candidates
    BY <1>2, <2>1 DEF StageTrue
  <2>5. RunTrue'
    <3>1. AllStaged' /\ AllFinal' /\ AllDrawn' /\ (\A arm : ArmSize(arm)' = ArmSize(arm))
      BY <1>2, <1>3, <2>3, <2>4, KeptFacts
    <3> QED BY <1>3, <1>4, <2>1, <2>4, <3>1 DEF RunTrue
  <2>6. BufferTrue(w)' /\ StageTrue(w)'
    <3>1. /\ call'[w].pc = "idle" /\ ~call'[w].ended
          /\ call'[w].flushed = 0 /\ call'[w].pos = 0
      BY <2>1 DEF Idle
    <3> QED BY <3>1 DEF BufferTrue, StageTrue, PastStream
  <2> QED BY <2>1, <2>3, <2>5, <2>6, TruthKept
<1> QED BY <1>6, <1>7, <1>8

(* While the customers stay as they are, every step keeps all of it.        *)
LEMMA TruthStep ==
    ASSUME SameRates, MaxDrift = 0,
           TypeOK, Orderly, Coordinated, Covered, Listing, Truth, [Next]_vars
    PROVE  Truth'
<1>1. TypeOK' /\ audience' = audience
  BY TypeStep, NoDrift
<1>2. ASSUME NEW w \in Workers, Create(w) \/ Claim(w) \/ Discard(w) \/ Reread(w)
      PROVE  Truth'
  BY <1>1, <1>2, TruthOfJoining
<1>3. CASE Apart \/ \E w \in Workers : Aside(w)
  BY <1>1, <1>3, TruthOfTheRest
<1>4. ASSUME NEW w \in Workers, InsertMembers(w) \/ RenewLease(w) PROVE Truth'
  BY <1>1, <1>4, TruthOfFlush
<1>5. ASSUME NEW w \in Workers, MarkAssigning(w) PROVE Truth'
  BY <1>1, <1>5, TruthOfCounting
<1>6. ASSUME NEW w \in Workers, NEW c \in Customers, RewritePooledRow(w, c) PROVE Truth'
  BY <1>1, <1>6, TruthOfFixup
<1>7. ASSUME NEW w \in Workers, DrawArms(w) \/ Complete(w) PROVE Truth'
  BY <1>1, <1>7, TruthOfDrawing
<1>8. ASSUME NEW w \in Workers, Within(w) PROVE Truth'
  <2>1. CASE Evaluate(w) \/ EndOfAudience(w)
    BY <1>1, <2>1, TruthOfStream
  <2>2. CASE CountDecisions(w) \/ TakeCensus(w)
    BY <1>1, <2>2, TruthOfCounting
  <2>3. CASE (\E s \in Strata : ListPooledRows(w, s)) \/ FixupDone(w)
    BY <1>1, <2>3, TruthOfFixup
  <2>4. CASE CheckArms(w)
    BY <1>1, <2>4, TruthOfDrawing
  <2> QED BY <1>8, <2>1, <2>2, <2>3, <2>4 DEF Within
<1> QED BY <1>2, <1>3, <1>4, <1>5, <1>6, <1>7, <1>8, StepKinds

(* Before the first call there is nothing to be wrong about.                *)
LEMMA TruthAtFirst == Init => Truth /\ Listing
<1> SUFFICES ASSUME Init PROVE Truth /\ Listing
  OBVIOUS
<1>1. /\ run.status = "none" /\ DOMAIN members = {}
      /\ \A w \in Workers : call[w] = Idle
  BY DEF Init, NoRun, NoRows
<1>2. /\ Idle.pc = "idle" /\ Idle.pos = 0 /\ Idle.flushed = 0 /\ ~Idle.ended
      /\ Idle.todo = {}
  BY DEF Idle
<1>3. Segment
  BY DEF Init, Segment, Present
<1>4. RowsTrue /\ RunTrue
  BY <1>1 DEF RowsTrue, RunTrue, Candidates
<1>5. CallsTrue
  BY <1>1, <1>2 DEF CallsTrue, BufferTrue, StageTrue, PastStream
<1> QED BY <1>1, <1>2, <1>3, <1>4, <1>5 DEF Truth, Listing

(* The inductive invariant. *)
CohortInv == TypeOK /\ Orderly /\ Coordinated /\ Covered /\ Listing /\ Truth

LEMMA CohortInvariant ==
    ASSUME Cooperation, SameRates, MaxDrift = 0
    PROVE  Spec => []CohortInv
<1>1. Init => Truth /\ Listing
  BY TruthAtFirst
<1>2. TypeOK /\ Orderly /\ Coordinated /\ Covered /\ Listing /\ Truth /\ [Next]_vars
        => Truth' /\ Listing'
  BY TruthStep, ListingStep
<1> QED BY <1>1, <1>2, OrderlyInvariant, PTL DEF Spec, CohortInv

(* What a complete run's rows say.                                          *)
LEMMA RowsOfComplete ==
    ASSUME CohortInv, run.status = "complete"
    PROVE  /\ NobodyDiscards
           /\ Candidates(members) = DOMAIN Judged
           /\ FrozenStratum = Judged
           /\ FrozenArms = TrueArms(run.params)
           /\ \A arm : InArm(members, arm)
                         = {c \in DOMAIN Judged : TrueArms(run.params)[c] = arm}
<1>1. NobodyDiscards
  BY DEF CohortInv, Orderly, Sole, NobodyDiscards, Claimed
<1>2. AllStaged /\ AllFinal /\ AllDrawn /\ TypeOK /\ RowsTrue
  BY DEF CohortInv, Truth, RunTrue
<1>3. Candidates(members) = DOMAIN Judged /\ FrozenStratum = Judged
  BY <1>2, RowsFacts
<1>4. FrozenArms = TrueArms(run.params)
  <2>1. FrozenArms = [c \in DOMAIN Judged |-> TrueArms(run.params)[c]]
    BY <1>2, <1>3 DEF FrozenArms, AllDrawn
  <2>2. DOMAIN TrueArms(run.params) = DOMAIN Judged
    BY DEF TrueArms, AssignStratifiedCohortArms
  <2>3. TrueArms(run.params) = [c \in DOMAIN Judged |-> TrueArms(run.params)[c]]
    BY <2>2 DEF TrueArms, AssignStratifiedCohortArms
  <2> QED BY <2>1, <2>3
<1>5. \A arm : InArm(members, arm) = {c \in DOMAIN Judged : TrueArms(run.params)[c] = arm}
  BY <1>2, <1>3 DEF InArm, AllDrawn
<1> QED BY <1>1, <1>3, <1>4, <1>5

(* While the calls of a run cooperate, agree on the rates and find the      *)
(* customers as they are, a complete run has a row for every customer of    *)
(* the store and its three counts are those of its rows, whatever crashed,  *)
(* was taken over or was superseded on the way, and by how many callers.    *)
THEOREM CountsCorrect ==
    ASSUME Cooperation, SameRates, MaxDrift = 0
    PROVE  Spec => []CountsMatchRows
<1>1. CohortInv => CountsMatchRows
  <2> SUFFICES ASSUME CohortInv, run.status = "complete" PROVE CountsMatchRows
    BY DEF CountsMatchRows
  <2>1. RunTrue
    BY DEF CohortInv, Truth
  <2> QED BY <2>1, RowsOfComplete DEF RunTrue, AllStaged, CountsMatchRows, ArmSize
<1> QED BY <1>1, CohortInvariant, PTL

(* Under the same conditions the arms the database drew, over rows staged   *)
(* in chunks by several callers, are those of one draw in memory over the   *)
(* whole cohort, for the parameters the run row names.                      *)
THEOREM ArmsAreTheReference ==
    ASSUME Cooperation, SameRates, MaxDrift = 0
    PROVE  Spec => []ArmsMatchReference
<1>1. CohortInv => ArmsMatchReference
  BY RowsOfComplete DEF ArmsMatchReference, TrueArms
<1> QED BY <1>1, CohortInvariant, PTL

(* A superseded call that is still at work writes only what is there: the   *)
(* rows it stages exist, and those it pools or draws say so already.        *)
LEMMA MembersFrozenStep ==
    ASSUME SameRates, MaxDrift = 0, CohortInv, run.status = "complete", [Next]_vars
    PROVE  members' = members
<1>1. /\ NobodyDiscards /\ Candidates(members) = DOMAIN Judged
      /\ AllStaged /\ AllFinal /\ AllDrawn /\ TypeOK /\ RowsTrue /\ Coordinated /\ Truth
      /\ members \in [DOMAIN members -> Row]
  BY RowsOfComplete DEF CohortInv, Truth, RunTrue, TypeOK
<1>2. ASSUME NEW w \in Workers, InsertMembers(w) PROVE members' = members
  <2>1. call[w] \in LocalState /\ BufferTrue(w)
    BY <1>1 DEF TypeOK, Truth, CallsTrue
  <2>2. DOMAIN Staged(call[w]) = call[w].flushed + 1 .. call[w].pos
    BY <2>1, StagedType
  <2>3. DOMAIN Staged(call[w]) \subseteq DOMAIN members
    BY <1>1, <2>1, <2>2 DEF BufferTrue, AllStaged
  <2>4. members' = [c \in DOMAIN members |-> members[c]]
    BY <1>2, <2>3 DEF InsertMembers, InsertMissing
  <2> QED BY <1>1, <2>4
<1>3. ASSUME NEW w \in Workers, NEW d \in Customers, RewritePooledRow(w, d)
      PROVE  members' = members
  <2>1. call[w].pc = "fixup" /\ d \in call[w].todo
    BY <1>3 DEF RewritePooledRow
  <2>2. d \in DOMAIN Judged /\ Final(d) = Pooled
    BY <1>1, <2>1 DEF Truth, CallsTrue, StageTrue
  <2>3. call[w].seed = run.params /\ \A c \in DOMAIN members : members[c].seed = run.params
    BY <1>1, <2>1, AttemptFacts DEF Attempting
  <2>4. d \in DOMAIN members /\ members[d].assigned = Pooled /\ members[d].seed = call[w].seed
    BY <1>1, <2>2, <2>3, JudgedFacts DEF AllStaged, AllFinal
  <2>5. members[d] = [members[d] EXCEPT !.assigned = Pooled, !.seed = call[w].seed]
    BY <1>1, <2>4 DEF Row
  <2>6. members' = [members EXCEPT ![d] = [members[d] EXCEPT !.assigned = Pooled,
                                                             !.seed = call[w].seed]]
    BY <1>3 DEF RewritePooledRow
  <2>7. \A c \in DOMAIN members : members'[c] = members[c]
    BY <1>1, <2>5, <2>6
  <2>8. members' = [c \in DOMAIN members |-> members'[c]]
    BY <1>1, <2>6
  <2> QED BY <1>1, <2>7, <2>8
<1>4. ASSUME NEW w \in Workers, DrawArms(w) PROVE members' = members
  <2>1. /\ \A c \in Candidates(members') : members'[c].arm = TrueArms(run.params)[c]
        /\ DOMAIN members' = DOMAIN members
        /\ \A c \in DOMAIN members : c \notin Candidates(members) => members'[c] = members[c]
        /\ \A c \in DOMAIN members :
             members'[c] = [members[c] EXCEPT !.arm = members'[c].arm]
    BY <1>1, <1>4, DrawKeeps
  <2>2. ASSUME NEW c \in Candidates(members) PROVE members'[c] = members[c]
    <3>1. c \in DOMAIN members /\ members[c] \in Row
      BY <1>1 DEF Candidates
    <3> DEFINE arm == members'[c].arm
    <3>2. members'[c] = [members[c] EXCEPT !.arm = arm]
      BY <2>1, <3>1
    <3>3. c \in Candidates(members')
      <4> HIDE DEF arm
      <4>1. members'[c].verdict = members[c].verdict
        BY <3>1, <3>2 DEF Row
      <4> QED BY <2>1, <3>1, <4>1 DEF Candidates, IsCandidate
    <3>4. arm = members[c].arm
      BY <1>1, <2>1, <3>3 DEF AllDrawn
    <3> HIDE DEF arm
    <3> QED BY <3>1, <3>2, <3>4 DEF Row
  <2>3. \A c \in DOMAIN members : members'[c] = members[c]
    BY <2>1, <2>2
  <2>4. members' = [c \in DOMAIN members |-> members'[c]]
    BY <1>4 DEF DrawArms
  <2> QED BY <1>1, <2>3, <2>4
<1>5. ASSUME NEW w \in Workers, Discard(w) PROVE FALSE
  BY <1>1, <1>5 DEF Discard, NobodyDiscards
<1>6. ASSUME NEW w \in Workers,
             \/ Create(w) \/ Claim(w) \/ Reread(w) \/ RenewLease(w)
             \/ MarkAssigning(w) \/ Complete(w)
      PROVE  members' = members
  BY <1>6 DEF Create, Claim, Reread, RenewLease, MarkAssigning, Complete
<1>7. ASSUME NEW w \in Workers, Within(w) \/ Aside(w) PROVE members' = members
  BY <1>1, <1>7, WithinShape DEF Aside
<1>8. CASE Apart
  BY <1>8 DEF Apart
<1> QED BY <1>1, <1>2, <1>3, <1>4, <1>5, <1>6, <1>7, <1>8, StepKinds

(* Under the same conditions the rows of a complete run never change again, *)
(* although superseded calls go on flushing, pooling and drawing.           *)
THEOREM FrozenMembership ==
    ASSUME Cooperation, SameRates, MaxDrift = 0
    PROVE  Spec => MembershipFrozen
<1>1. CohortInv /\ [Next]_vars => [run.status = "complete" => members' = members]_vars
  BY MembersFrozenStep
<1> QED BY <1>1, CohortInvariant, PTL DEF Spec, MembershipFrozen

-----------------------------------------------------------------------------
(* The run implements the atomic freeze *)

(* Without expiries under a running call there is one holder at a time.     *)
LEMMA SoleInvariant ==
    ASSUME MaxExpiries = 0
    PROVE  Spec => [](TypeOK /\ Sole)
<1>1. Init => Sole
  BY DEF Init, Idle, Sole, Claimed, Attempting
<1>2. TypeOK /\ Sole /\ [Next]_vars => Sole'
  BY SoleStep
<1> QED BY <1>1, <1>2, TypeCorrect, PTL DEF Spec

(* Complete is the end: nobody is past the compare-and-set any more.        *)
LEMMA CompleteIsLast ==
    ASSUME TypeOK, Sole, run.status = "complete", [Next]_vars
    PROVE  members' = members /\ run'.status = "complete"
<1>1. \A w \in Workers : call[w].pc \notin Claimed
  BY DEF Sole
<1>2. ASSUME NEW w \in Workers,
             \/ Create(w) \/ Claim(w) \/ Discard(w) \/ Reread(w)
             \/ InsertMembers(w) \/ RenewLease(w) \/ MarkAssigning(w)
             \/ \E c \in Customers : RewritePooledRow(w, c)
             \/ DrawArms(w) \/ Complete(w) \/ Within(w)
      PROVE  FALSE
  <2>1. call[w].pc \in Claimed \union {"create", "claim"}
    BY <1>2, WithinShape DEF Create, Claim, Discard, Reread, InsertMembers, RenewLease,
       MarkAssigning, RewritePooledRow, DrawArms, Complete, Claimed, Attempting
  <2>2. Create(w) \/ Claim(w)
    BY <1>1, <1>2, <2>1, WithinShape DEF Discard, Reread, InsertMembers, RenewLease,
       MarkAssigning, RewritePooledRow, DrawArms, Complete, Claimed, Attempting
  <2> QED BY <2>2 DEF Create, Claim
<1>3. ASSUME NEW w \in Workers, Aside(w) PROVE members' = members /\ run' = run
  BY <1>3 DEF Aside
<1>4. ASSUME Apart PROVE members' = members /\ run'.status = "complete"
  BY <1>4 DEF Apart, TypeOK, Run
<1> QED BY <1>2, <1>3, <1>4, StepKinds

(* As long as no lease expires under a call still running, a complete run's *)
(* rows never change again, whatever parameters the calls ask for, whatever *)
(* rates they compute, and however the customers are judged by then: nobody *)
(* is past the compare-and-set once the run is complete, and nobody gets    *)
(* past it again.                                                           *)
THEOREM FrozenWhileLeasesHold ==
    ASSUME MaxExpiries = 0
    PROVE  Spec => MembershipFrozen
<1>1. TypeOK /\ Sole /\ [Next]_vars => [run.status = "complete" => members' = members]_vars
  BY CompleteIsLast
<1> QED BY <1>1, SoleInvariant, PTL DEF Spec, MembershipFrozen

(* The refinement mapping of ImplementsFrozenCohort.                        *)
Cohort == IF run.status = "complete" THEN FrozenArms ELSE [c \in {0} |-> "none"]

(* Nothing is frozen at first.                                              *)
LEMMA CohortAtFirst == Init => Frozen!Init
BY DEF Init, NoRun, Frozen!Init, Frozen!NotFrozen

(* The abstract specification's arithmetic is this module's.                *)
LEMMA SameReference ==
    ASSUME NEW stratum, NEW values, NEW rates
    PROVE  Frozen!AssignStratifiedCohortArms(stratum, values, rates)
             = AssignStratifiedCohortArms(stratum, values, rates)
<1>0. ASSUME NEW S PROVE Frozen!Cardinality(S) = Cardinality(S)
  BY DEF Frozen!Cardinality, Cardinality
<1>1. \A n, r : Frozen!ControlCount(n, r) = ControlCount(n, r)
  BY DEF Frozen!ControlCount, Frozen!Least, Frozen!Greatest, Frozen!NormalizedRate,
     ControlCount, Least, Greatest, NormalizedRate
<1>2. \A group, value, quota :
        Frozen!Withheld(group, value, quota) = Withheld(group, value, quota)
  BY <1>0 DEF Frozen!Withheld, Frozen!RanksAhead, Withheld, RanksAhead
<1>3. /\ Frozen!CensusOf(stratum) = CensusOf(stratum)
      /\ \A census, s : Frozen!AssignmentStratum(census, s) = AssignmentStratum(census, s)
      /\ Frozen!AssignmentStrata = AssignmentStrata
  BY <1>0 DEF Frozen!CensusOf, CensusOf, Frozen!AssignmentStratum, AssignmentStratum,
     Frozen!IsPooled, IsPooled, Frozen!AssignmentStrata, AssignmentStrata
<1> QED
  BY <1>0, <1>1, <1>2, <1>3 DEF Frozen!AssignStratifiedCohortArms, AssignStratifiedCohortArms

(* What a run does before its completion does not show, and                 *)
(* completing it is one freeze for the parameters the run names.            *)
LEMMA CohortStep ==
    ASSUME MaxExpiries = 0, SameRates, MaxDrift = 0, CohortInv, Sole, [Next]_vars
    PROVE  [\E p \in Params : Frozen!Freeze(p)]_<<audience, Cohort>>
<1>1. TypeOK /\ TypeOK' /\ audience' = audience /\ run \in Run
  BY TypeStep, NoDrift DEF CohortInv, TypeOK
<1>2. CASE run.status = "complete"
  <2>1. members' = members /\ run'.status = "complete"
    BY <1>1, <1>2, CompleteIsLast
  <2>2. FrozenArms' = FrozenArms
    BY <2>1 DEF FrozenArms, Candidates
  <2> QED BY <1>1, <1>2, <2>1, <2>2 DEF Cohort
<1>3. CASE run.status # "complete" /\ run'.status # "complete"
  BY <1>1, <1>3 DEF Cohort
<1>4. CASE run.status # "complete" /\ run'.status = "complete"
  <2>1. PICK w \in Workers : Complete(w)
    <3>1. CASE Apart
      BY <1>1, <1>4, <3>1 DEF Apart, Run
    <3>2. ASSUME NEW w \in Workers, Aside(w) PROVE FALSE
      BY <1>1, <1>4, <3>2 DEF Aside, Run
    <3>3. ASSUME NEW w \in Workers, Within(w) PROVE FALSE
      BY <1>1, <1>4, <3>3, WithinShape
    <3>4. ASSUME NEW w \in Workers, Create(w) PROVE FALSE
      BY <1>4, <3>4, NoRunType DEF Create, Run
    <3>5. ASSUME NEW w \in Workers, Claim(w) \/ RenewLease(w) \/ MarkAssigning(w) PROVE FALSE
      BY <1>1, <1>4, <3>5 DEF Claim, RenewLease, MarkAssigning, Run
    <3>6. ASSUME NEW w \in Workers,
                 \/ Discard(w) \/ Reread(w) \/ InsertMembers(w) \/ DrawArms(w)
                 \/ \E c \in Customers : RewritePooledRow(w, c)
          PROVE  FALSE
      BY <1>4, <3>6 DEF Discard, Reread, InsertMembers, DrawArms, RewritePooledRow
    <3> QED BY <1>1, <3>1, <3>2, <3>3, <3>4, <3>5, <3>6, StepKinds
  <2>2. CohortInv'
    <3>1. Truth' /\ Listing'
      BY TruthStep, ListingStep DEF CohortInv
    <3>2. Orderly' /\ Coordinated' /\ Covered'
      BY OrderlyStep, CoordinatedStep, CoveredStep DEF CohortInv
    <3> QED BY <1>1, <3>1, <3>2 DEF CohortInv
  <2>3. FrozenArms = TrueArms(run.params) /\ members' = members
    <3>1. call[w].pc = "complete" /\ call[w].pc \in Attempting /\ members' = members
      BY <2>1 DEF Complete, Attempting
    <3>2. AllStaged /\ AllDrawn /\ RowsTrue
      BY <3>1 DEF CohortInv, Truth, CallsTrue, StageTrue, PastStream
    <3>3. FrozenArms = [c \in DOMAIN Judged |-> TrueArms(run.params)[c]]
      BY <1>1, <3>2, RowsFacts DEF FrozenArms, AllDrawn
    <3> QED BY <3>1, <3>3 DEF TrueArms, AssignStratifiedCohortArms
  <2>4. FrozenArms' = FrozenArms
    BY <2>3 DEF FrozenArms, Candidates
  <2>5. Cohort' = TrueArms(run.params) /\ Cohort = [c \in {0} |-> "none"]
    BY <1>4, <2>3, <2>4 DEF Cohort
  <2>6. Frozen!CandidateStratum = Judged
    BY DEF Frozen!CandidateStratum, Judged
  <2>7. run.params \in Params
    BY <1>1 DEF Run
  <2>8. Cohort' = Frozen!AssignStratifiedCohortArms(Frozen!CandidateStratum,
                                                    Hash[run.params], Rates[run.params])
    BY <2>5, <2>6, SameReference DEF TrueArms
  <2> QED
    BY <1>1, <2>5, <2>7, <2>8 DEF Frozen!Freeze, Frozen!NotFrozen, Cohort
<1> QED BY <1>2, <1>3, <1>4

(* With one live holder at a time, no takeover lost before its discard,     *)
(* rates the calls agree on and customers that stay as they are, the run,   *)
(* with its leases, chunks, crashes, takeovers by calls that ask for other  *)
(* parameters, retries and the statements its draw takes, is                *)
(* indistinguishable from freezing the whole audience at one instant.       *)
THEOREM ImplementsFreeze ==
    ASSUME MaxExpiries = 0, MaxLostDiscards = 0, SameRates, MaxDrift = 0
    PROVE  Spec => ImplementsFrozenCohort
<1>1. Cooperation
  BY DEF Cooperation
<1>2. Init => Frozen!Init
  BY CohortAtFirst
<1>3. CohortInv /\ Sole /\ [Next]_vars
        => [\E p \in Params : Frozen!Freeze(p)]_<<audience, Cohort>>
  BY CohortStep
<1>4. Spec => []CohortInv
  BY <1>1, CohortInvariant
<1> QED
  BY <1>2, <1>3, <1>4, SoleInvariant, PTL DEF Spec, ImplementsFrozenCohort, Frozen!Spec, Cohort

-----------------------------------------------------------------------------
(* The control group *)

(* The control group of a complete run is as large as its plan says, and    *)
(* somebody is left to be treated.                                          *)
ControlAsPlanned ==
    run.status = "complete" =>
        /\ run.controlCount = PlannedControl(StratumCensus(members), Rates[run.params])
        /\ run.candidateCount > 0 => run.treatmentCount > 0

(* The comparison of the drawn arms with the plan never fails.              *)
CheckPasses == [][\A w \in Workers : CheckArms(w) => call'[w].pc = "complete"]_vars

(* The reference's two arms: how many customers each holds.                 *)
LEMMA ReferenceArms ==
    ASSUME TypeOK, NEW p \in Params
    PROVE  LET In(arm) == {c \in DOMAIN Judged : TrueArms(p)[c] = arm}
           IN  /\ Cardinality(In("CONTROL")) = PlannedControl(TrueCensus, Rates[p])
               /\ Cardinality(In("CONTROL")) \in Nat /\ Cardinality(In("TREATMENT")) \in Nat
               /\ Cardinality(In("CONTROL")) + Cardinality(In("TREATMENT"))
                    = Cardinality(DOMAIN Judged)
               /\ DOMAIN Judged # {} => In("TREATMENT") # {}
<1> DEFINE In(arm) == {c \in DOMAIN Judged : TrueArms(p)[c] = arm}
<1>1. /\ IsFiniteSet(DOMAIN Judged) /\ DOMAIN Judged \subseteq Customers
      /\ \A c \in DOMAIN Judged : Judged[c] \in Strata
      /\ Hash[p] \in [AssignmentStrata -> [Customers -> Nat]]
      /\ Rates[p] \in [AssignmentStrata -> Nat]
  BY JudgedFacts, RunAssumption
<1>2. Cardinality(In("CONTROL")) = PlannedControl(TrueCensus, Rates[p])
  <2> HIDE DEF Judged
  <2> QED BY <1>1, PlannedIsDrawn DEF TrueArms, TrueCensus
<1>3. \A c \in DOMAIN Judged : TrueArms(p)[c] \in {"CONTROL", "TREATMENT"}
  BY DEF TrueArms, AssignStratifiedCohortArms
<1>4. \A arm : IsFiniteSet(In(arm)) /\ Cardinality(In(arm)) \in Nat
  <2> SUFFICES ASSUME NEW arm PROVE IsFiniteSet(In(arm)) /\ Cardinality(In(arm)) \in Nat
    OBVIOUS
  <2>1. In(arm) \in SUBSET DOMAIN Judged
    OBVIOUS
  <2> HIDE DEF In
  <2> QED BY <1>1, <2>1, FS_Subset, FS_CardinalityType
<1>5. /\ In("CONTROL") \union In("TREATMENT") = DOMAIN Judged
      /\ In("CONTROL") \intersect In("TREATMENT") = {}
  BY <1>3
<1>6. Cardinality(In("CONTROL")) + Cardinality(In("TREATMENT")) = Cardinality(DOMAIN Judged)
  <2> HIDE DEF In
  <2>1. Cardinality(In("CONTROL") \union In("TREATMENT"))
          = Cardinality(In("CONTROL")) + Cardinality(In("TREATMENT"))
              - Cardinality(In("CONTROL") \intersect In("TREATMENT"))
    BY <1>4, FS_Union
  <2> QED BY <1>4, <1>5, <2>1, FS_EmptySet
<1>7. ASSUME NEW c \in DOMAIN Judged PROVE In("TREATMENT") # {}
  <2> DEFINE a == Final(c)
             Group(b) == {d \in DOMAIN Judged : AssignmentStratum(TrueCensus, Judged[d]) = b}
             Quota(b) == ControlCount(Cardinality(Group(b)), Rates[p][b])
             Drawn(b) == Withheld(Group(b), Hash[p][b], Quota(b))
  <2>1. c \in Group(a) /\ a \in AssignmentStrata
    BY <1>1, JudgedFacts DEF Final, AssignmentStratum, AssignmentStrata
  <2>2. \A b : Drawn(b) \subseteq Group(b)
    BY DEF Withheld
  <2>3. PICK d \in Group(a) : d \notin Drawn(a)
    <3>1. IsFiniteSet(Group(a)) /\ Cardinality(Group(a)) \in Nat /\ Cardinality(Group(a)) # 0
      <4>1. Group(a) \in SUBSET DOMAIN Judged
        OBVIOUS
      <4> HIDE DEF Group
      <4> QED BY <1>1, <2>1, <4>1, FS_Subset, FS_CardinalityType, FS_EmptySet
    <3>2. Quota(a) \in 0 .. Cardinality(Group(a)) /\ Quota(a) < Cardinality(Group(a))
      <4> DEFINE n == Cardinality(Group(a))
                 r == Rates[p][a]
      <4>1. n \in Nat /\ n > 0 /\ r \in Nat
        <5> HIDE DEF Group, a
        <5> QED BY <1>1, <2>1, <3>1
      <4> HIDE DEF n, r
      <4>2. ControlCount(n, r) \in 0 .. n /\ ControlCount(n, r) < n
        BY <4>1, QuotaBounds
      <4> QED BY <4>2 DEF n, r
    <3>3. Valued(Hash[p][a], Group(a))
      <4>1. /\ Hash[p][a] \in [Customers -> Nat] /\ Group(a) \subseteq Customers
            /\ Customers \subseteq Nat
        BY <1>1, <2>1, RunAssumption DEF Customers
      <4> HIDE DEF Group, a
      <4> QED BY <4>1 DEF Valued
    <3>4. Cardinality(Drawn(a)) = Quota(a)
      <4> HIDE DEF Group, Quota, a
      <4> QED BY <3>1, <3>2, <3>3, WithheldExactly
    <3>5. Drawn(a) # Group(a)
      <4> HIDE DEF Group, Quota, Drawn, a
      <4> QED BY <3>2, <3>4
    <3> HIDE DEF Group, Drawn, a
    <3> QED BY <2>2, <3>5
  <2>4. d \notin UNION {Drawn(b) : b \in AssignmentStrata}
    <3>1. \A b : d \in Group(b) => b = a
      OBVIOUS
    <3> HIDE DEF Group, Drawn, a
    <3> QED BY <2>2, <2>3, <3>1
  <2>5. d \in DOMAIN Judged
    OBVIOUS
  <2>6. TrueArms(p)[d] = "TREATMENT"
    <3> DEFINE controls == UNION {Drawn(b) : b \in AssignmentStrata}
    <3>1. TrueArms(p)
            = [e \in DOMAIN Judged |-> IF e \in controls THEN "CONTROL" ELSE "TREATMENT"]
      BY DEF TrueArms, AssignStratifiedCohortArms, TrueCensus
    <3>2. d \notin controls
      BY <2>4
    <3> HIDE DEF controls
    <3> QED BY <2>5, <3>1, <3>2
  <2> QED BY <2>5, <2>6
<1> HIDE DEF In
<1>8. /\ Cardinality(In("CONTROL")) = PlannedControl(TrueCensus, Rates[p])
      /\ Cardinality(In("CONTROL")) \in Nat /\ Cardinality(In("TREATMENT")) \in Nat
      /\ Cardinality(In("CONTROL")) + Cardinality(In("TREATMENT")) = Cardinality(DOMAIN Judged)
      /\ DOMAIN Judged # {} => In("TREATMENT") # {}
  BY <1>2, <1>4, <1>6, <1>7
<1> QED BY <1>8 DEF In

(* Under the conditions of CountsCorrect a complete run withholds exactly   *)
(* the planned number of customers, and never all of them.                  *)
THEOREM ControlIsAsPlanned ==
    ASSUME Cooperation, SameRates, MaxDrift = 0
    PROVE  Spec => []ControlAsPlanned
<1>1. CohortInv => ControlAsPlanned
  <2> SUFFICES ASSUME CohortInv, run.status = "complete" PROVE ControlAsPlanned
    BY DEF ControlAsPlanned
  <2> DEFINE In(arm) == {c \in DOMAIN Judged : TrueArms(run.params)[c] = arm}
  <2>1. /\ AllStaged /\ RowsTrue /\ TypeOK /\ run.params \in Params
        /\ run.candidateCount = Cardinality(DOMAIN Judged)
        /\ run.controlCount = Cardinality(In("CONTROL"))
        /\ run.treatmentCount = Cardinality(In("TREATMENT"))
    BY DEF CohortInv, Truth, RunTrue, ArmSize, TypeOK, Run
  <2>2. StratumCensus(members) = TrueCensus
    BY <2>1, RowsFacts
  <2>3. IsFiniteSet(In("TREATMENT"))
    <3>1. In("TREATMENT") \in SUBSET DOMAIN Judged
      OBVIOUS
    <3> HIDE DEF In
    <3> QED BY <2>1, <3>1, JudgedFacts, FS_Subset
  <2>4. /\ Cardinality(In("CONTROL")) = PlannedControl(TrueCensus, Rates[run.params])
        /\ Cardinality(In("TREATMENT")) \in Nat
        /\ DOMAIN Judged # {} => In("TREATMENT") # {}
    BY <2>1, ReferenceArms
  <2> HIDE DEF In
  <2>5. run.candidateCount > 0 => run.treatmentCount > 0
    BY <2>1, <2>3, <2>4, JudgedFacts, FS_EmptySet
  <2> QED BY <2>1, <2>2, <2>4, <2>5 DEF ControlAsPlanned
<1> QED BY <1>1, CohortInvariant, PTL

(* The draw left nobody unassigned, and gave the planned control group.     *)
LEMMA CheckStep ==
    ASSUME SameRates, CohortInv, NEW w \in Workers, CheckArms(w)
    PROVE  call'[w].pc = "complete"
<1> DEFINE In(arm) == {c \in DOMAIN Judged : TrueArms(run.params)[c] = arm}
<1>1. /\ call[w].pc = "arms" /\ TypeOK /\ RowsTrue /\ StageTrue(w)
      /\ call[w].params \in Params /\ run.params \in Params
      /\ call \in [Workers -> LocalState]
  BY DEF CheckArms, CohortInv, Truth, CallsTrue, TypeOK, LocalState, Call, Run
<1>2. /\ AllStaged /\ AllDrawn /\ call[w].census = TrueCensus
      /\ call[w].candidates = Cardinality(DOMAIN Judged)
  BY <1>1 DEF StageTrue, PastStream
<1>3. \A arm : InArm(members, arm) = In(arm)
  <2>1. Candidates(members) = DOMAIN Judged
    BY <1>1, <1>2, RowsFacts
  <2> QED BY <1>2, <2>1 DEF InArm, AllDrawn
<1>4. Rates[call[w].params] = Rates[run.params]
  BY <1>1 DEF SameRates
<1>5. /\ Cardinality(In("CONTROL")) = PlannedControl(TrueCensus, Rates[run.params])
      /\ Cardinality(In("CONTROL")) + Cardinality(In("TREATMENT")) = Cardinality(DOMAIN Judged)
  BY <1>1, ReferenceArms
<1> HIDE DEF In
<1> QED BY <1>1, <1>2, <1>3, <1>4, <1>5 DEF CheckArms, Becomes

(* Under the same conditions the two comparisons that follow the draw, on   *)
(* which a run fails, never fail: not even for a superseded call.           *)
THEOREM CheckNeverFails ==
    ASSUME Cooperation, SameRates, MaxDrift = 0
    PROVE  Spec => CheckPasses
<1>1. CohortInv /\ [Next]_vars
        => [\A w \in Workers : CheckArms(w) => call'[w].pc = "complete"]_vars
  BY CheckStep
<1> QED BY <1>1, CohortInvariant, PTL DEF Spec, CheckPasses
=============================================================================
