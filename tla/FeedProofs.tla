----------------------------- MODULE FeedProofs -----------------------------
(***************************************************************************)
(* The feed under scrolls, ranking and vault imports, for any number of    *)
(* notes, authors, times and requests: the ranks every publication leaves, *)
(* the pages a scroll reads and the batches an import publishes.           *)
(***************************************************************************)
EXTENDS VaultImport, FiniteSetTheorems, WellFoundedInduction, TLAPS

----------------------------------------------------------------------------
(* Numbers *)

\* A nonempty set of naturals has a least element.
LEMMA LeastNatural ==
    ASSUME NEW S \in SUBSET Nat, S # {}
    PROVE  \E m \in S : \A k \in S : m <= k
<1> DEFINE T == {0 .. n : n \in S}
           O == StrictSubsetOrdering(Nat)
<1>1. T \subseteq FiniteSubsetsOf(Nat)
  <2>1. \A n \in Nat : IsFiniteSet(0 .. n) BY FS_Interval
  <2>2. \A n \in Nat : 0 .. n \in SUBSET Nat OBVIOUS
  <2>3. QED BY <2>1, <2>2 DEF FiniteSubsetsOf
<1>2. T # {} OBVIOUS
<1>3. IsWellFoundedOn(O, FiniteSubsetsOf(Nat)) BY FS_StrictSubsetOrderingWellFounded
<1> HIDE DEF T, O
<1>4. PICK I \in T : \A J \in T : ~ (<<J, I>> \in O) BY <1>1, <1>2, <1>3, WFMin
<1>5. PICK m \in S : I = 0 .. m BY DEF T
<1>6. ASSUME NEW k \in S, k < m PROVE FALSE
  <2>1. 0 .. k \in T BY DEF T
  <2>2. 0 .. k \subseteq I /\ 0 .. k # I
    <3>1. m \in 0 .. m /\ m \notin 0 .. k BY <1>6
    <3>2. QED BY <1>5, <1>6, <3>1
  <2>3. <<0 .. k, I>> \in O BY <1>5, <2>2 DEF O, StrictSubsetOrdering
  <2>4. QED BY <1>4, <2>1, <2>3
<1>7. QED BY <1>6

LEMMA ProductIsMonotone ==
    ASSUME NEW a \in Nat, NEW b \in Nat, NEW c \in Nat, b <= c
    PROVE  a * b <= a * c /\ a * b \in Nat /\ a * c \in Nat
<1>1. a * c = a * b + a * (c - b) OBVIOUS
<1>2. a * (c - b) >= 0 OBVIOUS
<1>3. QED BY <1>1, <1>2

----------------------------------------------------------------------------
(* Ranks *)

\* Rows of notes: first published when ranked, and the notes of one import have
\* one author and one rank.
Sound(table) ==
    /\ table \in [Notes -> Row \cup {Null}]
    /\ \A n \in Notes : table[n] # Null => (table[n].first = Null <=> table[n].rank = Null)
    /\ \A n, m \in Notes :
          table[n] # Null /\ table[m] # Null /\ table[n].batch # Null /\ table[m].batch = table[n].batch =>
             /\ Author[m] = Author[n]
             /\ table[n].rank # Null /\ table[m].rank # Null => table[m].rank = table[n].rank

\* Every note of an import has its rank.
ImportsAreRanked(table) ==
    \A n \in Notes : table[n] # Null /\ table[n].batch # Null => table[n].rank # Null

LEMMA NullApart ==
    /\ Null \notin Row /\ Null \notin Item /\ Null \notin Scroll /\ Null \notin Ranks
    /\ Null \notin Times /\ Null \notin Batches /\ Null \notin Import
BY NullIsApart, NullIsNoImport

\* The rank that an import has already.
LEMMA InheritedIsShared ==
    ASSUME NEW table, Sound(table), NEW n \in Notes, table[n] # Null
    PROVE  /\ InheritedRank(table, n) \in Ranks \cup {Null}
           /\ \A m \in RankedMates(table, n) :
                 table[n].batch # Null => InheritedRank(table, n) = table[m].rank
           /\ table[n].batch # Null /\ InheritedRank(table, n) # Null => RankedMates(table, n) # {}
           /\ table[n].batch = Null => InheritedRank(table, n) = Null
<1> DEFINE R == {table[m].rank : m \in RankedMates(table, n)}
<1>1. table[n].batch = Null => InheritedRank(table, n) = Null BY DEF InheritedRank
<1>2. RankedMates(table, n) = {} => InheritedRank(table, n) = Null BY DEF InheritedRank
<1>3. ASSUME table[n].batch # Null, NEW m \in RankedMates(table, n)
      PROVE  InheritedRank(table, n) = table[m].rank /\ table[m].rank \in Ranks
  <2>1. \A k \in RankedMates(table, n) :
           /\ k \in Notes /\ table[k] # Null /\ table[k].batch = table[n].batch
           /\ table[k].rank # Null
    BY <1>3 DEF RankedMates, Mates
  <2>2. \A k \in RankedMates(table, n) : table[k].rank = table[m].rank
    BY <1>3, <2>1 DEF Sound
  <2>3. R = {table[m].rank} BY <2>2
  <2>4. table[m] \in Row BY <2>1 DEF Sound
  <2>5. table[m].rank \in Ranks BY <2>1, <2>4 DEF Row
  <2>6. table[m].rank <= table[m].rank BY <2>5 DEF Ranks
  <2>7. InheritedRank(table, n) = CHOOSE r \in R : \A q \in R : q <= r BY <1>3 DEF InheritedRank
  <2>8. QED BY <2>3, <2>5, <2>6, <2>7
<1>4. QED BY <1>1, <1>2, <1>3

\* A nonempty set of notes has an earliest.
LEMMA EarliestExists ==
    ASSUME NEW T \in SUBSET Notes, NEW at \in [T -> Nat], NEW unit \in SUBSET T, unit # {}
    PROVE  \E k \in unit : \A l \in unit : ~Earlier(at, l, k)
<1>0. T \subseteq Nat BY FeedAssumption
<1> DEFINE A == {at[k] : k \in unit}
<1>1. A \in SUBSET Nat /\ A # {} OBVIOUS
<1> HIDE DEF A
<1>2. PICK a \in A : \A b \in A : a <= b BY <1>1, LeastNatural
<1> DEFINE B == {k \in unit : at[k] = a}
<1>3. B \in SUBSET Nat /\ B # {} BY <1>0 DEF A
<1> HIDE DEF B
<1>4. PICK k \in B : \A l \in B : k <= l BY <1>3, LeastNatural
<1>5. k \in unit /\ at[k] = a BY DEF B
<1>6. ASSUME NEW l \in unit PROVE ~Earlier(at, l, k)
  <2>1. a <= at[l] /\ at[l] \in Nat /\ a \in Nat BY <1>1, <1>2 DEF A
  <2>2. at[l] = a => k <= l BY <1>4 DEF B
  <2>3. l \in Nat /\ k \in Nat BY <1>0, <1>5
  <2>4. QED BY <1>5, <2>1, <2>2, <2>3 DEF Earlier
<1>7. QED BY <1>5, <1>6

LEMMA BurstBound ==
    ASSUME NEW t \in Times, NEW c \in Nat, c <= Cardinality(Notes) - 1
    PROVE  t - BurstStep * c \in Ranks
<1>1. Cardinality(Notes) \in Nat BY FeedAssumption, FS_CardinalityType
<1>2. BurstStep \in Nat /\ MaxTime \in Nat BY FeedAssumption
<1> DEFINE d == Cardinality(Notes) - 1
<1>3. d \in Nat /\ c <= d BY <1>1
<1> HIDE DEF d
<1>4. BurstStep * c <= BurstStep * d /\ BurstStep * c \in Nat /\ BurstStep * d \in Nat
  BY <1>2, <1>3, ProductIsMonotone
<1>5. BurstStep * (1 - Cardinality(Notes)) = - (BurstStep * d)
  <2>1. 1 - Cardinality(Notes) = - d BY <1>1 DEF d
  <2>2. BurstStep * (- d) = - (BurstStep * d) BY <1>2, <1>3
  <2>3. QED BY <2>1, <2>2
<1>6. t \in Int /\ 0 <= t /\ t <= MaxTime BY <1>2 DEF Times
<1>7. QED BY <1>2, <1>4, <1>5, <1>6 DEF Ranks

\* What is computed for a target is a rank: at most all other notes weigh on it.
LEMMA ComputedIsRank ==
    ASSUME NEW table, Sound(table), NEW T \in SUBSET Notes,
           \A k \in T : table[k] # Null /\ table[k].published # Null /\ table[k].rank = Null,
           NEW n \in T
    PROVE  Computed(table, T, n) \in Ranks
<1> DEFINE at == [k \in T |-> table[k].published]
           P == Prior(table, T, Author[n])
           before == {m \in P : /\ table[m].first \in (at[n] - BurstWindow) .. at[n]
                                /\ CountsAsPrior(table, P, m)}
           ahead == {k \in Ahead(T, at, n) : CountsAsTarget(table, T, k)}
<1>1. Computed(table, T, n) = at[n] - BurstStep * (Cardinality(before) + Cardinality(ahead))
  BY DEF Computed
<1>2. \A k \in T : table[k] \in Row /\ table[k].first = Null BY DEF Sound
<1>3. \A k \in T : at[k] \in Times BY <1>2 DEF Row
<1>4. \A k \in T : at[k] \in Nat /\ k \in Nat BY <1>3, FeedAssumption DEF Times
<1>5. P \subseteq Notes /\ \A m \in P : table[m].first # Null BY DEF Prior
<1>6. ahead \subseteq T \ {n} BY <1>4 DEF Ahead, Earlier
<1>7. before \subseteq Notes \ T BY <1>2, <1>5
<1> HIDE DEF before, ahead, at, P
<1>8. IsFiniteSet(Notes) /\ Cardinality(Notes) \in Nat BY FeedAssumption, FS_CardinalityType
<1>9. /\ IsFiniteSet(before) /\ Cardinality(before) \in Nat
      /\ IsFiniteSet(ahead) /\ Cardinality(ahead) \in Nat
  <2>1. before \in SUBSET Notes /\ ahead \in SUBSET Notes BY <1>6, <1>7
  <2>2. QED BY <1>8, <2>1, FS_Subset, FS_CardinalityType
<1>10. /\ IsFiniteSet(Notes \ {n}) /\ Cardinality(Notes \ {n}) = Cardinality(Notes) - 1
  BY <1>8, FS_RemoveElement
<1>11. Cardinality(before) + Cardinality(ahead) <= Cardinality(Notes) - 1
  <2>1. before \cup ahead \in SUBSET (Notes \ {n}) BY <1>6, <1>7
  <2>2. Cardinality(before \cup ahead) <= Cardinality(Notes) - 1 BY <1>10, <2>1, FS_Subset
  <2>3. before \cap ahead = {} BY <1>6, <1>7
  <2>4. Cardinality(before \cap ahead) = 0 BY <2>3, FS_EmptySet
  <2>5. Cardinality(before \cup ahead) = Cardinality(before) + Cardinality(ahead) - Cardinality(before \cap ahead)
    BY <1>9, FS_Union
  <2>6. QED BY <1>9, <2>2, <2>4, <2>5
<1> DEFINE c == Cardinality(before) + Cardinality(ahead)
<1>12. c \in Nat /\ c <= Cardinality(Notes) - 1 BY <1>9, <1>11
<1>13. at[n] \in Times BY <1>3
<1> HIDE DEF c
<1>14. at[n] - BurstStep * c \in Ranks BY <1>12, <1>13, BurstBound
<1>15. QED BY <1>1, <1>14 DEF c

LEMMA RankOfIsShared ==
    ASSUME NEW table, Sound(table), NEW ids \in SUBSET Notes, \A n \in ids : table[n] # Null,
           NEW all, all = Targets(table, ids), NEW n \in all
    PROVE  /\ RankOf(table, all, n) \in Ranks
           /\ table[n].batch # Null =>
                 /\ \A m \in RankedMates(table, n) : RankOf(table, all, n) = table[m].rank
                 /\ \A m \in all : table[m].batch = table[n].batch => RankOf(table, all, m) = RankOf(table, all, n)
<1>1. \A k \in all : /\ k \in Notes /\ table[k] # Null /\ table[k] \in Row
                     /\ table[k].published # Null /\ table[k].rank = Null
  BY DEF Targets, Sound
<1>2. RankOf(table, all, n) \in Ranks
  <2> DEFINE T == {k \in all : Author[k] = Author[n]}
             at == [k \in T |-> table[k].published]
             unit == T \cap Mates(table, n)
             first == CHOOSE k \in unit : \A l \in unit : ~Earlier(at, l, k)
  <2>1. RankOf(table, all, n) = IF InheritedRank(table, n) # Null THEN InheritedRank(table, n)
                                ELSE Computed(table, T, first)
    BY DEF RankOf
  <2>2. T \in SUBSET Notes /\ n \in T BY <1>1
  <2>3. at \in [T -> Nat]
    <3>1. \A k \in T : table[k].published \in Times BY <1>1 DEF Row
    <3>2. Times \subseteq Nat BY DEF Times
    <3>3. QED BY <3>1, <3>2
  <2>4. n \in Mates(table, n) BY <1>1 DEF Mates
  <2>5. unit \in SUBSET T /\ unit # {} BY <2>2, <2>4
  <2>6. \A k \in T : table[k] # Null /\ table[k].published # Null /\ table[k].rank = Null BY <1>1
  <2> HIDE DEF T, at, unit
  <2>7. \E k \in unit : \A l \in unit : ~Earlier(at, l, k) BY <2>2, <2>3, <2>5, EarliestExists
  <2>8. first \in T BY <2>5, <2>7
  <2> HIDE DEF first
  <2>9. Computed(table, T, first) \in Ranks BY <2>2, <2>6, <2>8, ComputedIsRank
  <2>10. InheritedRank(table, n) \in Ranks \cup {Null} BY <1>1, InheritedIsShared
  <2>11. QED BY <2>1, <2>9, <2>10
<1>3. ASSUME table[n].batch # Null, NEW m \in RankedMates(table, n)
      PROVE  RankOf(table, all, n) = table[m].rank
  <2>1. InheritedRank(table, n) = table[m].rank BY <1>1, <1>3, InheritedIsShared
  <2>2. table[m].rank # Null BY DEF RankedMates
  <2>3. QED BY <2>1, <2>2 DEF RankOf
<1>4. ASSUME table[n].batch # Null, NEW m \in all, table[m].batch = table[n].batch
      PROVE  RankOf(table, all, m) = RankOf(table, all, n)
  <2>1. Author[m] = Author[n] BY <1>1, <1>4 DEF Sound
  <2>2. Mates(table, m) = Mates(table, n) BY <1>4, <2>1 DEF Mates
  <2>3. InheritedRank(table, m) = InheritedRank(table, n) BY <1>4, <2>2 DEF InheritedRank, RankedMates
  <2>4. QED BY <2>1, <2>2, <2>3 DEF RankOf
<1>5. QED BY <1>2, <1>3, <1>4

\* Assign ranks what it was asked to, keeps ranks that are there, and changes
\* nothing else of a row.
LEMMA AssignRanks ==
    ASSUME NEW table, Sound(table), NEW ids \in SUBSET Notes, \A n \in ids : table[n] # Null,
           NEW new, new = Assign(table, ids)
    PROVE  /\ Sound(new)
           /\ \A n \in Notes : new[n] = Null <=> table[n] = Null
           /\ \A n \in Notes : table[n] # Null =>
                 /\ new[n].batch = table[n].batch /\ new[n].published = table[n].published
                 /\ new[n].shown = table[n].shown
                 /\ table[n].rank # Null => new[n].rank = table[n].rank
           /\ \A n \in ids : table[n].published # Null => new[n].rank # Null
<1> DEFINE all == Targets(table, ids)
           ranked(n) == [table[n] EXCEPT !.rank = RankOf(table, all, n), !.first = table[n].published]
<1>1. \A k \in all : /\ k \in ids /\ k \in Notes /\ table[k] # Null /\ table[k] \in Row
                     /\ table[k].published # Null /\ table[k].rank = Null
  BY DEF Targets, Sound
<1>2. \A n \in Notes : new[n] = IF n \in all THEN ranked(n) ELSE table[n] BY DEF Assign
<1>3. \A n \in ids : table[n].published # Null /\ table[n].rank = Null => n \in all BY DEF Targets
<1>4. ASSUME NEW n \in all
      PROVE  /\ new[n] \in Row
             /\ new[n].batch = table[n].batch /\ new[n].published = table[n].published
             /\ new[n].shown = table[n].shown
             /\ new[n].rank = RankOf(table, all, n) /\ new[n].rank \in Ranks
             /\ new[n].first # Null
  <2>1. RankOf(table, all, n) \in Ranks BY RankOfIsShared
  <2> HIDE DEF all
  <2>2. table[n].published \in Times BY <1>1 DEF Row
  <2> DEFINE r == RankOf(table, all, n)
             t == table[n].published
  <2>3. new[n] = [table[n] EXCEPT !.rank = r, !.first = t] BY <1>1, <1>2
  <2>4. table[n] \in Row /\ r \in Ranks /\ t \in Times BY <1>1, <2>1, <2>2
  <2> HIDE DEF r, t
  <2>5. /\ new[n] \in Row /\ new[n].batch = table[n].batch /\ new[n].published = table[n].published
        /\ new[n].shown = table[n].shown /\ new[n].rank = r /\ new[n].first = t
    BY <2>3, <2>4 DEF Row
  <2>6. QED BY <2>4, <2>5, NullApart DEF r
<1>5. \A n \in Notes \ all : new[n] = table[n] BY <1>2
<1> HIDE DEF all, ranked
<1>6. \A n \in Notes : new[n] \in Row \cup {Null} BY <1>4, <1>5 DEF Sound
<1>7. \A n \in Notes : new[n] = Null <=> table[n] = Null BY <1>1, <1>4, <1>5, NullApart
<1>8. \A n \in Notes : table[n] # Null =>
                 /\ new[n].batch = table[n].batch /\ new[n].published = table[n].published
                 /\ new[n].shown = table[n].shown
                 /\ table[n].rank # Null => new[n].rank = table[n].rank
  BY <1>1, <1>4, <1>5
<1>9. new \in [Notes -> Row \cup {Null}]
  <2>1. new = [n \in Notes |-> IF n \in all THEN ranked(n) ELSE table[n]] BY DEF Assign, all, ranked
  <2>2. QED BY <1>6, <2>1
<1>10. \A n \in Notes : new[n] # Null => (new[n].first = Null <=> new[n].rank = Null)
  BY <1>4, <1>5, NullApart DEF Sound
<1>11. ASSUME NEW n \in Notes, NEW m \in Notes, new[n] # Null, new[m] # Null, new[n].batch # Null,
              new[m].batch = new[n].batch
       PROVE  Author[m] = Author[n] /\ (new[n].rank # Null /\ new[m].rank # Null => new[m].rank = new[n].rank)
  <2>1. /\ table[n] # Null /\ table[m] # Null /\ table[n].batch # Null
        /\ table[m].batch = table[n].batch
    BY <1>7, <1>8, <1>11
  <2>2. Author[m] = Author[n] BY <2>1 DEF Sound
  <2>3. ASSUME new[n].rank # Null, new[m].rank # Null PROVE new[m].rank = new[n].rank
    <3>1. CASE n \in all /\ m \in all
      <4>1. RankOf(table, all, m) = RankOf(table, all, n) BY <2>1, <3>1, RankOfIsShared DEF all
      <4>2. QED BY <1>4, <3>1, <4>1
    <3>2. CASE n \in all /\ m \notin all
      <4>1. m \in RankedMates(table, n) BY <1>5, <2>1, <2>2, <2>3, <3>2 DEF RankedMates, Mates
      <4>2. RankOf(table, all, n) = table[m].rank BY <2>1, <3>2, <4>1, RankOfIsShared DEF all
      <4>3. QED BY <1>4, <1>5, <3>2, <4>2
    <3>3. CASE n \notin all /\ m \in all
      <4>1. n \in RankedMates(table, m) BY <1>5, <2>1, <2>2, <2>3, <3>3 DEF RankedMates, Mates
      <4>2. RankOf(table, all, m) = table[n].rank BY <2>1, <3>3, <4>1, RankOfIsShared DEF all
      <4>3. QED BY <1>4, <1>5, <3>3, <4>2
    <3>4. CASE n \notin all /\ m \notin all BY <1>5, <2>1, <2>3, <3>4 DEF Sound
    <3>5. QED BY <3>1, <3>2, <3>3, <3>4
  <2>4. QED BY <2>2, <2>3
<1>12. Sound(new) BY <1>9, <1>10, <1>11 DEF Sound
<1>13. ASSUME NEW n \in ids, table[n].published # Null PROVE new[n].rank # Null
  <2>1. CASE table[n].rank = Null BY <1>3, <1>4, <1>13, <2>1, NullApart
  <2>2. CASE table[n].rank # Null BY <1>8, <2>2
  <2>3. QED BY <2>1, <2>2
<1>14. QED BY <1>7, <1>8, <1>12, <1>13

----------------------------------------------------------------------------
(* The top of a list *)

LEMMA BelowOrders ==
    ASSUME NEW x \in Item, NEW y \in Item
    PROVE  /\ ~Below(x, x)
           /\ x = y \/ Below(x, y) \/ Below(y, x)
           /\ Below(x, y) => ~Below(y, x)
           /\ \A z \in Item : Below(x, y) /\ Below(y, z) => Below(x, z)
           /\ x.rank < y.rank => Below(x, y)
           /\ Below(x, y) => x.rank <= y.rank
<1>1. \A z \in Item : z.rank \in Int /\ z.id \in Nat
  BY FeedAssumption DEF Item, Ranks
<1>2. x.rank = y.rank /\ x.id = y.id => x = y BY DEF Item
<1>3. QED BY <1>1, <1>2 DEF Below

Higher(S, x) == {y \in S : Below(x, y)}

LEMMA HigherCount ==
    ASSUME NEW S \in SUBSET Item, IsFiniteSet(S), NEW x
    PROVE  /\ Higher(S, x) \subseteq S /\ IsFiniteSet(Higher(S, x)) /\ Cardinality(Higher(S, x)) \in Nat
           /\ x \in Top(S) <=> x \in S /\ Cardinality(Higher(S, x)) < PageSize
<1>1. Higher(S, x) \in SUBSET S BY DEF Higher
<1>2. QED BY <1>1, FS_Subset, FS_CardinalityType DEF Top, Higher

\* A set within another has at most as many members.
LEMMA Within ==
    ASSUME NEW S, NEW T, IsFiniteSet(T), S \subseteq T
    PROVE  /\ IsFiniteSet(S) /\ Cardinality(S) \in Nat /\ Cardinality(T) \in Nat
           /\ Cardinality(S) <= Cardinality(T)
           /\ S # T => Cardinality(S) < Cardinality(T)
BY FS_Subset, FS_CardinalityType

LEMMA HighestExists ==
    ASSUME NEW S \in SUBSET Item, IsFiniteSet(S), S # {}
    PROVE  \E x \in S : \A y \in S : ~Below(x, y)
<1> DEFINE C == {Cardinality(Higher(S, x)) : x \in S}
<1>1. C \in SUBSET Nat /\ C # {} BY HigherCount
<1>2. PICK c \in C : \A d \in C : c <= d
  <2> HIDE DEF C
  <2>1. QED BY <1>1, LeastNatural
<1>3. PICK x \in S : c = Cardinality(Higher(S, x)) OBVIOUS
<1>4. ASSUME NEW y \in S, Below(x, y) PROVE FALSE
  <2>1. Higher(S, y) \subseteq Higher(S, x) BY <1>4, BelowOrders DEF Higher
  <2>2. y \in Higher(S, x) /\ y \notin Higher(S, y) BY <1>4, BelowOrders DEF Higher
  <2>3. Cardinality(Higher(S, y)) < Cardinality(Higher(S, x))
    BY <2>1, <2>2, HigherCount, Within
  <2>4. c <= Cardinality(Higher(S, y)) BY <1>2
  <2>5. Cardinality(Higher(S, y)) \in Nat /\ Cardinality(Higher(S, x)) \in Nat BY HigherCount
  <2>6. QED BY <1>3, <2>3, <2>4, <2>5
<1>5. QED BY <1>4

\* What is not at the top is below all that is.
LEMMA TopIsAbove ==
    ASSUME NEW S \in SUBSET Item, IsFiniteSet(S), NEW x \in S, x \notin Top(S), NEW y \in Top(S)
    PROVE  Below(x, y)
<1>1. y \in S /\ Cardinality(Higher(S, y)) < PageSize BY HigherCount
<1>2. ~(Cardinality(Higher(S, x)) < PageSize) BY HigherCount
<1>3. x # y OBVIOUS
<1>4. ASSUME Below(y, x) PROVE FALSE
  <2>1. Higher(S, x) \subseteq Higher(S, y) BY <1>1, <1>4, BelowOrders DEF Higher
  <2>2. Cardinality(Higher(S, x)) <= Cardinality(Higher(S, y)) BY <2>1, HigherCount, Within
  <2>3. Cardinality(Higher(S, x)) \in Nat /\ Cardinality(Higher(S, y)) \in Nat /\ PageSize \in Nat
    BY HigherCount, PageAssumption
  <2>4. QED BY <1>1, <1>2, <2>2, <2>3
<1>5. QED BY <1>1, <1>3, <1>4, BelowOrders

\* A top that is not full is everything.
LEMMA TopIsFull ==
    ASSUME NEW S \in SUBSET Item, IsFiniteSet(S)
    PROVE  /\ Top(S) \subseteq S
           /\ Top(S) = S \/ Cardinality(Top(S)) >= PageSize
           /\ S # {} => Top(S) # {}
<1>1. Top(S) \subseteq S BY DEF Top
<1>2. ASSUME S \ Top(S) # {} PROVE Cardinality(Top(S)) >= PageSize
  <2>1. S \ Top(S) \in SUBSET Item /\ IsFiniteSet(S \ Top(S)) BY <1>1, FS_Subset
  <2>2. PICK x \in S \ Top(S) : \A y \in S \ Top(S) : ~Below(x, y) BY <1>2, <2>1, HighestExists
  <2>3. Higher(S, x) \subseteq Top(S) BY <2>2 DEF Higher
  <2>4. Cardinality(Higher(S, x)) <= Cardinality(Top(S)) /\ Cardinality(Top(S)) \in Nat
    BY <1>1, <2>3, Within
  <2>5. ~(Cardinality(Higher(S, x)) < PageSize) BY HigherCount
  <2>6. QED BY <2>4, <2>5, HigherCount, PageAssumption
<1>3. ASSUME S # {} PROVE Top(S) # {}
  <2>1. Cardinality({}) = 0 BY FS_EmptySet
  <2>2. QED BY <1>2, <1>3, <2>1, PageAssumption
<1>4. QED BY <1>1, <1>2, <1>3

\* The top of a part that holds the top of the whole is the top of the whole.
LEMMA TopOfPart ==
    ASSUME NEW S \in SUBSET Item, IsFiniteSet(S), NEW U \in SUBSET S, Top(S) \subseteq U
    PROVE  Top(U) = Top(S)
<1>1. U \in SUBSET Item /\ IsFiniteSet(U) BY FS_Subset
<1>2. PageSize \in Nat BY PageAssumption
<1>3. ASSUME NEW x \in Top(S) PROVE x \in Top(U)
  <2>1. Higher(U, x) \subseteq Higher(S, x) BY DEF Higher
  <2>2. Cardinality(Higher(U, x)) <= Cardinality(Higher(S, x)) BY <2>1, HigherCount, Within
  <2>3. Cardinality(Higher(S, x)) < PageSize BY HigherCount
  <2>4. QED BY <1>1, <1>2, <2>2, <2>3, HigherCount
<1>4. ASSUME NEW x \in Top(U), x \notin Top(S) PROVE FALSE
  <2>1. x \in U /\ x \in S /\ Cardinality(Higher(U, x)) < PageSize BY <1>1, HigherCount
  <2>2. Top(S) \subseteq Higher(U, x) BY <1>4, <2>1, TopIsAbove DEF Higher
  <2>3. Cardinality(Top(S)) <= Cardinality(Higher(U, x)) /\ Cardinality(Top(S)) \in Nat
    BY <1>1, <2>2, HigherCount, Within
  <2>4. Cardinality(Top(S)) >= PageSize BY <1>4, <2>1, TopIsFull
  <2>5. QED BY <1>1, <1>2, <2>1, <2>3, <2>4, HigherCount
<1>5. QED BY <1>3, <1>4

----------------------------------------------------------------------------
(* What the feed lists *)

\* A table between two transactions.
Settled(table) == Sound(table) /\ ImportsAreRanked(table)

ItemOf(table, n) == IF IsLarge(table, n) THEN Card(table, n) ELSE NoteItem(table, n)

ListedNotes(table, tag) ==
    {n \in Notes : Recommendable(table, n) /\ HasTag(n, tag) /\ table[n].rank # Null}

\* The image of a finite set is finite.
LEMMA FiniteImage ==
    ASSUME NEW S, IsFiniteSet(S), NEW f, DOMAIN f = S, NEW T, T = {f[x] : x \in S}, f \in [S -> T]
    PROVE  IsFiniteSet(T)
<1>1. f \in Surjection(S, T) BY DEF Surjection
<1>2. QED BY <1>1, FS_Surjection

LEMMA ItemsAreItems ==
    ASSUME NEW table, Sound(table), NEW tag
    PROVE  /\ Items(table, tag) = {ItemOf(table, n) : n \in ListedNotes(table, tag)}
           /\ Items(table, tag) \in SUBSET Item
           /\ IsFiniteSet(Items(table, tag))
<1> DEFINE R == ListedNotes(table, tag)
           f == [n \in R |-> ItemOf(table, n)]
           T == {f[n] : n \in R}
<1>1. Items(table, tag) = {ItemOf(table, n) : n \in R}
  <2>1. R = {n \in Notes : Recommendable(table, n) /\ HasTag(n, tag) /\ table[n].rank # Null}
    BY DEF ListedNotes
  <2>2. Items(table, tag) = {NoteItem(table, n) : n \in {k \in R : ~IsLarge(table, k)}}
                            \cup {Card(table, n) : n \in {k \in R : IsLarge(table, k)}}
    BY <2>1 DEF Items
  <2> HIDE DEF R
  <2>3. QED BY <2>2 DEF ItemOf
<1>2. \A n \in R : ItemOf(table, n) \in Item
  <2>1. ASSUME NEW n \in R PROVE ItemOf(table, n) \in Item
    <3>1. n \in Notes /\ table[n] \in Row /\ table[n].rank \in Ranks
      BY DEF ListedNotes, Recommendable, Exists, Sound, Row
    <3>2. IsLarge(table, n) => table[n].batch \in Batches BY <3>1 DEF IsLarge, Row
    <3>3. QED BY <3>1, <3>2 DEF ItemOf, Card, NoteItem, Item
  <2>2. QED BY <2>1
<1>3. R \in SUBSET Notes BY DEF ListedNotes
<1>4. IsFiniteSet(R) BY <1>3, FeedAssumption, FS_Subset
<1>5. Items(table, tag) = T BY <1>1
<1>6. f \in [R -> T] /\ DOMAIN f = R OBVIOUS
<1>7. IsFiniteSet(T)
  <2> HIDE DEF R, f
  <2> DEFINE U == T
  <2>1. U = {f[x] : x \in R} OBVIOUS
  <2>2. f \in [R -> U] BY <1>6
  <2> HIDE DEF U
  <2>3. IsFiniteSet(U) BY <1>4, <1>6, <2>1, <2>2, FiniteImage
  <2>4. QED BY <2>3 DEF U
<1>8. QED BY <1>1, <1>2, <1>5, <1>7

\* Mates of an import are each other's mates, and on one card.
LEMMA MatesAgree ==
    ASSUME NEW table, Sound(table), NEW n \in Notes, NEW m \in Notes,
           table[n] # Null, table[m] # Null, table[n].batch # Null, table[m].batch = table[n].batch
    PROVE  /\ m \in Mates(table, n) /\ Mates(table, m) = Mates(table, n)
           /\ IsLarge(table, m) = IsLarge(table, n)
           /\ table[n].rank # Null /\ table[m].rank # Null => Card(table, m) = Card(table, n)
<1>1. Author[m] = Author[n] BY DEF Sound
<1>2. m \in Mates(table, n) /\ Mates(table, m) = Mates(table, n) BY <1>1 DEF Mates
<1>3. IsLarge(table, m) = IsLarge(table, n) BY <1>2 DEF IsLarge
<1>4. table[n].rank # Null /\ table[m].rank # Null => Card(table, m) = Card(table, n)
  BY DEF Card, Sound
<1>5. QED BY <1>2, <1>3, <1>4

LEMMA OneItemPerId ==
    ASSUME NEW table, Sound(table), NEW tag, NEW x \in Items(table, tag), NEW y \in Items(table, tag),
           x.id = y.id
    PROVE  x = y
<1>1. PICK n \in ListedNotes(table, tag) : x = ItemOf(table, n) BY ItemsAreItems
<1>2. PICK m \in ListedNotes(table, tag) : y = ItemOf(table, m) BY ItemsAreItems
<1>3. \A k \in {n, m} : k \in Notes /\ table[k] # Null /\ table[k] \in Row /\ table[k].rank # Null
  BY DEF ListedNotes, Recommendable, Exists, Sound
<1>4. \A k \in {n, m} : IsLarge(table, k) => table[k].batch \in Batches /\ table[k].batch # Null
  BY <1>3 DEF IsLarge, Row
<1>5. \A k \in {n, m} : ItemOf(table, k).id = IF IsLarge(table, k) THEN table[k].batch ELSE k
  BY DEF ItemOf, Card, NoteItem
<1>6. Notes \cap Batches = {} BY FeedAssumption
<1>7. CASE IsLarge(table, n) /\ IsLarge(table, m)
  <2>1. table[m].batch = table[n].batch BY <1>1, <1>2, <1>5, <1>7
  <2>2. Card(table, m) = Card(table, n) BY <1>3, <1>4, <1>7, <2>1, MatesAgree
  <2>3. QED BY <1>1, <1>2, <1>7, <2>2 DEF ItemOf
<1>8. CASE ~IsLarge(table, n) /\ ~IsLarge(table, m)
  BY <1>1, <1>2, <1>5, <1>8
<1>9. CASE IsLarge(table, n) /\ ~IsLarge(table, m)
  <2>1. x.id \in Batches /\ y.id \in Notes BY <1>1, <1>2, <1>3, <1>4, <1>5, <1>9
  <2>2. QED BY <1>6, <2>1
<1>10. CASE ~IsLarge(table, n) /\ IsLarge(table, m)
  <2>1. x.id \in Notes /\ y.id \in Batches BY <1>1, <1>2, <1>3, <1>4, <1>5, <1>10
  <2>2. QED BY <1>6, <2>1
<1>11. QED BY <1>7, <1>8, <1>9, <1>10

----------------------------------------------------------------------------
(* Pages *)

PastItems(table, tag, cursor) == {x \in Items(table, tag) : Past(cursor, x)}

LEMMA PageIsTop ==
    ASSUME NEW table, Settled(table), NEW tag, NEW cursor \in Item \cup {Null}
    PROVE  Page(table, tag, cursor) = Top(PastItems(table, tag, cursor))
<1> DEFINE I == PastItems(table, tag, cursor)
           N == {x \in {NoteItem(table, n) : n \in {k \in Notes : /\ Recommendable(table, k)
                                                                  /\ HasTag(k, tag)
                                                                  /\ table[k].batch = Null
                                                                  /\ table[k].rank # Null}} :
                    Past(cursor, x)}
           arm == NoteArm(table, tag, cursor)
           met == {n \in Notes : /\ Exists(table, n) /\ table[n].batch # Null /\ table[n].rank # Null
                                 /\ MayMeet(arm, cursor, table[n].rank)}
           listed(n) == Recommendable(table, n) /\ HasTag(n, tag)
           cards == {Card(table, n) : n \in {k \in met : /\ IsLarge(table, k)
                                                         /\ \E m \in Mates(table, k) : listed(m)}}
           single == {NoteItem(table, n) : n \in {k \in met : ~IsLarge(table, k) /\ listed(k)}}
           expanded == {x \in cards \cup single : Past(cursor, x)}
           batchArm == BatchArm(table, tag, cursor)
<1>1. Sound(table) /\ ImportsAreRanked(table) BY DEF Settled
<1>2. I \in SUBSET Item /\ IsFiniteSet(I) /\ I \subseteq Items(table, tag)
  <2>1. I \subseteq Items(table, tag) BY DEF PastItems
  <2>2. QED BY <1>1, <2>1, ItemsAreItems, FS_Subset
<1>3. arm = Top(N) BY DEF NoteArm
<1>4. batchArm = {x \in expanded : Cardinality({y \in expanded : y.rank > x.rank}) < PageSize}
  BY DEF BatchArm
<1>5. N \subseteq I
  <2>1. SUFFICES ASSUME NEW n \in Notes, Recommendable(table, n), HasTag(n, tag),
                        table[n].batch = Null, table[n].rank # Null, Past(cursor, NoteItem(table, n))
                 PROVE  NoteItem(table, n) \in I
    OBVIOUS
  <2>2. n \in ListedNotes(table, tag) BY <2>1 DEF ListedNotes
  <2>3. ItemOf(table, n) = NoteItem(table, n) BY <2>1 DEF ItemOf, IsLarge
  <2>4. QED BY <1>1, <2>1, <2>2, <2>3, ItemsAreItems DEF PastItems
<1>6. expanded \subseteq I
  <2>1. ASSUME NEW k \in met, IsLarge(table, k), NEW m \in Mates(table, k), listed(m),
               Past(cursor, Card(table, k))
        PROVE  Card(table, k) \in I
    <3>1. /\ k \in Notes /\ table[k] # Null /\ table[k].batch # Null /\ table[k].rank # Null
      BY <2>1 DEF Exists
    <3>2. m \in Notes /\ table[m] # Null /\ table[m].batch = table[k].batch
      BY <2>1, <3>1 DEF Mates
    <3>3. table[m].rank # Null BY <1>1, <3>1, <3>2 DEF ImportsAreRanked
    <3>4. IsLarge(table, m) /\ Card(table, m) = Card(table, k)
      BY <1>1, <2>1, <3>1, <3>2, <3>3, MatesAgree
    <3>5. m \in ListedNotes(table, tag) BY <2>1, <3>2, <3>3 DEF ListedNotes
    <3>6. ItemOf(table, m) = Card(table, k) BY <3>4 DEF ItemOf
    <3>7. QED BY <1>1, <2>1, <3>5, <3>6, ItemsAreItems DEF PastItems
  <2>2. ASSUME NEW k \in met, ~IsLarge(table, k), listed(k), Past(cursor, NoteItem(table, k))
        PROVE  NoteItem(table, k) \in I
    <3>1. k \in ListedNotes(table, tag) BY <2>2 DEF ListedNotes
    <3>2. ItemOf(table, k) = NoteItem(table, k) BY <2>2 DEF ItemOf
    <3>3. QED BY <1>1, <2>2, <3>1, <3>2, ItemsAreItems DEF PastItems
  <2> HIDE DEF met, I, listed
  <2>3. QED BY <2>1, <2>2
<1>7. arm \cup batchArm \subseteq I BY <1>3, <1>4, <1>5, <1>6 DEF Top
<1>8. ASSUME NEW x \in Top(I) PROVE x \in arm \cup batchArm
  <2>1. x \in I /\ x \in Item /\ Cardinality(Higher(I, x)) < PageSize BY <1>2, HigherCount
  <2>2. PICK n \in ListedNotes(table, tag) : x = ItemOf(table, n)
    BY <1>1, <2>1, ItemsAreItems DEF PastItems
  <2>3. /\ n \in Notes /\ Recommendable(table, n) /\ HasTag(n, tag) /\ table[n] # Null
        /\ table[n].rank # Null /\ Past(cursor, x)
    BY <2>1 DEF ListedNotes, PastItems, Recommendable, Exists
  <2>4. PageSize \in Nat BY PageAssumption
  <2>5. CASE table[n].batch = Null
    <3>1. x = NoteItem(table, n) BY <2>2, <2>5 DEF ItemOf, IsLarge
    <3>2. x \in N BY <2>3, <2>5, <3>1
    <3>3. N \in SUBSET Item /\ IsFiniteSet(N) BY <1>2, <1>5, FS_Subset
    <3> HIDE DEF N, I, arm
    <3>4. Higher(N, x) \subseteq Higher(I, x) BY <1>5 DEF Higher
    <3>5. Cardinality(Higher(N, x)) <= Cardinality(Higher(I, x)) BY <1>2, <3>4, HigherCount, Within
    <3>6. Cardinality(Higher(N, x)) < PageSize BY <1>2, <2>1, <2>4, <3>3, <3>5, HigherCount
    <3>7. QED BY <1>3, <3>2, <3>3, <3>6, HigherCount
  <2>6. CASE table[n].batch # Null
    <3>1. x.rank = table[n].rank BY <2>2 DEF ItemOf, Card, NoteItem
    <3>2. cursor # Null => table[n].rank <= cursor.rank
      BY <2>1, <2>3, <3>1, BelowOrders DEF Past
    <3>3. ASSUME Cardinality(arm) = PageSize PROVE \E y \in arm : table[n].rank >= y.rank
      <4>1. SUFFICES ASSUME \A y \in arm : ~(x.rank >= y.rank) PROVE FALSE BY <3>1
      <4>2. \A y \in arm : y \in Item /\ y \in I BY <1>2, <1>7
      <4> HIDE DEF arm, I
      <4>3. \A y \in arm : Below(x, y)
        <5>1. ASSUME NEW y \in arm PROVE Below(x, y)
          <6>1. y.rank \in Int /\ x.rank \in Int BY <2>1, <4>2 DEF Item, Ranks
          <6>2. x.rank < y.rank BY <4>1, <6>1
          <6>3. QED BY <2>1, <4>2, <6>2, BelowOrders
        <5>2. QED BY <5>1
      <4>4. arm \subseteq Higher(I, x) BY <4>2, <4>3 DEF Higher
      <4>5. Cardinality(arm) <= Cardinality(Higher(I, x)) BY <1>2, <4>4, HigherCount, Within
      <4>6. QED BY <1>2, <2>1, <2>4, <3>3, <4>5, HigherCount
    <3>4. n \in met
      <4> HIDE DEF arm
      <4>1. MayMeet(arm, cursor, table[n].rank) BY <3>2, <3>3 DEF MayMeet
      <4>2. QED BY <2>3, <2>6, <4>1 DEF Exists
    <3>5. x \in cards \cup single
      <4>1. CASE IsLarge(table, n)
        <5>1. n \in Mates(table, n) BY <1>1, <2>3, <2>6, MatesAgree
        <5> HIDE DEF met
        <5>2. Card(table, n) \in cards BY <2>3, <3>4, <4>1, <5>1
        <5>3. QED BY <2>2, <4>1, <5>2 DEF ItemOf
      <4>2. CASE ~IsLarge(table, n)
        <5> HIDE DEF met
        <5>1. NoteItem(table, n) \in single BY <2>3, <3>4, <4>2
        <5>2. QED BY <2>2, <4>2, <5>1 DEF ItemOf
      <4>3. QED BY <4>1, <4>2
    <3>6. x \in expanded BY <2>3, <3>5
    <3> HIDE DEF expanded, I
    <3>7. {y \in expanded : y.rank > x.rank} \subseteq Higher(I, x)
      <4>1. ASSUME NEW y \in expanded, y.rank > x.rank PROVE y \in I /\ Below(x, y)
        <5>1. y \in I /\ y \in Item BY <1>2, <1>6
        <5>2. y.rank \in Int /\ x.rank \in Int BY <2>1, <5>1 DEF Item, Ranks
        <5>3. QED BY <2>1, <4>1, <5>1, <5>2, BelowOrders
      <4>2. QED BY <4>1 DEF Higher
    <3>8. Cardinality({y \in expanded : y.rank > x.rank}) <= Cardinality(Higher(I, x))
          /\ Cardinality({y \in expanded : y.rank > x.rank}) \in Nat
      BY <1>2, <3>7, HigherCount, Within
    <3>9. Cardinality({y \in expanded : y.rank > x.rank}) < PageSize
      BY <1>2, <2>1, <2>4, <3>8, HigherCount
    <3>10. QED BY <1>4, <3>6, <3>9
  <2>7. QED BY <2>5, <2>6
<1>9. Page(table, tag, cursor) = Top(arm \cup batchArm) BY DEF Page
<1> HIDE DEF I, arm, batchArm
<1>10. QED BY <1>2, <1>7, <1>8, <1>9, TopOfPart DEF I

----------------------------------------------------------------------------
(* Scrolling *)

\* A scroll has not shown what is past its cursor, and has shown what it says it
\* has; nothing was shown twice, and the last page leaves nothing.
OnTrack(table, s) ==
    /\ s \in Scroll
    /\ s.unseen \cup s.seen \subseteq Ids(Items(table, s.tag))
    /\ \A x \in Items(table, s.tag) :
          /\ x.id \in s.unseen => Past(s.cursor, x)
          /\ x.id \in s.seen => ~Past(s.cursor, x)
    /\ s.again = {}
    /\ ~s.more => s.unseen = {}

ScrollsOnTrack == \A r \in Readers : scroll[r] # Null => OnTrack(notes, scroll[r])

\* What After sets.
LEMMA AfterFields ==
    ASSUME NEW s \in Scroll, NEW page0 \in SUBSET Item,
           NEW new, new = After(s, page0),
           NEW last \in Item, page0 # {} => LastOf(page0) = last
    PROVE  /\ new \in Scroll
           /\ new.tag = s.tag
           /\ new.cursor = IF page0 = {} THEN s.cursor ELSE last
           /\ new.more <=> page0 # {}
           /\ new.unseen = s.unseen \ Ids(page0)
           /\ new.seen = s.seen \cup (s.unseen \cap Ids(page0))
           /\ new.again = s.again \cup (s.seen \cap Ids(page0))
<1> DEFINE c == IF page0 = {} THEN s.cursor ELSE last
           more == page0 # {}
           unseen == s.unseen \ Ids(page0)
           seen == s.seen \cup (s.unseen \cap Ids(page0))
           again == s.again \cup (s.seen \cap Ids(page0))
<1>1. new = [s EXCEPT !.cursor = c, !.more = more, !.unseen = unseen, !.seen = seen, !.again = again]
  BY DEF After
<1>2. /\ c \in Item \cup {Null} /\ more \in BOOLEAN
      /\ unseen \in SUBSET (Notes \cup Batches) /\ seen \in SUBSET (Notes \cup Batches)
      /\ again \in SUBSET (Notes \cup Batches)
  BY DEF Scroll
<1> HIDE DEF c, more, unseen, seen, again
<1>3. /\ new \in Scroll /\ new.tag = s.tag /\ new.cursor = c /\ new.more = more
      /\ new.unseen = unseen /\ new.seen = seen /\ new.again = again
  BY <1>1, <1>2 DEF Scroll
<1>4. QED BY <1>3 DEF c, more, unseen, seen, again

\* A page brings a scroll on.
LEMMA PageKeepsTrack ==
    ASSUME NEW table, Settled(table), NEW s, OnTrack(table, s),
           NEW new, new = After(s, Page(table, s.tag, s.cursor))
    PROVE  OnTrack(table, new)
<1> DEFINE I == PastItems(table, s.tag, s.cursor)
           top == Top(I)
<1>1. s \in Scroll /\ s.cursor \in Item \cup {Null} BY DEF OnTrack, Scroll
<1>2. /\ Items(table, s.tag) \in SUBSET Item /\ IsFiniteSet(Items(table, s.tag)) /\ Sound(table)
  BY ItemsAreItems DEF Settled
<1>3. I \in SUBSET Item /\ IsFiniteSet(I)
  <2>1. I \in SUBSET Items(table, s.tag) BY DEF PastItems
  <2>2. QED BY <1>2, <2>1, FS_Subset
<1>4. Page(table, s.tag, s.cursor) = top BY <1>1, PageIsTop
<1>i. \A x : x \in I <=> x \in Items(table, s.tag) /\ Past(s.cursor, x) BY DEF PastItems
<1> HIDE DEF I
<1>5. top \subseteq I /\ top \in SUBSET Item /\ IsFiniteSet(top) /\ (I # {} => top # {})
  BY <1>3, TopIsFull, FS_Subset
<1>6. \A x \in I, y \in top : x \in top \/ Below(x, y) BY <1>3, TopIsAbove
<1> HIDE DEF top
<1>7. top # {} => LastOf(top) \in top /\ \A y \in top : ~Below(y, LastOf(top))
  <2>1. ASSUME top # {} PROVE \E x \in top : \A y \in top : ~Below(y, x)
    <3> DEFINE D == {Cardinality(Higher(top, x)) : x \in top}
               B == {Cardinality(top) - d : d \in D}
    <3>1. \A x \in top : /\ Cardinality(Higher(top, x)) \in Nat
                         /\ Cardinality(Higher(top, x)) <= Cardinality(top)
                         /\ Cardinality(top) \in Nat
      BY <1>5, HigherCount, Within
    <3>2. B \in SUBSET Nat /\ B # {} BY <2>1, <3>1
    <3> HIDE DEF B
    <3>3. PICK b \in B : \A e \in B : b <= e BY <3>2, LeastNatural
    <3> USE DEF B
    <3>4. PICK x \in top : b = Cardinality(top) - Cardinality(Higher(top, x)) BY <3>3
    <3>5. ASSUME NEW y \in top, Below(y, x) PROVE FALSE
      <4>1. Higher(top, x) \subseteq Higher(top, y) BY <1>5, <3>5, BelowOrders DEF Higher
      <4>2. x \in Higher(top, y) /\ x \notin Higher(top, x) BY <1>5, <3>5, BelowOrders DEF Higher
      <4>3. Cardinality(Higher(top, x)) < Cardinality(Higher(top, y))
        BY <1>5, <4>1, <4>2, HigherCount, Within
      <4>4. b <= Cardinality(top) - Cardinality(Higher(top, y)) BY <3>3
      <4>5. QED BY <3>1, <3>4, <4>3, <4>4
    <3>6. QED BY <3>5
  <2>2. QED BY <2>1 DEF LastOf
<1>8. Item # {} \/ top = {} BY <1>5
<1>9. CASE top = {}
  <2>1. I = {} BY <1>5, <1>9
  <2>2. s.unseen = {}
    <3>1. SUFFICES ASSUME NEW i \in s.unseen PROVE FALSE OBVIOUS
    <3>2. PICK x \in Items(table, s.tag) : x.id = i BY DEF OnTrack, Ids
    <3>3. x \in I BY <1>i, <3>2 DEF OnTrack
    <3>4. QED BY <2>1, <3>3
  <2>3. Ids(top) = {} BY <1>9 DEF Ids
  <2>4. new = [s EXCEPT !.cursor = s.cursor, !.more = FALSE, !.unseen = s.unseen \ {},
                        !.seen = s.seen \cup (s.unseen \cap {}), !.again = s.again \cup (s.seen \cap {})]
    BY <1>4, <1>9, <2>3 DEF After
  <2>5. /\ new \in Scroll /\ new.tag = s.tag /\ new.cursor = s.cursor
        /\ new.unseen = {} /\ new.seen = s.seen /\ new.again = s.again
    BY <1>1, <2>2, <2>4 DEF Scroll
  <2>6. QED BY <2>2, <2>5 DEF OnTrack
<1>10. CASE top # {}
  <2> DEFINE last == LastOf(top)
  <2>1. last \in top /\ last \in Item /\ last \in I /\ \A y \in top : ~Below(y, last) BY <1>5, <1>7, <1>10
  <2> HIDE DEF last
  <2>2. /\ new \in Scroll /\ new.tag = s.tag /\ new.cursor = last /\ new.more
        /\ new.unseen = s.unseen \ Ids(top)
        /\ new.seen = s.seen \cup (s.unseen \cap Ids(top))
        /\ new.again = s.again \cup (s.seen \cap Ids(top))
    <3>1. LastOf(top) = last BY DEF last
    <3>2. QED BY <1>1, <1>4, <1>5, <1>10, <2>1, <3>1, AfterFields
  <2>3. last # Null BY <2>1, NullApart
  <2>4. \A x \in Items(table, s.tag) : x.id \in Ids(top) => x \in top
    <3>1. SUFFICES ASSUME NEW x \in Items(table, s.tag), NEW y \in top, x.id = y.id PROVE x \in top
      BY DEF Ids
    <3>2. y \in Items(table, s.tag) BY <1>5, <1>i
    <3>3. QED BY <1>2, <3>1, <3>2, OneItemPerId
  <2>5. ASSUME NEW x \in Items(table, s.tag), x.id \in new.unseen PROVE Past(new.cursor, x)
    <3>1. x.id \in s.unseen /\ x.id \notin Ids(top) BY <2>2, <2>5
    <3>2. x \in I BY <1>i, <3>1 DEF OnTrack
    <3>3. x \notin top BY <3>1 DEF Ids
    <3>4. Below(x, last) BY <1>6, <2>1, <3>2, <3>3
    <3>5. QED BY <2>2, <3>4 DEF Past
  <2>6. ASSUME NEW x \in Items(table, s.tag), x.id \in new.seen PROVE ~Past(new.cursor, x)
    <3>1. SUFFICES ~Below(x, last) BY <2>2, <2>3 DEF Past
    <3>2. CASE x.id \in Ids(top) BY <2>1, <2>4, <3>2
    <3>3. CASE x.id \notin Ids(top)
      <4>1. x.id \in s.seen BY <2>2, <2>6, <3>3
      <4>2. ~Past(s.cursor, x) BY <4>1 DEF OnTrack
      <4>3. s.cursor # Null /\ ~Below(x, s.cursor) /\ s.cursor \in Item BY <1>1, <4>2 DEF Past
      <4>4. Below(last, s.cursor) BY <1>i, <2>1, <4>3 DEF Past
      <4>5. QED BY <1>2, <2>1, <4>3, <4>4, BelowOrders
    <3>4. QED BY <3>2, <3>3
  <2>7. s.seen \cap Ids(top) = {}
    <3>1. SUFFICES ASSUME NEW x \in top, x.id \in s.seen PROVE FALSE BY DEF Ids
    <3>2. x \in Items(table, s.tag) /\ Past(s.cursor, x) BY <1>5, <1>i
    <3>3. QED BY <3>1, <3>2 DEF OnTrack
  <2>8. new.again = {} BY <2>2, <2>7 DEF OnTrack
  <2>9. new.unseen \cup new.seen \subseteq Ids(Items(table, new.tag)) BY <2>2 DEF OnTrack
  <2>10. QED BY <2>2, <2>5, <2>6, <2>8, <2>9 DEF OnTrack
<1>11. QED BY <1>9, <1>10

\* Rows keep their import and their rank.
RowsKept(old, new) ==
    \A n \in Notes : old[n] # Null =>
        /\ new[n] # Null
        /\ new[n].batch = old[n].batch
        /\ old[n].rank # Null => new[n].rank = old[n].rank

\* What is listed before and after a change keeps its place.
LEMMA ItemsStay ==
    ASSUME NEW old, Sound(old), NEW new, Sound(new), RowsKept(old, new),
           NEW tag, NEW x \in Items(old, tag), NEW y \in Items(new, tag), x.id = y.id
    PROVE  x = y
<1>1. PICK n \in ListedNotes(old, tag) : x = ItemOf(old, n) BY ItemsAreItems
<1>2. PICK m \in ListedNotes(new, tag) : y = ItemOf(new, m) BY ItemsAreItems
<1>3. /\ n \in Notes /\ old[n] # Null /\ old[n] \in Row /\ old[n].rank # Null
      /\ m \in Notes /\ new[m] # Null /\ new[m] \in Row /\ new[m].rank # Null
  BY DEF ListedNotes, Recommendable, Exists, Sound
<1>4. /\ IsLarge(old, n) => old[n].batch \in Batches /\ old[n].batch # Null
      /\ IsLarge(new, m) => new[m].batch \in Batches /\ new[m].batch # Null
  BY <1>3 DEF IsLarge, Row
<1>5. /\ x.id = (IF IsLarge(old, n) THEN old[n].batch ELSE n) /\ x.rank = old[n].rank
      /\ y.id = (IF IsLarge(new, m) THEN new[m].batch ELSE m) /\ y.rank = new[m].rank
  BY <1>1, <1>2 DEF ItemOf, Card, NoteItem
<1>6. Notes \cap Batches = {} BY FeedAssumption
<1>7. new[n] # Null /\ new[n].batch = old[n].batch /\ new[n].rank = old[n].rank
  BY <1>3 DEF RowsKept
<1>8. x.rank = y.rank
  <2>1. CASE IsLarge(old, n) /\ IsLarge(new, m)
    <3>1. new[m].batch = new[n].batch /\ new[n].batch # Null BY <1>4, <1>5, <1>7, <2>1
    <3>2. new[m].rank = new[n].rank BY <1>3, <1>7, <3>1 DEF Sound
    <3>3. QED BY <1>5, <1>7, <3>2
  <2>2. CASE ~IsLarge(old, n) /\ ~IsLarge(new, m) BY <1>5, <1>7, <2>2
  <2>3. CASE IsLarge(old, n) /\ ~IsLarge(new, m) BY <1>3, <1>4, <1>5, <1>6, <2>3
  <2>4. CASE ~IsLarge(old, n) /\ IsLarge(new, m) BY <1>3, <1>4, <1>5, <1>6, <2>4
  <2>5. QED BY <2>1, <2>2, <2>3, <2>4
<1>9. x \in Item /\ y \in Item BY ItemsAreItems
<1>10. QED BY <1>8, <1>9 DEF Item

LEMMA StoreKeepsTrack ==
    ASSUME FeedTypeOK, Settled(notes), ScrollsOnTrack,
           NEW table, Settled(table), RowsKept(notes, table), Store(table)
    PROVE  /\ scroll' \in [Readers -> Scroll \cup {Null}]
           /\ ScrollsOnTrack'
<1>1. ASSUME NEW r \in Readers
      PROVE  /\ scroll[r] = Null => scroll'[r] = Null
             /\ scroll[r] # Null => OnTrack(table, scroll'[r])
  <2>1. CASE scroll[r] = Null BY <2>1 DEF Store, Watched
  <2>2. CASE scroll[r] # Null
    <3> DEFINE s == scroll[r]
               new == scroll'[r]
               still == Ids(Items(table, s.tag))
    <3>1. s \in Scroll /\ OnTrack(notes, s) BY <2>2 DEF FeedTypeOK, ScrollsOnTrack
    <3>2. new = [s EXCEPT !.unseen = s.unseen \cap still, !.seen = s.seen \cap still,
                          !.again = s.again \cap still]
      BY <2>2 DEF Store, Watched
    <3> HIDE DEF s, new, still
    <3>3. /\ new \in Scroll /\ new.tag = s.tag /\ new.cursor = s.cursor /\ new.more = s.more
          /\ new.unseen = s.unseen \cap still /\ new.seen = s.seen \cap still
          /\ new.again = s.again \cap still
      BY <3>1, <3>2 DEF Scroll
    <3>4. ASSUME NEW y \in Items(table, s.tag)
          PROVE  /\ y.id \in new.unseen => Past(s.cursor, y)
                 /\ y.id \in new.seen => ~Past(s.cursor, y)
      <4>1. SUFFICES ASSUME y.id \in s.unseen \cup s.seen
                     PROVE  /\ y.id \in s.unseen => Past(s.cursor, y)
                            /\ y.id \in s.seen => ~Past(s.cursor, y)
        BY <3>3
      <4>2. PICK x \in Items(notes, s.tag) : x.id = y.id BY <3>1, <4>1 DEF OnTrack, Ids
      <4>3. x = y BY <4>2, ItemsStay DEF Settled
      <4>4. QED BY <3>1, <4>2, <4>3 DEF OnTrack
    <3>5. new.unseen \cup new.seen \subseteq Ids(Items(table, new.tag)) BY <3>3 DEF still
    <3>6. new.again = {} /\ (~new.more => new.unseen = {}) BY <3>1, <3>3 DEF OnTrack
    <3>7. OnTrack(table, new) BY <3>3, <3>4, <3>5, <3>6 DEF OnTrack
    <3>8. QED BY <2>2, <3>7 DEF new
  <2>3. QED BY <2>1, <2>2
<1>2. notes' = table /\ scroll' = Watched(table) BY DEF Store
<1>3. DOMAIN scroll' = Readers /\ scroll' = [r \in Readers |-> scroll'[r]] BY <1>2 DEF Watched
<1>4. \A r \in Readers : scroll'[r] \in Scroll \cup {Null} BY <1>1 DEF OnTrack
<1>5. scroll' \in [Readers -> Scroll \cup {Null}] BY <1>3, <1>4
<1>6. ScrollsOnTrack' BY <1>1, <1>2 DEF ScrollsOnTrack
<1>7. QED BY <1>5, <1>6

----------------------------------------------------------------------------
(* The rank of a note by itself *)

\* The author's notes that weigh on n when it is ranked alone.
Window(table, n) ==
    {k \in Notes : /\ Author[k] = Author[n] /\ table[k] # Null /\ table[k].first # Null
                   /\ table[k].first \in (table[n].published - BurstWindow) .. table[n].published}

\* Of a large import in the window only the earliest note counts, so that what
\* counts there are cards.
LEMMA CountedAreCards ==
    ASSUME NEW table, Sound(table), NEW n \in Notes, NEW P, P = Window(table, n),
           NEW before, before = {m \in P : CountsAsPrior(table, P, m)}
    PROVE  /\ Cardinality(before) = Cardinality({CardOf(table, m) : m \in P})
           /\ Cardinality(before) \in Nat
<1> DEFINE cards == {CardOf(table, m) : m \in P}
           at == [k \in P |-> table[k].first]
           f == [m \in before |-> CardOf(table, m)]
<1>1. \A k \in P : k \in Notes /\ table[k] # Null /\ table[k] \in Row /\ table[k].first \in Times
  BY DEF Window, Sound, Row
<1>2. P \in SUBSET Notes /\ at \in [P -> Nat]
  <2>1. Times \subseteq Nat BY DEF Times
  <2>2. QED BY <1>1, <2>1
<1>3. \A k \in P : k \in Nat /\ at[k] \in Nat BY <1>2, FeedAssumption
<1>4. \A m \in P : CountsAsPrior(table, P, m) <=> (IsLarge(table, m) => \A k \in P \cap Mates(table, m) : ~Earlier(at, k, m))
  BY DEF CountsAsPrior
<1>5. before \in SUBSET P /\ \A m \in P : m \in before <=> CountsAsPrior(table, P, m) OBVIOUS
<1>6. \A k, m \in P : CardOf(table, k) = CardOf(table, m) =>
          \/ k = m
          \/ /\ IsLarge(table, k) /\ IsLarge(table, m) /\ k \in Mates(table, m) /\ m \in Mates(table, k)
  <2>1. TAKE k, m \in P
  <2>2. HAVE CardOf(table, k) = CardOf(table, m)
  <2>3. /\ IsLarge(table, k) => table[k].batch \in Batches
        /\ IsLarge(table, m) => table[m].batch \in Batches
    BY <1>1 DEF IsLarge, Row
  <2>4. \A b \in Batches : b # k /\ b # m BY <1>1, FeedAssumption
  <2>5. CASE IsLarge(table, k) /\ IsLarge(table, m)
    <3>1. table[k].batch = table[m].batch /\ table[k].batch # Null /\ table[m].batch # Null
      BY <2>2, <2>5 DEF CardOf, IsLarge
    <3>2. k \in Mates(table, m) /\ m \in Mates(table, k) BY <1>1, <3>1, MatesAgree
    <3>3. QED BY <2>5, <3>2
  <2>6. CASE ~IsLarge(table, k) \/ ~IsLarge(table, m) BY <2>2, <2>3, <2>4, <2>6 DEF CardOf
  <2>7. QED BY <2>5, <2>6
<1> HIDE DEF at
<1>7. \A k, m \in before : CardOf(table, k) = CardOf(table, m) => k = m
  <2>1. TAKE k, m \in before
  <2>2. HAVE CardOf(table, k) = CardOf(table, m)
  <2>3. SUFFICES ASSUME k # m PROVE FALSE OBVIOUS
  <2>4. /\ IsLarge(table, k) /\ IsLarge(table, m) /\ k \in Mates(table, m) /\ m \in Mates(table, k)
        /\ k \in P /\ m \in P
    BY <1>5, <1>6, <2>2, <2>3
  <2>5. ~Earlier(at, k, m) /\ ~Earlier(at, m, k) BY <1>4, <1>5, <2>4
  <2>6. QED BY <1>3, <2>3, <2>4, <2>5 DEF Earlier
<1>8. \A m \in P : \E k \in before : CardOf(table, k) = CardOf(table, m)
  <2>1. TAKE m \in P
  <2>2. CASE ~IsLarge(table, m) BY <1>4, <1>5, <2>2
  <2>3. CASE IsLarge(table, m)
    <3> DEFINE unit == P \cap Mates(table, m)
    <3>1. table[m].batch # Null BY <2>3 DEF IsLarge
    <3>2. m \in Mates(table, m) BY <1>1, <3>1, MatesAgree
    <3>3. unit \in SUBSET P /\ unit # {} BY <3>2
    <3> HIDE DEF unit
    <3>4. PICK k \in unit : \A l \in unit : ~Earlier(at, l, k) BY <1>2, <3>3, EarliestExists
    <3>5. k \in P /\ table[k].batch = table[m].batch BY <3>1, <3>4 DEF unit, Mates
    <3>6. Mates(table, k) = Mates(table, m) /\ IsLarge(table, k) BY <1>1, <2>3, <3>1, <3>5, MatesAgree
    <3>7. k \in before BY <1>4, <1>5, <3>4, <3>5, <3>6 DEF unit
    <3>8. CardOf(table, k) = CardOf(table, m) BY <2>3, <3>5, <3>6 DEF CardOf
    <3>9. QED BY <3>7, <3>8
  <2>4. QED BY <2>2, <2>3
<1>9. f \in Bijection(before, cards)
  <2>1. f \in [before -> cards] BY <1>5
  <2>2. \A k, m \in before : f[k] = f[m] => k = m BY <1>7
  <2>3. \A c \in cards : \E k \in before : f[k] = c
    <3>1. TAKE c \in cards
    <3>2. PICK m \in P : c = CardOf(table, m) OBVIOUS
    <3>3. PICK k \in before : CardOf(table, k) = c BY <1>8, <3>2
    <3>4. f[k] = c BY <3>3
    <3>5. QED BY <3>4
  <2> HIDE DEF cards, f
  <2>4. f \in Injection(before, cards) BY <2>1, <2>2 DEF Injection, IsInjective
  <2>5. f \in Surjection(before, cards) BY <2>1, <2>3 DEF Surjection
  <2>6. QED BY <2>4, <2>5 DEF Bijection
<1>10. IsFiniteSet(before) /\ Cardinality(before) \in Nat
  <2>1. before \in SUBSET Notes BY <1>2, <1>5
  <2>2. IsFiniteSet(Notes) BY FeedAssumption
  <2>3. IsFiniteSet(before) BY <2>1, <2>2, FS_Subset
  <2>4. Cardinality(before) \in Nat BY <2>3, FS_CardinalityType
  <2>5. QED BY <2>3, <2>4
<1> HIDE DEF cards, f
<1>11. Cardinality(before) = Cardinality(cards)
  <2>1. ExistsBijection(before, cards) BY <1>9 DEF ExistsBijection
  <2>2. QED BY <1>10, <2>1, FS_Bijection
<1>12. QED BY <1>10, <1>11 DEF cards

\* assignSQL, with its spans, tallies and weights, gives a note that is ranked
\* alone what feedrank.go promises.
LEMMA AssignOne ==
    ASSUME NEW table, Sound(table), NEW n \in Notes, table[n] # Null,
           table[n].published # Null, table[n].rank = Null
    PROVE  Assign(table, {n}) = RankOne(table, n)
<1> DEFINE all == Targets(table, {n})
           T == {k \in all : Author[k] = Author[n]}
           at == [k \in T |-> table[k].published]
           unit == T \cap Mates(table, n)
           P == Prior(table, T, Author[n])
           before == {m \in P : /\ table[m].first \in (at[n] - BurstWindow) .. at[n]
                                /\ CountsAsPrior(table, P, m)}
           ahead == {k \in Ahead(T, at, n) : CountsAsTarget(table, T, k)}
<1>1. all = {n} /\ T = {n} BY DEF Targets
<1>2. table[n] \in Row /\ table[n].published \in Times /\ n \in Nat /\ table[n].published \in Nat
  <2>1. table[n] \in Row BY DEF Sound
  <2>2. QED BY <2>1, FeedAssumption DEF Row, Times
<1>3. at[n] = table[n].published BY <1>1
<1>4. n \in Mates(table, n) BY DEF Mates
<1>5. unit = {n} BY <1>1, <1>4
<1>6. ~Earlier(at, n, n) BY <1>2, <1>3 DEF Earlier
<1>7. RankOf(table, all, n) = IF InheritedRank(table, n) # Null THEN InheritedRank(table, n)
                              ELSE Computed(table, T, n)
  <2>1. (CHOOSE k \in unit : \A l \in unit : ~Earlier(at, l, k)) = n BY <1>5, <1>6
  <2>2. RankOf(table, all, n) = IF InheritedRank(table, n) # Null THEN InheritedRank(table, n)
                                ELSE Computed(table, T, CHOOSE k \in unit : \A l \in unit : ~Earlier(at, l, k))
    BY DEF RankOf
  <2>3. QED BY <2>1, <2>2
<1>8. P = Window(table, n)
  <2>1. \A m \in Notes : table[m] # Null /\ table[m].first # Null => table[m].first \in Nat
    BY DEF Sound, Row, Times
  <2>2. BurstWindow \in Nat BY FeedAssumption
  <2>3. P = Prior(table, {n}, Author[n]) BY <1>1
  <2> HIDE DEF P, T, at, all, unit, before, ahead
  <2>4. \A m \in Notes : m \in Prior(table, {n}, Author[n]) <=> m \in Window(table, n)
    BY <1>2, <2>1, <2>2 DEF Prior, Window
  <2>5. Prior(table, {n}, Author[n]) \subseteq Notes /\ Window(table, n) \subseteq Notes BY DEF Prior, Window
  <2>6. QED BY <2>3, <2>4, <2>5
<1>9. before = {m \in P : CountsAsPrior(table, P, m)}
  <2>1. \A m \in P : table[m].first \in (at[n] - BurstWindow) .. at[n] BY <1>3, <1>8 DEF Window
  <2>2. QED BY <2>1
<1>10. ahead = {} BY <1>1, <1>6 DEF Ahead
<1>11. Computed(table, T, n) = at[n] - BurstStep * (Cardinality(before) + Cardinality(ahead))
  BY DEF Computed
<1>12. Burst(table, n) = {CardOf(table, m) : m \in P} BY <1>8 DEF Burst, Window
<1> HIDE DEF all, T, at, unit, P, before, ahead
<1>13. Cardinality(before) = Cardinality(Burst(table, n)) /\ Cardinality(before) \in Nat
  BY <1>8, <1>9, <1>12, CountedAreCards
<1>14. Computed(table, T, n) = table[n].published - BurstStep * Cardinality(Burst(table, n))
  <2>1. Cardinality(ahead) = 0 BY <1>10, FS_EmptySet
  <2>2. Cardinality(before) + Cardinality(ahead) = Cardinality(Burst(table, n)) BY <1>13, <2>1
  <2>3. QED BY <1>3, <1>11, <2>2
<1> DEFINE promised == IF RankedMates(table, n) # {} THEN table[CHOOSE m \in RankedMates(table, n) : TRUE].rank
                       ELSE table[n].published - BurstStep * Cardinality(Burst(table, n))
           computed == RankOf(table, all, n)
           t == table[n].published
<1>15. computed = promised
  <2>1. CASE RankedMates(table, n) # {}
    <3>1. table[n].batch # Null BY <2>1 DEF RankedMates, Mates
    <3> DEFINE m == CHOOSE m \in RankedMates(table, n) : TRUE
    <3>2. m \in RankedMates(table, n) BY <2>1
    <3> HIDE DEF m
    <3>3. InheritedRank(table, n) = table[m].rank BY <3>1, <3>2, InheritedIsShared
    <3>4. table[m].rank # Null BY <3>2 DEF RankedMates
    <3>5. promised = table[m].rank BY <2>1 DEF m
    <3>6. QED BY <1>7, <3>3, <3>4, <3>5
  <2>2. CASE RankedMates(table, n) = {}
    <3>1. InheritedRank(table, n) = Null BY <2>2, InheritedIsShared
    <3>2. QED BY <1>7, <1>14, <2>2, <3>1
  <2>3. QED BY <2>1, <2>2
<1>16. Assign(table, {n}) = [k \in Notes |-> IF k \in all THEN [table[k] EXCEPT !.rank = RankOf(table, all, k),
                                                                            !.first = table[k].published]
                                             ELSE table[k]]
  BY DEF Assign, all
<1>17. RankOne(table, n) = [table EXCEPT ![n].first = t, ![n].rank = promised] BY DEF RankOne
<1> HIDE DEF promised, computed, t
<1>18. [table[n] EXCEPT !.rank = computed, !.first = t] = [[table[n] EXCEPT !.first = t] EXCEPT !.rank = promised]
  BY <1>2, <1>15 DEF Row
<1>19. Assign(table, {n}) = [k \in Notes |-> IF k = n THEN [table[n] EXCEPT !.rank = computed, !.first = t] ELSE table[k]]
  BY <1>1, <1>16 DEF computed, t
<1>20. table = [k \in Notes |-> table[k]] BY DEF Sound
<1>21. RankOne(table, n) = [table EXCEPT ![n] = [[table[n] EXCEPT !.first = t] EXCEPT !.rank = promised]]
  BY <1>17, <1>20
<1>22. QED BY <1>18, <1>19, <1>20, <1>21

----------------------------------------------------------------------------
(* Notes that are ranked together *)

\* Notes to rank that became public at time t, none of whose imports has a rank.
Fresh(table, U, t) ==
    /\ U \subseteq Notes
    /\ t \in Times
    /\ \A n \in U : /\ table[n] # Null /\ table[n].published = t /\ table[n].rank = Null
                    /\ RankedMates(table, n) = {}

\* The targets that Assign ranks with n.
Unit(table, U, n) == {k \in U : Author[k] = Author[n] /\ k \in Mates(table, n)}

\* The targets before n that weigh on it.
Leaders(table, U, n) ==
    {k \in U : /\ Author[k] = Author[n] /\ k < n
               /\ IsLarge(table, k) => \A j \in U \cap Mates(table, k) : ~(j < k)}

\* The ranked notes that weigh on n.
Weighing(table, n) == {m \in Window(table, n) : CountsAsPrior(table, Window(table, n), m)}

LEMMA FreshRows ==
    ASSUME NEW table, Sound(table), NEW U, NEW t, Fresh(table, U, t)
    PROVE  /\ t \in Nat /\ t # Null /\ U \in SUBSET Notes /\ Targets(table, U) = U
           /\ \A n \in U : /\ n \in Nat /\ table[n] \in Row /\ table[n].first = Null
                           /\ InheritedRank(table, n) = Null /\ n \in Mates(table, n)
<1>1. t \in Nat /\ t # Null BY NullApart DEF Fresh, Times
<1>2. U \in SUBSET Notes BY DEF Fresh
<1>3. Targets(table, U) = U BY <1>1, <1>2 DEF Fresh, Targets
<1>4. ASSUME NEW n \in U
      PROVE  /\ n \in Nat /\ table[n] \in Row /\ table[n].first = Null
             /\ InheritedRank(table, n) = Null /\ n \in Mates(table, n)
  <2>1. n \in Notes /\ n \in Nat BY <1>2, FeedAssumption
  <2>2. table[n] # Null /\ table[n].rank = Null /\ RankedMates(table, n) = {} BY DEF Fresh
  <2>3. table[n] \in Row /\ table[n].first = Null BY <2>1, <2>2 DEF Sound
  <2>4. InheritedRank(table, n) = Null BY <2>1, <2>2, InheritedIsShared
  <2>5. n \in Mates(table, n) BY <2>1, <2>2 DEF Mates
  <2>6. QED BY <2>1, <2>3, <2>4, <2>5
<1>5. QED BY <1>1, <1>2, <1>3, <1>4

\* What Assign makes of such notes: the first of those ranked together has all
\* that weighs on it behind it, and the others take its rank.
LEMMA RankOfFresh ==
    ASSUME NEW table, Sound(table), NEW U, NEW t, Fresh(table, U, t), NEW n \in U,
           NEW e \in Unit(table, U, n), \A k \in Unit(table, U, n) : e <= k
    PROVE  RankOf(table, U, n) =
              t - BurstStep * (Cardinality(Weighing(table, n)) + Cardinality(Leaders(table, U, e)))
<1> DEFINE T == {k \in U : Author[k] = Author[n]}
           at == [k \in T |-> table[k].published]
           unit == T \cap Mates(table, n)
           P == Prior(table, T, Author[e])
           before == {m \in P : /\ table[m].first \in (at[e] - BurstWindow) .. at[e]
                                /\ CountsAsPrior(table, P, m)}
           ahead == {k \in Ahead(T, at, e) : CountsAsTarget(table, T, k)}
<1>1. /\ t \in Nat /\ t # Null /\ U \in SUBSET Notes
      /\ \A k \in U : /\ k \in Nat /\ table[k] \in Row /\ table[k].first = Null
                      /\ InheritedRank(table, k) = Null /\ k \in Mates(table, k)
  BY FreshRows
<1>2. \A k \in U : table[k] # Null /\ table[k].published = t BY DEF Fresh
<1>3. unit = Unit(table, U, n) BY DEF Unit
<1>4. e \in U /\ Author[e] = Author[n] /\ e \in T /\ T \subseteq U BY DEF Unit
<1>5. \A k \in T : at[k] = t BY <1>2
<1>6. \A k, l \in T : Earlier(at, k, l) <=> k < l BY <1>1, <1>5 DEF Earlier
<1>7. (CHOOSE k \in unit : \A l \in unit : ~Earlier(at, l, k)) = e
  <2>1. unit \subseteq T /\ e \in unit BY <1>3
  <2>2. \A l \in unit : ~Earlier(at, l, e) BY <1>1, <1>3, <1>6, <2>1
  <2>3. \A k \in unit : (\A l \in unit : ~Earlier(at, l, k)) => k = e
    <3>1. TAKE k \in unit
    <3>2. HAVE \A l \in unit : ~Earlier(at, l, k)
    <3>3. ~(e < k) BY <1>6, <2>1, <3>2
    <3>4. e <= k /\ e \in Nat /\ k \in Nat BY <1>1, <1>3, <1>4, <2>1
    <3>5. QED BY <3>3, <3>4
  <2> HIDE DEF unit, at, T
  <2>4. QED BY <2>1, <2>2, <2>3
<1>8. RankOf(table, U, n) = Computed(table, T, e)
  <2>1. RankOf(table, U, n) = IF InheritedRank(table, n) # Null THEN InheritedRank(table, n)
                              ELSE Computed(table, T, CHOOSE k \in unit : \A l \in unit : ~Earlier(at, l, k))
    BY DEF RankOf
  <2>2. InheritedRank(table, n) = Null BY <1>1
  <2> HIDE DEF unit, at
  <2>3. QED BY <1>7, <2>1, <2>2
<1>9. Computed(table, T, e) = at[e] - BurstStep * (Cardinality(before) + Cardinality(ahead))
  BY DEF Computed
<1>10. P = Window(table, n)
  <2>1. \A m \in Notes : table[m] # Null /\ table[m].first # Null => table[m].first \in Nat
    BY DEF Sound, Row, Times
  <2>2. BurstWindow \in Nat BY FeedAssumption
  <2>3. \A k \in T : table[k].published = t BY <1>2
  <2>4. table[n].published = t BY <1>2
  <2> HIDE DEF T
  <2>5. \A m \in Notes : m \in P <=> m \in Window(table, n)
    BY <1>1, <1>4, <2>1, <2>2, <2>3, <2>4 DEF Prior, Window
  <2>6. QED BY <2>5 DEF Prior, Window
<1>11. before = Weighing(table, n)
  <2>1. at[e] = table[n].published BY <1>2, <1>4, <1>5
  <2>2. \A m \in P : table[m].first \in (at[e] - BurstWindow) .. at[e] BY <1>10, <2>1 DEF Window
  <2>3. QED BY <1>10, <2>2 DEF Weighing
<1>12. ahead = Leaders(table, U, e)
  <2>1. Ahead(T, at, e) = {k \in T : k < e}
    <3>1. \A k \in T : at[k] >= at[e] - BurstWindow BY <1>1, <1>4, <1>5, FeedAssumption
    <3>2. QED BY <1>4, <1>6, <3>1 DEF Ahead
  <2>2. \A k \in T : CountsAsTarget(table, T, k)
                        <=> (IsLarge(table, k) => \A j \in T \cap Mates(table, k) : ~Earlier(at, j, k))
    BY <1>1 DEF CountsAsTarget
  <2>3. \A k \in T : IsLarge(table, k) => T \cap Mates(table, k) = U \cap Mates(table, k)
    <3>1. TAKE k \in T
    <3>2. HAVE IsLarge(table, k)
    <3>3. \A j \in Mates(table, k) : Author[j] = Author[k] BY <3>2 DEF IsLarge, Mates
    <3>4. QED BY <3>3
  <2>4. \A k \in T : CountsAsTarget(table, T, k)
                        <=> (IsLarge(table, k) => \A j \in U \cap Mates(table, k) : ~(j < k))
    <3>1. TAKE k \in T
    <3>2. CASE ~IsLarge(table, k) BY <2>2, <3>2
    <3>3. CASE IsLarge(table, k)
      <4>1. T \cap Mates(table, k) = U \cap Mates(table, k) BY <2>3, <3>3
      <4>2. \A j \in U \cap Mates(table, k) : Earlier(at, j, k) <=> j < k BY <1>6, <4>1
      <4>3. QED BY <2>2, <4>1, <4>2
    <3>4. QED BY <3>2, <3>3
  <2>5. \A k \in U : k \in T <=> Author[k] = Author[e] BY <1>4
  <2> HIDE DEF at, T
  <2>6. \A k : k \in ahead <=> k \in Leaders(table, U, e)
    BY <1>4, <2>1, <2>4, <2>5 DEF Leaders
  <2> HIDE DEF ahead
  <2>7. QED BY <2>6
<1>13. at[e] = t BY <1>4, <1>5
<1> HIDE DEF at, T, P, before, ahead
<1>14. QED BY <1>8, <1>9, <1>11, <1>12, <1>13

LEMMA FreshPart ==
    ASSUME NEW table, NEW U, NEW t, Fresh(table, U, t), NEW S \in SUBSET U
    PROVE  Fresh(table, S, t)
BY DEF Fresh

\* Ranking one note more, after all others in the order of ids: no other changes its
\* rank, and it gets what it would get by itself.
LEMMA RankNext ==
    ASSUME NEW table, Sound(table), NEW U, NEW t, Fresh(table, U, t), NEW n \in U,
           NEW S, S = U \ {n}, \A m \in S : m < n
    PROVE  Assign(table, U) = RankOne(Assign(table, S), n)
<1> DEFINE old == Assign(table, S)
<1>1. /\ t \in Nat /\ t # Null /\ U \in SUBSET Notes /\ Targets(table, U) = U
      /\ \A k \in U : /\ k \in Nat /\ table[k] \in Row /\ table[k].first = Null
                      /\ InheritedRank(table, k) = Null /\ k \in Mates(table, k)
  BY FreshRows
<1>2. \A k \in U : /\ table[k] # Null /\ table[k].published = t /\ table[k].rank = Null
                   /\ RankedMates(table, k) = {}
  BY DEF Fresh
<1>3. S \in SUBSET U /\ Fresh(table, S, t) /\ S \in SUBSET Notes BY <1>1, FreshPart
<1>4. Targets(table, S) = S BY <1>3, FreshRows
<1>5. /\ Sound(old)
      /\ \A m \in Notes : old[m] = Null <=> table[m] = Null
      /\ \A m \in Notes : table[m] # Null => /\ old[m].batch = table[m].batch
                                             /\ old[m].published = table[m].published
  BY <1>2, <1>3, AssignRanks
<1>6. \A m \in S : old[m] = [table[m] EXCEPT !.rank = RankOf(table, S, m), !.first = t]
  BY <1>2, <1>3, <1>4 DEF Assign
<1>7. \A m \in S : old[m].rank = RankOf(table, S, m) /\ old[m].first = t
  BY <1>1, <1>3, <1>6 DEF Row
<1>8. \A m \in Notes \ S : old[m] = table[m] BY <1>4 DEF Assign
<1>9. \A m \in Notes : table[m] # Null =>
         /\ Mates(old, m) = Mates(table, m) /\ (IsLarge(old, m) <=> IsLarge(table, m))
         /\ CardOf(old, m) = CardOf(table, m)
  <2>1. TAKE m \in Notes
  <2>2. HAVE table[m] # Null
  <2>3. old[m].batch = table[m].batch BY <1>5, <2>2
  <2> HIDE DEF old
  <2>4. \A k \in Notes : old[k] # Null /\ old[k].batch = old[m].batch <=> table[k] # Null /\ table[k].batch = table[m].batch
    BY <1>5, <2>3
  <2>5. Mates(old, m) = Mates(table, m) BY <2>3, <2>4 DEF Mates
  <2>6. IsLarge(old, m) <=> IsLarge(table, m) BY <2>3, <2>5 DEF IsLarge
  <2>7. QED BY <2>3, <2>5, <2>6 DEF CardOf
<1>10. n \in U /\ n \in Notes /\ n \notin S /\ old[n] = table[n] BY <1>1, <1>8
<1> HIDE DEF old
<1>11. \A k \in U : \E e \in Unit(table, U, k) : \A l \in Unit(table, U, k) : e <= l
  <2>1. TAKE k \in U
  <2>2. Unit(table, U, k) \in SUBSET Nat /\ k \in Unit(table, U, k) BY <1>1 DEF Unit
  <2>3. QED BY <2>2, LeastNatural
<1>12. ASSUME NEW k \in S
       PROVE  \E e \in S : /\ e \in Unit(table, U, k) /\ \A l \in Unit(table, U, k) : e <= l
                           /\ e \in Unit(table, S, k) /\ \A l \in Unit(table, S, k) : e <= l
                           /\ Leaders(table, S, e) = Leaders(table, U, e)
  <2>1. PICK e \in Unit(table, U, k) : \A l \in Unit(table, U, k) : e <= l BY <1>3, <1>11
  <2>2. e \in U /\ e <= k
    <3>1. k \in Unit(table, U, k) BY <1>1, <1>3 DEF Unit
    <3>2. QED BY <2>1, <3>1 DEF Unit
  <2>3. e \in S /\ e < n
    <3>1. k < n /\ k \in Nat /\ e \in Nat /\ n \in Nat BY <1>1, <1>3, <2>2
    <3>2. QED BY <2>2, <3>1
  <2>4. Unit(table, S, k) = Unit(table, U, k) \cap S BY <1>3 DEF Unit
  <2>5. Leaders(table, S, e) = Leaders(table, U, e)
    <3>1. \A j \in U : j < e => j \in S BY <1>1, <2>3
    <3>2. \A j \in S : ~(n < j) BY <1>1, <1>3
    <3>3. ASSUME NEW j \in S
          PROVE  (\A i \in U \cap Mates(table, j) : ~(i < j)) <=> (\A i \in S \cap Mates(table, j) : ~(i < j))
      BY <3>2
    <3>4. QED BY <3>1, <3>3 DEF Leaders
  <2>6. QED BY <2>1, <2>3, <2>4, <2>5
<1>13. ASSUME NEW k \in S PROVE RankOf(table, U, k) = RankOf(table, S, k)
  <2>1. PICK e \in S : /\ e \in Unit(table, U, k) /\ \A l \in Unit(table, U, k) : e <= l
                       /\ e \in Unit(table, S, k) /\ \A l \in Unit(table, S, k) : e <= l
                       /\ Leaders(table, S, e) = Leaders(table, U, e)
    BY <1>12
  <2>2. RankOf(table, U, k) =
           t - BurstStep * (Cardinality(Weighing(table, k)) + Cardinality(Leaders(table, U, e)))
    BY <1>3, <2>1, RankOfFresh
  <2>3. RankOf(table, S, k) =
           t - BurstStep * (Cardinality(Weighing(table, k)) + Cardinality(Leaders(table, S, e)))
    <3>1. Sound(table) /\ Fresh(table, S, t) /\ k \in S BY <1>3
    <3>2. e \in Unit(table, S, k) /\ \A l \in Unit(table, S, k) : e <= l BY <2>1
    <3>3. QED BY ONLY <3>1, <3>2, RankOfFresh
  <2>4. QED BY <2>1, <2>2, <2>3
<1> DEFINE promised == IF RankedMates(old, n) # {} THEN old[CHOOSE m \in RankedMates(old, n) : TRUE].rank
                       ELSE old[n].published - BurstStep * Cardinality(Burst(old, n))
<1>14. RankedMates(old, n) = Unit(table, U, n) \ {n}
  <2>1. \A m \in Mates(table, n) : m \in Notes /\ Author[m] = Author[n]
    BY <1>10 DEF Mates
  <2>2. \A m \in S : RankOf(table, S, m) \in Ranks
    <3>1. \A m \in S : table[m] # Null BY <1>2, <1>3
    <3>2. QED BY <1>3, <1>4, <3>1, RankOfIsShared
  <2>3. \A m \in S : old[m].rank # Null BY <1>7, <2>2, NullApart
  <2>4. \A m \in Mates(table, n) : m \notin S => old[m].rank = Null
    <3>1. \A m \in Mates(table, n) : table[m].rank = Null BY <1>2 DEF RankedMates
    <3>2. QED BY <1>8, <2>1, <3>1
  <2>5. Mates(old, n) = Mates(table, n) BY <1>2, <1>9, <1>10
  <2>6. \A m \in Mates(table, n) : old[m].rank # Null <=> m \in S BY <2>3, <2>4
  <2>7. RankedMates(old, n) = {m \in Mates(table, n) : m \in S} BY <2>5, <2>6 DEF RankedMates
  <2>8. Unit(table, U, n) \ {n} = {m \in Mates(table, n) : m \in S} BY <1>3, <2>1 DEF Unit
  <2>9. QED BY <2>7, <2>8
<1>15. ASSUME RankedMates(old, n) # {} PROVE promised = RankOf(table, U, n)
  <2> DEFINE m == CHOOSE m \in RankedMates(old, n) : TRUE
  <2>1. m \in RankedMates(old, n) BY <1>15
  <2>2. promised = old[m].rank BY <1>15
  <2> HIDE DEF m
  <2>3. m \in Unit(table, U, n) /\ m # n /\ m \in S BY <1>3, <1>14, <2>1 DEF Unit
  <2>4. PICK e \in S : /\ e \in Unit(table, U, m) /\ \A l \in Unit(table, U, m) : e <= l
    BY <1>12, <2>3
  <2>5. Author[m] = Author[n] /\ Mates(table, m) = Mates(table, n) /\ table[m].batch = table[n].batch
        /\ table[n].batch # Null
    <3>1. Author[m] = Author[n] /\ m \in Mates(table, n) BY <2>3 DEF Unit
    <3>2. table[n].batch # Null /\ table[m].batch = table[n].batch BY <2>3, <3>1 DEF Mates
    <3>3. QED BY <3>1, <3>2 DEF Mates
  <2>6. Unit(table, U, m) = Unit(table, U, n) BY <2>5 DEF Unit
  <2>7. RankOf(table, U, m) = RankOf(table, U, n) BY <1>1, <1>2, <2>3, <2>5, RankOfIsShared DEF Unit
  <2>8. QED BY <1>7, <1>13, <2>2, <2>3, <2>7
<1>16. ASSUME RankedMates(old, n) = {} PROVE promised = RankOf(table, U, n)
  <2>1. Unit(table, U, n) = {n}
    <3>1. n \in Unit(table, U, n) BY <1>1 DEF Unit
    <3>2. QED BY <1>14, <1>16, <3>1
  <2>2. RankOf(table, U, n) =
           t - BurstStep * (Cardinality(Weighing(table, n)) + Cardinality(Leaders(table, U, n)))
    <3>1. n \in Unit(table, U, n) /\ \A k \in Unit(table, U, n) : n <= k BY <1>1, <2>1
    <3>2. QED BY <3>1, RankOfFresh
  <2>3. Weighing(old, n) = Weighing(table, n) \cup Leaders(table, U, n)
    <3>1. old[n].published = t BY <1>2, <1>10
    <3>2. Window(old, n) = Window(table, n) \cup {k \in S : Author[k] = Author[n]}
      <4>1. \A k \in Notes \ S : k \in Window(old, n) <=> k \in Window(table, n)
        BY <1>8, <1>10 DEF Window
      <4>2. \A k \in S : old[k] # Null /\ old[k].first = t /\ t \in (t - BurstWindow) .. t
        BY <1>1, <1>2, <1>3, <1>5, <1>7, FeedAssumption
      <4>3. \A k \in S : k \in Window(old, n) <=> Author[k] = Author[n]
        BY <1>1, <1>3, <3>1, <4>2 DEF Window
      <4>4. \A k \in S : k \notin Window(table, n) BY <1>1, <1>3 DEF Window
      <4>5. Window(old, n) \subseteq Notes /\ Window(table, n) \subseteq Notes BY DEF Window
      <4>6. QED BY <1>3, <4>1, <4>3, <4>4, <4>5
    <3>3. \A m \in Window(table, n) : m \in Notes /\ table[m] # Null /\ table[m].rank # Null /\ m \notin S
      BY <1>1, <1>3 DEF Window, Sound
    <3>4. \A m \in Window(table, n), k \in S : IsLarge(table, m) \/ IsLarge(table, k) =>
             k \notin Mates(table, m) /\ m \notin Mates(table, k)
      <4>1. TAKE m \in Window(table, n), k \in S
      <4>2. HAVE IsLarge(table, m) \/ IsLarge(table, k)
      <4>3. m \notin Mates(table, k)
        <5>1. RankedMates(table, k) = {} BY <1>2, <1>3
        <5>2. QED BY <3>3, <5>1 DEF RankedMates
      <4>4. k \notin Mates(table, m)
        <5>1. SUFFICES ASSUME k \in Mates(table, m) PROVE FALSE OBVIOUS
        <5>2. k # m BY <3>3
        <5>3. table[m].batch # Null /\ table[k].batch = table[m].batch /\ Author[k] = Author[m]
          BY <5>1, <5>2 DEF Mates
        <5>4. m \in Mates(table, k) BY <3>3, <5>3 DEF Mates
        <5>5. QED BY <4>3, <5>4
      <4>5. QED BY <4>3, <4>4
    <3> DEFINE V == Window(old, n)
               W == Window(table, n)
               A == {k \in S : Author[k] = Author[n]}
               at == [k \in V |-> old[k].first]
               was == [k \in W |-> table[k].first]
    <3>5. \A m \in W : at[m] = was[m] /\ m \in V BY <1>8, <3>2, <3>3
    <3>6. ASSUME NEW m \in W PROVE CountsAsPrior(old, V, m) <=> CountsAsPrior(table, W, m)
      <4>1. CountsAsPrior(old, V, m) <=> (IsLarge(old, m) => \A k \in V \cap Mates(old, m) : ~Earlier(at, k, m))
        BY DEF CountsAsPrior
      <4>2. CountsAsPrior(table, W, m) <=> (IsLarge(table, m) => \A k \in W \cap Mates(table, m) : ~Earlier(was, k, m))
        BY DEF CountsAsPrior
      <4>3. (IsLarge(old, m) <=> IsLarge(table, m)) /\ Mates(old, m) = Mates(table, m) BY <1>9, <3>3
      <4> HIDE DEF at, was, V, W
      <4>4. CASE ~IsLarge(table, m) BY <4>1, <4>2, <4>3, <4>4
      <4>5. CASE IsLarge(table, m)
        <5>1. V \cap Mates(table, m) = W \cap Mates(table, m) BY <3>2, <3>4, <4>5 DEF V, W
        <5>2. \A k \in W : Earlier(at, k, m) <=> Earlier(was, k, m) BY <3>5 DEF Earlier
        <5>3. QED BY <4>1, <4>2, <4>3, <5>1, <5>2
      <4>6. QED BY <4>4, <4>5
    <3>7. ASSUME NEW m \in A
          PROVE  CountsAsPrior(old, V, m) <=> (IsLarge(table, m) => \A j \in U \cap Mates(table, m) : ~(j < m))
      <4>1. CountsAsPrior(old, V, m) <=> (IsLarge(old, m) => \A k \in V \cap Mates(old, m) : ~Earlier(at, k, m))
        BY DEF CountsAsPrior
      <4>2. m \in S /\ m \in Notes /\ table[m] # Null /\ Author[m] = Author[n] BY <1>2, <1>3
      <4>3. (IsLarge(old, m) <=> IsLarge(table, m)) /\ Mates(old, m) = Mates(table, m) BY <1>9, <4>2
      <4>4. \A k \in A : k \in V /\ at[k] = t BY <1>7, <3>2
      <4>5. \A k \in A : Earlier(at, k, m) <=> k < m BY <1>1, <4>4 DEF Earlier
      <4>6. CASE ~IsLarge(table, m) BY <4>1, <4>3, <4>6
      <4>7. CASE IsLarge(table, m)
        <5>1. \A k \in Mates(table, m) : Author[k] = Author[n] BY <4>2, <4>7 DEF IsLarge, Mates
        <5>2. V \cap Mates(table, m) = A \cap Mates(table, m) BY <3>2, <3>4, <4>2, <4>7
        <5>3. \A j \in U \cap Mates(table, m) : j < m => j \in A BY <1>1, <1>3, <4>2, <5>1
        <5> HIDE DEF V, at
        <5>4. QED BY <1>3, <4>1, <4>3, <4>5, <4>7, <5>2, <5>3
      <4>8. QED BY <4>6, <4>7
    <3>8. Leaders(table, U, n) = {m \in A : CountsAsPrior(old, V, m)}
      <4>1. \A k \in U : Author[k] = Author[n] /\ k < n <=> k \in A BY <1>1, <1>3
      <4>2. A \subseteq U BY <1>3
      <4> HIDE DEF A, V
      <4>3. QED BY <3>7, <4>1, <4>2 DEF Leaders
    <3>9. V = W \cup A BY <3>2
    <3>10. Weighing(old, n) = {m \in V : CountsAsPrior(old, V, m)} BY DEF Weighing
    <3>11. Weighing(table, n) = {m \in W : CountsAsPrior(table, W, m)} BY DEF Weighing
    <3> HIDE DEF V, W, A
    <3>12. QED BY <3>6, <3>8, <3>9, <3>10, <3>11
  <2>4. Weighing(table, n) \cap Leaders(table, U, n) = {}
    <3>1. Leaders(table, U, n) \subseteq S BY <1>1 DEF Leaders
    <3>2. \A m \in Window(table, n) : m \notin S BY <1>1, <1>3 DEF Window
    <3>3. QED BY <3>1, <3>2 DEF Weighing
  <2>5. Cardinality(Weighing(old, n)) = Cardinality(Weighing(table, n)) + Cardinality(Leaders(table, U, n))
    <3>1. IsFiniteSet(Notes) BY FeedAssumption
    <3>2. Weighing(table, n) \in SUBSET Notes /\ Leaders(table, U, n) \in SUBSET Notes
      BY <1>1 DEF Weighing, Window, Leaders
    <3>3. IsFiniteSet(Weighing(table, n)) /\ IsFiniteSet(Leaders(table, U, n)) BY <3>1, <3>2, FS_Subset
    <3>4. Cardinality(Weighing(table, n)) \in Nat /\ Cardinality(Leaders(table, U, n)) \in Nat
      BY <3>3, FS_CardinalityType
    <3>5. Cardinality(Weighing(table, n) \cup Leaders(table, U, n)) =
             Cardinality(Weighing(table, n)) + Cardinality(Leaders(table, U, n))
                - Cardinality(Weighing(table, n) \cap Leaders(table, U, n))
      BY <3>3, FS_Union
    <3>6. Cardinality(Weighing(table, n) \cap Leaders(table, U, n)) = 0 BY <2>4, FS_EmptySet
    <3>7. QED BY <2>3, <3>4, <3>5, <3>6
  <2>6. Cardinality(Weighing(old, n)) = Cardinality(Burst(old, n))
    <3>1. Burst(old, n) = {CardOf(old, m) : m \in Window(old, n)} BY DEF Burst, Window
    <3>2. QED BY <1>5, <1>10, <3>1, CountedAreCards DEF Weighing
  <2>7. old[n].published = t BY <1>2, <1>10
  <2>8. promised = t - BurstStep * Cardinality(Burst(old, n)) BY <1>16, <2>7
  <2>9. QED BY <2>2, <2>5, <2>6, <2>8
<1>17. promised = RankOf(table, U, n)
  BY <1>15, <1>16
<1> DEFINE r == RankOf(table, U, n)
           row == [table[n] EXCEPT !.rank = r, !.first = t]
<1>18. Assign(table, U) = [k \in Notes |-> IF k = n THEN row ELSE old[k]]
  <2>1. Assign(table, U) = [k \in Notes |-> IF k \in U
                                           THEN [table[k] EXCEPT !.rank = RankOf(table, U, k), !.first = table[k].published]
                                           ELSE table[k]]
    BY <1>1 DEF Assign
  <2> DEFINE ranked(k) == [table[k] EXCEPT !.rank = RankOf(table, U, k), !.first = table[k].published]
  <2>2. \A k \in S : ranked(k) = old[k] BY <1>2, <1>3, <1>6, <1>13
  <2>3. \A k \in Notes : k \notin U => table[k] = old[k] BY <1>3, <1>8
  <2>4. ranked(n) = row BY <1>2
  <2>5. Assign(table, U) = [k \in Notes |-> IF k \in U THEN ranked(k) ELSE table[k]] BY <2>1
  <2> HIDE DEF ranked, row, r
  <2>6. \A k \in Notes : (IF k \in U THEN ranked(k) ELSE table[k]) = (IF k = n THEN row ELSE old[k])
    BY <2>2, <2>3, <2>4
  <2>7. QED BY <2>5, <2>6
<1>19. RankOne(old, n) = [old EXCEPT ![n].first = t, ![n].rank = promised]
  <2>1. old[n].published = t BY <1>2, <1>10
  <2>2. QED BY <2>1 DEF RankOne
<1> HIDE DEF promised, r
<1>20. old = [k \in Notes |-> old[k]] BY <1>5 DEF Sound
<1>21. RankOne(old, n) = [old EXCEPT ![n] = [[old[n] EXCEPT !.first = t] EXCEPT !.rank = promised]]
  BY <1>19, <1>20
<1>22. [[old[n] EXCEPT !.first = t] EXCEPT !.rank = promised] = row
  <2>1. promised = r /\ table[n] \in Row BY <1>1, <1>17 DEF r
  <2>2. QED BY <1>10, <2>1 DEF Row
<1>23. QED BY <1>10, <1>18, <1>20, <1>21, <1>22 DEF old

LEMMA GreatestExists ==
    ASSUME NEW S \in SUBSET Nat, IsFiniteSet(S), S # {}
    PROVE  Greatest(S) \in S /\ \A m \in S \ {Greatest(S)} : m < Greatest(S)
<1> DEFINE above(x) == {y \in S : x < y}
           C == {Cardinality(above(x)) : x \in S}
<1>1. \A x \in S : above(x) \in SUBSET S /\ Cardinality(above(x)) \in Nat
  <2>1. \A x \in S : above(x) \in SUBSET S OBVIOUS
  <2>2. QED BY <2>1, FS_Subset, FS_CardinalityType
<1>2. C \in SUBSET Nat /\ C # {} BY <1>1
<1> HIDE DEF above
<1>3. PICK c \in C : \A d \in C : c <= d
  <2> HIDE DEF C
  <2>1. QED BY <1>2, LeastNatural
<1>4. PICK x \in S : c = Cardinality(above(x)) OBVIOUS
<1>n. x \in Nat /\ \A y \in S : y \in Nat OBVIOUS
<1>5. ASSUME NEW y \in S, x < y PROVE FALSE
  <2>0. y \in Nat /\ x \in Nat /\ \A z \in S : y < z => x < z
    <3>1. y \in Nat /\ x \in Nat BY <1>n
    <3>2. \A z \in Nat : y < z => x < z BY <1>5, <3>1
    <3>3. QED BY <1>n, <3>1, <3>2
  <2>1. above(y) \subseteq above(x) /\ y \in above(x) /\ y \notin above(y)
    <3>1. above(y) \subseteq above(x) BY <2>0 DEF above
    <3>2. y \in above(x) BY <1>5 DEF above
    <3>3. ~(y < y) BY <2>0
    <3>4. QED BY <3>1, <3>2, <3>3 DEF above
  <2>2. IsFiniteSet(above(x)) BY <1>1, FS_Subset
  <2>3. Cardinality(above(y)) < Cardinality(above(x)) BY <2>1, <2>2, Within
  <2>4. c <= Cardinality(above(y)) BY <1>3
  <2>5. QED BY <1>1, <1>4, <2>3, <2>4
<1>6. x \in S /\ \A m \in S : m <= x BY <1>5, <1>n
<1>7. Greatest(S) \in S /\ \A m \in S : m <= Greatest(S) BY <1>6 DEF Greatest
<1>8. ASSUME NEW m \in S \ {Greatest(S)} PROVE m < Greatest(S)
  <2>1. m \in Nat /\ Greatest(S) \in Nat /\ m <= Greatest(S) /\ m # Greatest(S) BY <1>n, <1>7
  <2>2. QED BY <2>1
<1>9. QED BY <1>7, <1>8

\* What goes through notes in order, one step for each, is what OneByOne computes.
LEMMA OneByOneIs ==
    ASSUME NEW table, NEW U \in SUBSET Nat, IsFiniteSet(U), NEW g,
           \A S \in SUBSET U : g[S] = IF S = {} THEN table
                                     ELSE RankOne(g[S \ {Greatest(S)}], Greatest(S))
    PROVE  OneByOne(table, U) = g[U]
<1> DEFINE after == CHOOSE after : after = [S \in SUBSET U |->
                       IF S = {} THEN table ELSE RankOne(after[S \ {Greatest(S)}], Greatest(S))]
<1>1. OneByOne(table, U) = after[U] BY DEF OneByOne
<1>2. after = [S \in SUBSET U |-> IF S = {} THEN table
                                 ELSE RankOne(after[S \ {Greatest(S)}], Greatest(S))]
  <2> DEFINE h == [S \in SUBSET U |-> g[S]]
  <2>1. \A S \in SUBSET U : h[S] = g[S] /\ h[S \ {Greatest(S)}] = g[S \ {Greatest(S)}] OBVIOUS
  <2>2. \A S \in SUBSET U : g[S] = IF S = {} THEN table ELSE RankOne(h[S \ {Greatest(S)}], Greatest(S))
    BY <2>1
  <2>3. h = [S \in SUBSET U |-> IF S = {} THEN table ELSE RankOne(h[S \ {Greatest(S)}], Greatest(S))]
    BY <2>2
  <2> HIDE DEF h
  <2>4. QED BY <2>3
<1> HIDE DEF after
<1>3. \A S \in SUBSET U : after[S] = g[S]
  <2> DEFINE bad == {S \in SUBSET U : after[S] # g[S]}
             O == StrictSubsetOrdering(U)
  <2>1. SUFFICES ASSUME bad # {} PROVE FALSE OBVIOUS
  <2>2. bad \subseteq FiniteSubsetsOf(U)
    <3>1. \A S \in SUBSET U : IsFiniteSet(S) BY FS_Subset
    <3>2. QED BY <3>1 DEF FiniteSubsetsOf
  <2>3. IsWellFoundedOn(O, FiniteSubsetsOf(U)) BY FS_StrictSubsetOrderingWellFounded
  <2> HIDE DEF bad, O
  <2>4. PICK S \in bad : \A R \in bad : ~ (<<R, S>> \in O) BY <2>1, <2>2, <2>3, WFMin
  <2>5. S \in SUBSET U /\ after[S] # g[S] BY DEF bad
  <2>6. S # {}
    <3>1. S = {} => after[S] = table /\ g[S] = table BY <1>2, <2>5
    <3>2. QED BY <2>5, <3>1
  <2> DEFINE R == S \ {Greatest(S)}
  <2>7. Greatest(S) \in S BY <2>5, <2>6, FS_Subset, GreatestExists
  <2>8. R \in SUBSET U /\ R \subseteq S /\ R # S BY <2>5, <2>7
  <2>9. <<R, S>> \in O BY <2>5, <2>8 DEF O, StrictSubsetOrdering
  <2>10. after[R] = g[R] BY <2>4, <2>8, <2>9 DEF bad
  <2>11. after[S] = RankOne(after[R], Greatest(S)) BY <1>2, <2>5, <2>6
  <2>12. g[S] = RankOne(g[R], Greatest(S)) BY <2>5, <2>6
  <2>13. QED BY <2>5, <2>10, <2>11, <2>12
<1>4. QED BY <1>1, <1>3

\* Ranking fresh notes together is ranking them one after the other.
LEMMA AssignIsOneByOne ==
    ASSUME NEW table, Sound(table), NEW U, NEW t, Fresh(table, U, t)
    PROVE  Assign(table, U) = OneByOne(table, U)
<1> DEFINE g == [S \in SUBSET U |-> Assign(table, S)]
<1>1. U \in SUBSET Notes /\ U \in SUBSET Nat /\ IsFiniteSet(U)
  <2>1. IsFiniteSet(Notes) BY FeedAssumption
  <2>2. U \in SUBSET Notes /\ \A n \in U : n \in Nat BY FreshRows
  <2>3. QED BY <2>1, <2>2, FS_Subset
<1>2. ASSUME NEW S \in SUBSET U
      PROVE  Assign(table, S) = IF S = {} THEN table
                                ELSE RankOne(Assign(table, S \ {Greatest(S)}), Greatest(S))
  <2>1. CASE S = {}
    <3>1. Targets(table, S) = {} BY <2>1 DEF Targets
    <3>2. Assign(table, S) = [n \in Notes |-> table[n]] BY <3>1 DEF Assign
    <3>3. QED BY <2>1, <3>2 DEF Sound
  <2>2. CASE S # {}
    <3>1. S \in SUBSET Nat /\ IsFiniteSet(S) BY <1>1, FS_Subset
    <3>2. Greatest(S) \in S /\ \A m \in S \ {Greatest(S)} : m < Greatest(S) BY <2>2, <3>1, GreatestExists
    <3>3. Fresh(table, S, t) BY FreshPart
    <3>4. Assign(table, S) = RankOne(Assign(table, S \ {Greatest(S)}), Greatest(S)) BY <3>2, <3>3, RankNext
    <3>5. QED BY <2>2, <3>4
  <2>3. QED BY <2>1, <2>2
<1>3. \A S \in SUBSET U : g[S] = IF S = {} THEN table ELSE RankOne(g[S \ {Greatest(S)}], Greatest(S))
  <2>1. \A S \in SUBSET U : g[S] = Assign(table, S) /\ S \ {Greatest(S)} \in SUBSET U OBVIOUS
  <2>2. \A S \in SUBSET U : Assign(table, S) = IF S = {} THEN table
                                ELSE RankOne(g[S \ {Greatest(S)}], Greatest(S))
    BY <1>2, <2>1
  <2>3. QED BY <2>1, <2>2
<1>4. g[U] = Assign(table, U) OBVIOUS
<1> HIDE DEF g
<1>5. OneByOne(table, U) = g[U] BY <1>1, <1>3, OneByOneIs
<1>6. QED BY <1>4, <1>5

\* One note is ranked once.
LEMMA OneByOneAlone ==
    ASSUME NEW table, NEW n \in Notes
    PROVE  OneByOne(table, {n}) = RankOne(table, n)
<1> DEFINE g == [S \in SUBSET {n} |-> IF S = {} THEN table ELSE RankOne(table, n)]
<1>1. {n} \in SUBSET Nat /\ IsFiniteSet({n}) BY FeedAssumption, FS_Singleton
<1>2. Greatest({n}) = n BY <1>1, GreatestExists
<1>3. \A S \in SUBSET {n} : g[S] = IF S = {} THEN table ELSE RankOne(g[S \ {Greatest(S)}], Greatest(S))
  <2>1. \A S \in SUBSET {n} : S = {} \/ S = {n} OBVIOUS
  <2>2. g[{}] = table /\ \A S \in SUBSET {n} : g[S] = IF S = {} THEN table ELSE RankOne(table, n) OBVIOUS
  <2>3. \A S \in SUBSET {n} : (IF S = {} THEN table ELSE RankOne(table, n))
            = (IF S = {} THEN table ELSE RankOne(g[S \ {Greatest(S)}], Greatest(S)))
    <3>1. {n} \ {n} = {} OBVIOUS
    <3>2. RankOne(g[{n} \ {Greatest({n})}], Greatest({n})) = RankOne(table, n) BY <1>2, <2>2, <3>1
    <3> HIDE DEF g
    <3>3. QED BY <2>1, <3>2
  <2> HIDE DEF g
  <2>4. QED BY <2>2, <2>3
<1>4. g[{n}] = RankOne(table, n) OBVIOUS
<1> HIDE DEF g
<1>5. OneByOne(table, {n}) = g[{n}] BY <1>1, <1>3, OneByOneIs
<1>6. QED BY <1>4, <1>5

\* Assign(table, ids) meets the promise if none of its targets' imports has a rank, or
\* if it has one target.
LEMMA AssignRanksInTurn ==
    ASSUME NEW table, Sound(table), NEW ids \in SUBSET Notes, NEW old, Ranked(table) = Ranked(old),
           \A n \in ids : table[n] # Null /\ table[n].published # Null,
           \/ \A n \in Targets(table, ids) : RankedMates(table, n) = {}
           \/ \E n \in Notes : ids = {n}
    PROVE  RankedInTurn(old, Assign(table, ids))
<1> DEFINE new == Assign(table, ids)
           U == Targets(table, ids)
<1>1. U \in SUBSET Notes /\ U \subseteq ids
      /\ \A n \in U : table[n] # Null /\ table[n].published # Null /\ table[n].rank = Null /\ table[n] \in Row
  BY DEF Targets, Sound
<1>2. /\ \A m \in Notes : new[m] = Null <=> table[m] = Null
      /\ \A m \in Notes : table[m] # Null => /\ new[m].published = table[m].published
                                             /\ table[m].rank # Null => new[m].rank = table[m].rank
      /\ \A m \in ids : new[m].rank # Null
  BY AssignRanks
<1>3. \A m \in Notes \ U : new[m] = table[m] BY DEF Assign
<1>4. Targets(table, U) = U /\ Assign(table, U) = new
  <2>1. Targets(table, U) = U BY DEF Targets
  <2>2. QED BY <2>1 DEF Assign
<1>5. new = [m \in Notes |-> new[m]] BY DEF Assign
<1>6. \A n \in U : new[n] = [table[n] EXCEPT !.rank = RankOf(table, U, n), !.first = table[n].published]
  BY <1>1 DEF Assign
<1>n. \A n \in ids : n \in Notes /\ (n \notin U => table[n].rank # Null) BY DEF Targets
<1> HIDE DEF new, U
<1>7. Ranked(new) \ Ranked(old) = U
  <2>1. \A n \in U : n \in Ranked(new) /\ n \notin Ranked(table) BY <1>1, <1>2 DEF Ranked
  <2>2. \A n \in Notes \ U : n \in Ranked(new) => n \in Ranked(table) BY <1>3 DEF Ranked
  <2>3. Ranked(new) \subseteq Notes BY DEF Ranked
  <2>4. QED BY <1>1, <2>1, <2>2, <2>3
<1>8. table = [n \in Notes |-> IF n \in U THEN [new[n] EXCEPT !.rank = Null, !.first = Null] ELSE new[n]]
  <2>1. ASSUME NEW n \in U PROVE [new[n] EXCEPT !.rank = Null, !.first = Null] = table[n]
    <3> DEFINE r == RankOf(table, U, n)
               t == table[n].published
               was == table[n]
    <3>1. new[n] = [was EXCEPT !.rank = r, !.first = t] BY <1>6
    <3>2. was \in Row /\ was.rank = Null /\ was.first = Null BY <1>1 DEF Sound
    <3> HIDE DEF r, t
    <3>3. QED BY <3>1, <3>2 DEF Row
  <2>2. table = [n \in Notes |-> table[n]] BY DEF Sound
  <2>3. QED BY <1>3, <2>1, <2>2
<1>9. SUFFICES ASSUME \A n, m \in U : new[n].published = new[m].published
               PROVE  new = OneByOne(table, U)
  <2> HIDE DEF U
  <2>1. RankedInTurn(old, new) <=>
           ((\A n, m \in U : new[n].published = new[m].published) =>
              new = OneByOne([n \in Notes |-> IF n \in U THEN [new[n] EXCEPT !.rank = Null, !.first = Null]
                                             ELSE new[n]], U))
    BY <1>7 DEF RankedInTurn
  <2>2. QED BY <1>8, <2>1 DEF new
<1>10. CASE \A n \in U : RankedMates(table, n) = {}
  <2>1. \E t \in Times : \A n \in U : table[n].published = t
    <3>1. CASE U = {}
      <4>1. 0 \in Times BY FeedAssumption DEF Times
      <4>2. QED BY <3>1, <4>1
    <3>2. CASE U # {}
      <4>1. PICK n \in U : TRUE BY <3>2
      <4>2. table[n].published \in Times BY <1>1 DEF Row
      <4>3. \A m \in U : table[m].published = table[n].published BY <1>1, <1>2, <1>9
      <4>4. QED BY <4>2, <4>3
    <3>3. QED BY <3>1, <3>2
  <2>2. PICK t \in Times : \A n \in U : table[n].published = t BY <2>1
  <2>3. Fresh(table, U, t) BY <1>1, <1>10, <2>2 DEF Fresh
  <2>4. QED BY <1>4, <2>3, AssignIsOneByOne
<1>11. ASSUME NEW n \in Notes, ids = {n} PROVE new = OneByOne(table, U)
  <2>1. CASE U = {}
    <3>1. \A k \in U : RankedMates(table, k) = {} BY <2>1
    <3>2. QED BY <1>10, <3>1
  <2>2. CASE U # {}
    <3>1. U = {n} BY <1>1, <1>11, <2>2
    <3>2. new = RankOne(table, n) BY <1>1, <1>4, <3>1, AssignOne
    <3>3. QED BY <3>1, <3>2, OneByOneAlone
  <2>3. QED BY <2>1, <2>2
<1>12. QED BY <1>10, <1>11 DEF U

\* A change of rows that ranks nothing has nothing to keep.
LEMMA NothingRanked ==
    ASSUME NEW old, NEW new \in [Notes -> Row \cup {Null}], Ranked(new) = Ranked(old)
    PROVE  RankedInTurn(old, new)
<1> DEFINE g == [S \in SUBSET {} |-> new]
<1>1. \A S \in SUBSET {} : g[S] = IF S = {} THEN new ELSE RankOne(g[S \ {Greatest(S)}], Greatest(S))
  OBVIOUS
<1>2. g[{}] = new OBVIOUS
<1> HIDE DEF g
<1>3. {} \in SUBSET Nat /\ IsFiniteSet({}) BY FS_EmptySet
<1>4. OneByOne(new, {}) = g[{}] BY <1>1, <1>3, OneByOneIs
<1>5. Ranked(new) \ Ranked(old) = {} OBVIOUS
<1>6. [n \in Notes |-> IF n \in {} THEN [new[n] EXCEPT !.rank = Null, !.first = Null] ELSE new[n]] = new
  OBVIOUS
<1>7. QED BY <1>2, <1>4, <1>5, <1>6 DEF RankedInTurn

----------------------------------------------------------------------------
(* The steps of the feed *)

FeedInv == FeedTypeOK /\ Settled(notes) /\ ScrollsOnTrack

ImportedRows(table, b) == {n \in Notes : table[n] # Null /\ table[n].batch = b}

LEMMA InRow ==
    ASSUME NEW b \in Batches \cup {Null}, NEW t \in Times
    PROVE  /\ NewRow(b, t) \in Row /\ NewRow(b, t).batch = b /\ NewRow(b, t).published = t
           /\ NewRow(b, t).first = Null /\ NewRow(b, t).rank = Null
BY DEF NewRow, Row

\* What is stored as it was, but for the reach and the publication of its rows.
LEMMA StorePlain ==
    ASSUME FeedInv, NEW table, Store(table), Sound(table), RowsKept(notes, table), Ranked(table) = Ranked(notes),
           \A n \in Notes : table[n] # Null /\ notes[n] = Null => table[n].batch = Null
    PROVE  /\ notes' \in [Notes -> Row \cup {Null}] /\ Settled(notes)'
           /\ scroll' \in [Readers -> Scroll \cup {Null}] /\ ScrollsOnTrack'
           /\ \A b \in Batches : ImportedRows(notes', b) = ImportedRows(notes, b)
           /\ RankedInTurn(notes, notes')
<1>1. notes' = table BY DEF Store
<1>2. ImportsAreRanked(table)
  <2>1. SUFFICES ASSUME NEW n \in Notes, table[n] # Null, table[n].batch # Null PROVE table[n].rank # Null
    BY DEF ImportsAreRanked
  <2>2. notes[n] # Null /\ table[n].batch = notes[n].batch /\ notes[n].rank # Null
    BY <2>1 DEF RowsKept, FeedInv, Settled, ImportsAreRanked
  <2>3. QED BY <2>2 DEF RowsKept
<1>3. Settled(table) BY <1>2 DEF Settled
<1>4. scroll' \in [Readers -> Scroll \cup {Null}] /\ ScrollsOnTrack'
  BY <1>3, StoreKeepsTrack DEF FeedInv
<1>5. ASSUME NEW b \in Batches PROVE ImportedRows(table, b) = ImportedRows(notes, b)
  <2>1. b # Null BY NullApart
  <2>2. \A n \in Notes : table[n] # Null /\ table[n].batch = b <=> notes[n] # Null /\ notes[n].batch = b
    BY <2>1 DEF RowsKept
  <2>3. QED BY <2>2 DEF ImportedRows
<1>6. RankedInTurn(notes, table) BY NothingRanked DEF Sound
<1>7. QED BY <1>1, <1>3, <1>4, <1>5, <1>6 DEF Settled, Sound

\* What is stored after Assign has ranked the rows that became public.
LEMMA StoreAssigned ==
    ASSUME FeedInv, NEW table, NEW ids \in SUBSET Notes, Store(Assign(table, ids)), Sound(table),
           RowsKept(notes, table), Ranked(table) = Ranked(notes),
           \A n \in ids : table[n] # Null /\ table[n].published # Null,
           \A n \in Notes : table[n] # Null /\ notes[n] = Null => table[n].batch = Null \/ n \in ids,
           \/ \A n \in Targets(table, ids) : RankedMates(table, n) = {}
           \/ \E n \in Notes : ids = {n}
    PROVE  /\ notes' \in [Notes -> Row \cup {Null}] /\ Settled(notes)'
           /\ scroll' \in [Readers -> Scroll \cup {Null}] /\ ScrollsOnTrack'
           /\ \A b : ImportedRows(notes', b) = ImportedRows(table, b)
           /\ RankedInTurn(notes, notes')
<1> DEFINE new == Assign(table, ids)
<1>1. notes' = new BY DEF Store
<1>2. /\ Sound(new)
      /\ \A n \in Notes : new[n] = Null <=> table[n] = Null
      /\ \A n \in Notes : table[n] # Null =>
            /\ new[n].batch = table[n].batch /\ new[n].published = table[n].published
            /\ new[n].shown = table[n].shown
            /\ table[n].rank # Null => new[n].rank = table[n].rank
      /\ \A n \in ids : table[n].published # Null => new[n].rank # Null
  BY AssignRanks
<1>s. Store(new) OBVIOUS
<1>r. RankedInTurn(notes, new) BY AssignRanksInTurn
<1> HIDE DEF new
<1>3. ImportsAreRanked(new)
  <2>1. SUFFICES ASSUME NEW n \in Notes, new[n] # Null, new[n].batch # Null PROVE new[n].rank # Null
    BY DEF ImportsAreRanked
  <2>2. table[n] # Null /\ table[n].batch # Null BY <1>2, <2>1
  <2>3. CASE n \in ids BY <1>2, <2>3
  <2>4. CASE n \notin ids
    <3>1. notes[n] # Null /\ notes[n].batch # Null BY <2>2, <2>4 DEF RowsKept
    <3>2. notes[n].rank # Null BY <3>1 DEF FeedInv, Settled, ImportsAreRanked
    <3>3. table[n].rank # Null BY <3>1, <3>2 DEF RowsKept
    <3>4. QED BY <1>2, <2>2, <3>3
  <2>5. QED BY <2>3, <2>4
<1>4. Settled(new) BY <1>2, <1>3 DEF Settled
<1>5. RowsKept(notes, new) BY <1>2 DEF RowsKept
<1>6. scroll' \in [Readers -> Scroll \cup {Null}] /\ ScrollsOnTrack'
  BY <1>s, <1>4, <1>5, StoreKeepsTrack DEF FeedInv
<1>7. \A b : ImportedRows(new, b) = ImportedRows(table, b) BY <1>2 DEF ImportedRows
<1>8. QED BY <1>1, <1>2, <1>4, <1>6, <1>7, <1>r DEF Sound

\* A change of rows that leaves ranking to Assign: rows keep their import and rank,
\* and new ones have no rank, and the author of their import.
SoundChange(old, new) ==
    /\ new \in [Notes -> Row \cup {Null}]
    /\ \A n \in Notes : old[n] # Null =>
          /\ new[n] # Null /\ new[n].batch = old[n].batch
          /\ new[n].first = old[n].first /\ new[n].rank = old[n].rank
    /\ \A n \in Notes : old[n] = Null /\ new[n] # Null => new[n].first = Null /\ new[n].rank = Null
    /\ \A n, m \in Notes :
          (old[n] = Null /\ new[n] # Null /\ new[n].batch # Null /\ new[m] # Null
              /\ new[m].batch = new[n].batch) => Author[m] = Author[n]

LEMMA SoundRows ==
    ASSUME NEW old, Sound(old), NEW new, SoundChange(old, new)
    PROVE  Sound(new) /\ RowsKept(old, new) /\ Ranked(new) = Ranked(old)
<1> USE DEF SoundChange
<1>1. \A n \in Notes : new[n] # Null => (new[n].first = Null <=> new[n].rank = Null)
  BY DEF Sound
<1>2. ASSUME NEW n \in Notes, NEW m \in Notes, new[n] # Null, new[m] # Null, new[n].batch # Null,
             new[m].batch = new[n].batch
      PROVE  Author[m] = Author[n] /\ (new[n].rank # Null /\ new[m].rank # Null => new[m].rank = new[n].rank)
  <2>1. CASE old[n] = Null BY <1>2, <2>1
  <2>2. CASE old[m] = Null BY <1>2, <2>2
  <2>3. CASE old[n] # Null /\ old[m] # Null BY <1>2, <2>3 DEF Sound
  <2>4. QED BY <2>1, <2>2, <2>3
<1>3. Sound(new) BY <1>1, <1>2 DEF Sound
<1>4. Ranked(new) = Ranked(old) BY DEF Ranked
<1>5. QED BY <1>3, <1>4 DEF RowsKept

\* A step of the feed keeps the feed's invariant, the locks, the promise to what
\* it ranks, and the notes of every import that its batch editor does not save.
FeedKept(EditorBatches) ==
    /\ FeedTypeOK' /\ Settled(notes)' /\ ScrollsOnTrack'
    /\ locked' = locked
    /\ RankedInTurn(notes, notes')
    /\ \A b \in Batches \ EditorBatches : ImportedRows(notes', b) = ImportedRows(notes, b)

\* When every note of an import has its rank, what is still to be ranked is in none.
LEMMA NewAreFresh ==
    ASSUME Settled(notes), NEW table, RowsKept(notes, table), NEW ids \in SUBSET Notes,
           \A n \in ids : table[n] # Null,
           \A n \in Notes : table[n] # Null /\ notes[n] = Null => table[n].batch = Null
    PROVE  \A n \in Targets(table, ids) : RankedMates(table, n) = {}
<1>1. TAKE n \in Targets(table, ids)
<1>2. n \in Notes /\ table[n] # Null /\ table[n].rank = Null BY DEF Targets
<1>3. table[n].batch = Null
  <2>1. CASE notes[n] = Null BY <1>2, <2>1
  <2>2. CASE notes[n] # Null
    <3>1. notes[n].batch # Null => notes[n].rank # Null BY <1>2, <2>2 DEF Settled, ImportsAreRanked
    <3>2. /\ table[n].batch = notes[n].batch
          /\ notes[n].rank # Null => table[n].rank = notes[n].rank
      BY <1>2, <2>2 DEF RowsKept
    <3>3. QED BY <1>2, <3>1, <3>2
  <2>3. QED BY <2>1, <2>2
<1>4. QED BY <1>2, <1>3 DEF RankedMates, Mates

LEMMA FeedStep ==
    ASSUME FeedInv, NEW EditorBatches \in SUBSET Batches, FeedNext(EditorBatches)
    PROVE  FeedKept(EditorBatches)
<1> USE DEF FeedKept
<1>0. /\ FeedTypeOK /\ Settled(notes) /\ Sound(notes) /\ ScrollsOnTrack
      /\ notes \in [Notes -> Row \cup {Null}] /\ scroll \in [Readers -> Scroll \cup {Null}]
      /\ now \in Times /\ locked \subseteq Users /\ hides \in 0 .. MaxHides /\ MaxHides \in Nat
  BY PageAssumption DEF FeedInv, Settled, FeedTypeOK
<1>s. notes' = notes => RankedInTurn(notes, notes') BY <1>0, NothingRanked
<1>n. ASSUME NEW r \in Readers, NEW s, scroll' = [scroll EXCEPT ![r] = s], OnTrack(notes, s),
             UNCHANGED <<now, notes, locked, hides>>
      PROVE  FeedKept(EditorBatches)
  <2>1. s \in Scroll BY <1>n DEF OnTrack
  <2>2. scroll' \in [Readers -> Scroll \cup {Null}] BY <1>0, <1>n, <2>1
  <2>3. \A q \in Readers : scroll'[q] = IF q = r THEN s ELSE scroll[q] BY <1>0, <1>n
  <2>4. ScrollsOnTrack' BY <1>0, <1>n, <2>3 DEF ScrollsOnTrack
  <2>5. QED BY <1>0, <1>n, <1>s, <2>2, <2>4 DEF FeedTypeOK, Settled
<1>1. ASSUME NEW r \in Readers, NEW tag \in Filters, GetFeed(r, tag) PROVE FeedKept(EditorBatches)
  <2> DEFINE s == [tag |-> tag, cursor |-> Null, more |-> TRUE,
                   unseen |-> Ids(Items(notes, tag)), seen |-> {}, again |-> {}]
             new == After(s, Page(notes, tag, Null))
  <2>1. tag \in BOOLEAN BY PageAssumption
  <2>2. Ids(Items(notes, tag)) \in SUBSET (Notes \cup Batches)
    BY <1>0, ItemsAreItems DEF Ids, Item
  <2>3. s \in Scroll BY <2>1, <2>2 DEF Scroll
  <2>4. /\ s.tag = tag /\ s.cursor = Null /\ s.more = TRUE /\ s.unseen = Ids(Items(notes, tag))
        /\ s.seen = {} /\ s.again = {}
    OBVIOUS
  <2>n. new = After(s, Page(notes, tag, Null)) OBVIOUS
  <2>c. scroll' = [scroll EXCEPT ![r] = new] BY <1>1 DEF GetFeed
  <2> HIDE DEF s, new
  <2>5. OnTrack(notes, s) BY <2>3, <2>4 DEF OnTrack, Past
  <2>6. new = After(s, Page(notes, s.tag, s.cursor)) BY <2>4, <2>n
  <2>7. OnTrack(notes, new) BY <1>0, <2>5, <2>6, PageKeepsTrack
  <2>8. QED BY <1>1, <1>n, <2>7, <2>c DEF GetFeed
<1>2. ASSUME NEW r \in Readers, GetOlder(r) PROVE FeedKept(EditorBatches)
  <2> DEFINE s == scroll[r]
             new == After(s, Page(notes, s.tag, s.cursor))
  <2>1. scroll[r] # Null BY <1>2 DEF GetOlder
  <2>2. OnTrack(notes, s) BY <1>0, <2>1 DEF ScrollsOnTrack
  <2>3. scroll' = [scroll EXCEPT ![r] = new] BY <1>2 DEF GetOlder
  <2>n. new = After(s, Page(notes, s.tag, s.cursor)) OBVIOUS
  <2> HIDE DEF s, new
  <2>4. OnTrack(notes, new) BY <1>0, <2>2, <2>n, PageKeepsTrack
  <2>5. QED BY <1>2, <1>n, <2>3, <2>4 DEF GetOlder
<1>3. CASE Tick
  <2>1. now' \in Times BY <1>0, <1>3, FeedAssumption DEF Tick, Times
  <2>2. /\ notes' = notes /\ scroll' = scroll /\ locked' = locked /\ hides' = hides BY <1>3 DEF Tick
  <2>3. QED BY <1>0, <1>s, <2>1, <2>2 DEF FeedTypeOK, Settled, ScrollsOnTrack
<1>4. ASSUME NEW a \in Users, NEW S \in SUBSET Notes, Publish(a, S) PROVE FeedKept(EditorBatches)
  <2> DEFINE table == [n \in Notes |->
                          IF n \notin S THEN notes[n]
                          ELSE IF notes[n] = Null THEN NewRow(Null, now)
                          ELSE IF notes[n].published = Null THEN [notes[n] EXCEPT !.published = now]
                          ELSE notes[n]]
  <2>1. Store(Assign(table, S)) BY <1>4 DEF Publish
  <2>2. \A n \in Notes : notes[n] # Null => notes[n] \in Row BY <1>0
  <2>3. ASSUME NEW n \in Notes
        PROVE  /\ table[n] \in Row \cup {Null}
               /\ notes[n] # Null =>
                     /\ table[n] # Null /\ table[n].batch = notes[n].batch
                     /\ table[n].first = notes[n].first /\ table[n].rank = notes[n].rank
               /\ notes[n] = Null /\ table[n] # Null =>
                     n \in S /\ table[n].batch = Null /\ table[n].first = Null /\ table[n].rank = Null
               /\ n \in S => table[n] # Null /\ table[n].published # Null
    <3>1. NewRow(Null, now) \in Row /\ NewRow(Null, now).batch = Null /\ NewRow(Null, now).published = now
          /\ NewRow(Null, now).first = Null /\ NewRow(Null, now).rank = Null
      BY <1>0, InRow
    <3>2. now # Null /\ NewRow(Null, now) # Null BY <1>0, <3>1, NullApart
    <3>3. CASE n \notin S BY <1>0, <3>3
    <3>4. CASE n \in S /\ notes[n] = Null
      <4>1. table[n] = NewRow(Null, now) BY <3>4
      <4>2. QED BY <3>1, <3>2, <3>4, <4>1
    <3>5. CASE n \in S /\ notes[n] # Null /\ notes[n].published = Null
      <4>1. table[n] = [notes[n] EXCEPT !.published = now] BY <3>5
      <4> HIDE DEF table
      <4>2. /\ table[n] \in Row /\ table[n].batch = notes[n].batch /\ table[n].published = now
            /\ table[n].first = notes[n].first /\ table[n].rank = notes[n].rank
        BY <1>0, <2>2, <3>5, <4>1 DEF Row
      <4>3. QED BY <3>2, <3>5, <4>2, NullApart
    <3>6. CASE n \in S /\ notes[n] # Null /\ notes[n].published # Null BY <1>0, <3>6
    <3>7. QED BY <3>3, <3>4, <3>5, <3>6
  <2>4. table \in [Notes -> Row \cup {Null}] BY <2>3
  <2> HIDE DEF table
  <2>c. SoundChange(notes, table) BY <2>3, <2>4 DEF SoundChange
  <2>5. Sound(table) /\ RowsKept(notes, table) /\ Ranked(table) = Ranked(notes) BY <1>0, <2>c, SoundRows
  <2>6. /\ notes' \in [Notes -> Row \cup {Null}] /\ Settled(notes)'
        /\ scroll' \in [Readers -> Scroll \cup {Null}] /\ ScrollsOnTrack'
        /\ \A b : ImportedRows(notes', b) = ImportedRows(table, b)
        /\ RankedInTurn(notes, notes')
    <3>1. \A n \in Notes : table[n] # Null /\ notes[n] = Null => table[n].batch = Null BY <2>3
    <3>n. \A n \in S : table[n] # Null BY <2>3
    <3>2. \A n \in Targets(table, S) : RankedMates(table, n) = {} BY <1>0, <2>5, <3>1, <3>n, NewAreFresh
    <3>3. QED BY <2>1, <2>3, <2>5, <3>2, StoreAssigned
  <2>7. \A b \in Batches : ImportedRows(table, b) = ImportedRows(notes, b)
    BY <2>3, NullApart DEF ImportedRows
  <2>8. now' = now /\ locked' = locked /\ hides' = hides BY <1>4 DEF Publish
  <2>9. QED BY <1>0, <2>6, <2>7, <2>8 DEF FeedTypeOK
<1>5. ASSUME NEW n \in Notes, NEW b \in EditorBatches, SaveImportedNote(n, b)
      PROVE  FeedKept(EditorBatches)
  <2> DEFINE table == [notes EXCEPT ![n] = NewRow(b, now)]
  <2>1. Store(Assign(table, {n})) BY <1>5 DEF SaveImportedNote
  <2>2. /\ NewRow(b, now) \in Row /\ NewRow(b, now).batch = b /\ NewRow(b, now).published = now
        /\ NewRow(b, now).first = Null /\ NewRow(b, now).rank = Null
    BY <1>0, InRow
  <2>3. now # Null /\ NewRow(b, now) # Null /\ b # Null BY <1>0, <2>2, NullApart
  <2>4. notes[n] = Null BY <1>5 DEF SaveImportedNote
  <2>5. \A m \in Notes : notes[m] # Null /\ notes[m].batch = b => Author[m] = Author[n]
    BY <1>5 DEF SaveImportedNote
  <2>6. table \in [Notes -> Row \cup {Null}] BY <1>0, <2>2
  <2>7. \A m \in Notes : table[m] = IF m = n THEN NewRow(b, now) ELSE notes[m] BY <1>0
  <2> HIDE DEF table
  <2>8. Sound(table) /\ RowsKept(notes, table) /\ Ranked(table) = Ranked(notes)
    <3>1. \A m \in Notes : notes[m] # Null =>
               /\ table[m] # Null /\ table[m].batch = notes[m].batch
               /\ table[m].first = notes[m].first /\ table[m].rank = notes[m].rank
      BY <2>4, <2>7
    <3>2. \A m \in Notes : notes[m] = Null /\ table[m] # Null =>
               /\ m = n /\ table[m].batch = b /\ table[m].first = Null /\ table[m].rank = Null
      BY <2>2, <2>7
    <3>3. \A k, m \in Notes :
             (notes[k] = Null /\ table[k] # Null /\ table[k].batch # Null /\ table[m] # Null
                 /\ table[m].batch = table[k].batch) => Author[m] = Author[k]
      BY <2>5, <2>7, <3>2
    <3>4. SoundChange(notes, table) BY <2>6, <3>1, <3>2, <3>3 DEF SoundChange
    <3>5. QED BY <1>0, <3>4, SoundRows
  <2>9. {n} \in SUBSET Notes /\ \A m \in {n} : table[m] # Null /\ table[m].published # Null
    BY <2>2, <2>3, <2>7
  <2>10. \A m \in Notes : table[m] # Null /\ notes[m] = Null => table[m].batch = Null \/ m \in {n}
    BY <2>7
  <2>11. /\ notes' \in [Notes -> Row \cup {Null}] /\ Settled(notes)'
         /\ scroll' \in [Readers -> Scroll \cup {Null}] /\ ScrollsOnTrack'
         /\ \A c : ImportedRows(notes', c) = ImportedRows(table, c)
         /\ RankedInTurn(notes, notes')
    <3>1. \E m \in Notes : {n} = {m} OBVIOUS
    <3>2. QED BY <2>1, <2>8, <2>9, <2>10, <3>1, StoreAssigned
  <2>12. \A c \in Batches \ EditorBatches : ImportedRows(table, c) = ImportedRows(notes, c)
    <3>1. ASSUME NEW c \in Batches \ EditorBatches, NEW m \in Notes
          PROVE  (table[m] # Null /\ table[m].batch = c) <=> (notes[m] # Null /\ notes[m].batch = c)
      <4>1. c # b OBVIOUS
      <4>2. CASE m = n BY <2>2, <2>4, <2>7, <4>1, <4>2
      <4>3. CASE m # n BY <2>7, <4>3
      <4>4. QED BY <4>2, <4>3
    <3>2. QED BY <3>1 DEF ImportedRows
  <2>13. now' = now /\ locked' = locked /\ hides' = hides BY <1>5 DEF SaveImportedNote
  <2>14. QED BY <1>0, <2>11, <2>12, <2>13 DEF FeedTypeOK
<1>6. ASSUME NEW n \in Notes, Hide(n) PROVE FeedKept(EditorBatches)
  <2> DEFINE table == [notes EXCEPT ![n].published = Null]
  <2>1. /\ Store(table) /\ notes[n] # Null /\ hides' = hides + 1 /\ hides < MaxHides
        /\ now' = now /\ locked' = locked
    BY <1>6 DEF Hide, IsPublic
  <2>2. notes[n] \in Row BY <1>0, <2>1
  <2> DEFINE row == [notes[n] EXCEPT !.published = Null]
  <2>3. row \in Row /\ row.batch = notes[n].batch /\ row.first = notes[n].first /\ row.rank = notes[n].rank
    BY <2>2 DEF Row
  <2>4. table = [notes EXCEPT ![n] = row] OBVIOUS
  <2> HIDE DEF table, row
  <2>5. table \in [Notes -> Row \cup {Null}] /\ \A m \in Notes : table[m] = IF m = n THEN row ELSE notes[m]
    BY <1>0, <2>3, <2>4
  <2>6. row # Null BY <2>3, NullApart
  <2>c. SoundChange(notes, table) BY <2>1, <2>3, <2>5, <2>6 DEF SoundChange
  <2>7. Sound(table) /\ RowsKept(notes, table) /\ Ranked(table) = Ranked(notes) BY <1>0, <2>c, SoundRows
  <2>8. \A m \in Notes : table[m] # Null /\ notes[m] = Null => table[m].batch = Null BY <2>1, <2>5
  <2>9. /\ notes' \in [Notes -> Row \cup {Null}] /\ Settled(notes)'
        /\ scroll' \in [Readers -> Scroll \cup {Null}] /\ ScrollsOnTrack'
        /\ \A b \in Batches : ImportedRows(notes', b) = ImportedRows(notes, b)
        /\ RankedInTurn(notes, notes')
    BY <2>1, <2>7, <2>8, StorePlain
  <2>10. hides' \in 0 .. MaxHides BY <1>0, <2>1
  <2>11. QED BY <1>0, <2>1, <2>9, <2>10 DEF FeedTypeOK
<1>7. ASSUME NEW n \in Notes, Moderate(n) PROVE FeedKept(EditorBatches)
  <2> DEFINE table == [notes EXCEPT ![n].shown = ~@]
  <2>1. /\ Store(table) /\ notes[n] # Null /\ hides' = hides + 1 /\ hides < MaxHides
        /\ now' = now /\ locked' = locked
    BY <1>7 DEF Moderate
  <2>2. notes[n] \in Row BY <1>0, <2>1
  <2> DEFINE row == [notes[n] EXCEPT !.shown = ~@]
  <2>3. row \in Row /\ row.batch = notes[n].batch /\ row.first = notes[n].first /\ row.rank = notes[n].rank
    BY <2>2 DEF Row
  <2>4. table = [notes EXCEPT ![n] = row] OBVIOUS
  <2> HIDE DEF table, row
  <2>5. table \in [Notes -> Row \cup {Null}] /\ \A m \in Notes : table[m] = IF m = n THEN row ELSE notes[m]
    BY <1>0, <2>3, <2>4
  <2>6. row # Null BY <2>3, NullApart
  <2>c. SoundChange(notes, table) BY <2>1, <2>3, <2>5, <2>6 DEF SoundChange
  <2>7. Sound(table) /\ RowsKept(notes, table) /\ Ranked(table) = Ranked(notes) BY <1>0, <2>c, SoundRows
  <2>8. \A m \in Notes : table[m] # Null /\ notes[m] = Null => table[m].batch = Null BY <2>1, <2>5
  <2>9. /\ notes' \in [Notes -> Row \cup {Null}] /\ Settled(notes)'
        /\ scroll' \in [Readers -> Scroll \cup {Null}] /\ ScrollsOnTrack'
        /\ \A b \in Batches : ImportedRows(notes', b) = ImportedRows(notes, b)
        /\ RankedInTurn(notes, notes')
    BY <2>1, <2>7, <2>8, StorePlain
  <2>10. hides' \in 0 .. MaxHides BY <1>0, <2>1
  <2>11. QED BY <1>0, <2>1, <2>9, <2>10 DEF FeedTypeOK
<1>8. ASSUME NEW n \in Notes, PublishUnranked(n) PROVE FeedKept(EditorBatches)
  <2> DEFINE row == NewRow(Null, now)
             table == [notes EXCEPT ![n] = row]
  <2>1. /\ Store(table) /\ notes[n] = Null /\ now' = now /\ locked' = locked /\ hides' = hides
    BY <1>8 DEF PublishUnranked
  <2>3. row \in Row /\ row.batch = Null /\ row.first = Null /\ row.rank = Null BY <1>0, InRow
  <2> HIDE DEF row
  <2>5. table \in [Notes -> Row \cup {Null}] /\ \A m \in Notes : table[m] = IF m = n THEN row ELSE notes[m]
    BY <1>0, <2>3
  <2> HIDE DEF table
  <2>6. row # Null BY <2>3, NullApart
  <2>a. \A m \in Notes : notes[m] # Null =>
               /\ table[m] # Null /\ table[m].batch = notes[m].batch
               /\ table[m].first = notes[m].first /\ table[m].rank = notes[m].rank
    BY <2>1, <2>5
  <2>b. \A m \in Notes : notes[m] = Null /\ table[m] # Null =>
               table[m].batch = Null /\ table[m].first = Null /\ table[m].rank = Null
    BY <2>3, <2>5
  <2>c. SoundChange(notes, table) BY <2>5, <2>a, <2>b DEF SoundChange
  <2>7. Sound(table) /\ RowsKept(notes, table) /\ Ranked(table) = Ranked(notes) BY <1>0, <2>c, SoundRows
  <2>9. /\ notes' \in [Notes -> Row \cup {Null}] /\ Settled(notes)'
        /\ scroll' \in [Readers -> Scroll \cup {Null}] /\ ScrollsOnTrack'
        /\ \A b \in Batches : ImportedRows(notes', b) = ImportedRows(notes, b)
        /\ RankedInTurn(notes, notes')
    BY <2>1, <2>7, <2>b, StorePlain
  <2>11. QED BY <1>0, <2>1, <2>9 DEF FeedTypeOK
<1>9. CASE AssignUnranked
  <2> DEFINE S == {n \in Notes : notes[n] # Null /\ notes[n].rank = Null /\ notes[n].published # Null}
  <2>1. /\ Store(Assign(notes, S)) /\ now' = now /\ locked' = locked /\ hides' = hides
    BY <1>9 DEF AssignUnranked
  <2>2. S \in SUBSET Notes /\ \A n \in S : notes[n] # Null /\ notes[n].published # Null OBVIOUS
  <2> HIDE DEF S
  <2>3. RowsKept(notes, notes) BY DEF RowsKept
  <2>4. /\ notes' \in [Notes -> Row \cup {Null}] /\ Settled(notes)'
        /\ scroll' \in [Readers -> Scroll \cup {Null}] /\ ScrollsOnTrack'
        /\ \A b : ImportedRows(notes', b) = ImportedRows(notes, b)
        /\ RankedInTurn(notes, notes')
    <3>1. \A n \in Targets(notes, S) : RankedMates(notes, n) = {} BY <1>0, <2>2, <2>3, NewAreFresh
    <3>2. QED BY <1>0, <2>1, <2>2, <2>3, <3>1, StoreAssigned
  <2>5. QED BY <1>0, <2>1, <2>4 DEF FeedTypeOK
<1>10. QED BY <1>1, <1>2, <1>3, <1>4, <1>5, <1>6, <1>7, <1>8, <1>9 DEF FeedNext

----------------------------------------------------------------------------
(* Imports *)

\* A request that holds the lock has notes of its own and no receipt yet; one that
\* the page listens to is the one it waits for.  One at most holds the lock, and
\* the page listens to one at most.
RequestsAreSound ==
    /\ \A w \in Slots : imports[w] # Null =>
          /\ imports[w].heard => page.busy /\ page.batch = imports[w].batch
          /\ imports[w].at # Null =>
                /\ Importer \in locked
                /\ imports[w].batch \notin receipts
                /\ Cardinality(imports[w].ids) = Files
                /\ \A n \in imports[w].ids : Author[n] = Importer
    /\ \A w, v \in Slots : imports[w] # Null /\ imports[v] # Null =>
          /\ imports[w].at # Null /\ imports[v].at # Null => w = v
          /\ imports[w].heard /\ imports[v].heard => w = v

\* A receipt stands for exactly the files of its import, and only with one is the
\* page told of it.
ReceiptsAreSound ==
    /\ \A b \in VaultBatches :
          /\ b \in receipts => Cardinality(ImportedRows(notes, b)) = Files
          /\ b \notin receipts => ImportedRows(notes, b) = {}
    /\ page.report => ~page.busy /\ page.batch \in receipts

VaultInv ==
    /\ TypeOK
    /\ Settled(notes)
    /\ ScrollsOnTrack
    /\ RequestsAreSound
    /\ ReceiptsAreSound

LEMMA VaultInit == Init => VaultInv
<1> SUFFICES ASSUME Init PROVE VaultInv OBVIOUS
<1> USE DEF Init, FeedInit
<1>1. \A n \in Notes : notes[n] = Null OBVIOUS
<1>2. 0 \in Times /\ 0 \in 0 .. MaxHides /\ 0 \in Nat BY FeedAssumption, PageAssumption DEF Times
<1>3. FeedTypeOK BY <1>2 DEF FeedTypeOK
<1>4. page \in ImportPage BY DEF ImportPage
<1>5. TypeOK BY <1>3, <1>4 DEF TypeOK
<1>6. Settled(notes) BY <1>1, <1>3 DEF Settled, Sound, ImportsAreRanked, FeedTypeOK
<1>7. ScrollsOnTrack BY DEF ScrollsOnTrack
<1>8. RequestsAreSound BY DEF RequestsAreSound
<1>9. ReceiptsAreSound BY <1>1 DEF ReceiptsAreSound, ImportedRows
<1>10. QED BY <1>5, <1>6, <1>7, <1>8, <1>9 DEF VaultInv

\* Requests that go on as they were, and the others gone.
LEMMA RequestEnds ==
    ASSUME VaultInv, NEW w \in Slots, imports[w] # Null, NEW done \in BOOLEAN,
           Answered(imports[w], done), imports' = [imports EXCEPT ![w] = Null]
    PROVE  /\ page' \in ImportPage /\ imports' \in [Slots -> Import \cup {Null}]
           /\ \A v \in Slots : imports'[v] = IF v = w THEN Null ELSE imports[v]
           /\ page'.batch = page.batch
           /\ \A v \in Slots : imports'[v] # Null /\ imports'[v].heard => page'.busy /\ page'.batch = imports'[v].batch
           /\ page'.report => \/ page.report /\ ~page.busy /\ ~page'.busy
                              \/ done /\ ~page'.busy /\ page.batch = imports[w].batch
<1> USE DEF VaultInv
<1>1. page \in ImportPage /\ imports \in [Slots -> Import \cup {Null}] /\ imports[w] \in Import
  BY DEF TypeOK
<1>2. \A v \in Slots : imports'[v] = IF v = w THEN Null ELSE imports[v] BY <1>1
<1>3. imports' \in [Slots -> Import \cup {Null}] BY <1>1
<1>4. imports[w].heard \in BOOLEAN /\ page.report \in BOOLEAN /\ page.busy \in BOOLEAN
  BY <1>1 DEF Import, ImportPage
<1>5. CASE imports[w].heard
  <2>1. page' = [page EXCEPT !.busy = FALSE, !.report = done] BY <1>5 DEF Answered
  <2>2. page' \in ImportPage /\ page'.batch = page.batch /\ page'.busy = FALSE /\ page'.report = done
    BY <1>1, <2>1 DEF ImportPage
  <2>3. page.busy /\ page.batch = imports[w].batch BY <1>5 DEF RequestsAreSound
  <2>4. \A v \in Slots : imports'[v] # Null => ~imports'[v].heard
    BY <1>2, <1>5 DEF RequestsAreSound
  <2>5. QED BY <1>2, <1>3, <2>2, <2>3, <2>4
<1>6. CASE ~imports[w].heard
  <2>1. page' = page BY <1>6 DEF Answered
  <2>2. \A v \in Slots : imports'[v] # Null /\ imports'[v].heard => page'.busy /\ page'.batch = imports'[v].batch
    BY <1>2, <2>1 DEF RequestsAreSound
  <2>3. page'.report => page.report /\ ~page.busy /\ ~page'.busy BY <2>1 DEF ReceiptsAreSound
  <2>4. QED BY <1>1, <1>2, <1>3, <2>1, <2>2, <2>3
<1>7. QED BY <1>4, <1>5, <1>6

LEMMA CommitStep ==
    ASSUME VaultInv, NEW w \in Slots, Commit(w)
    PROVE  VaultInv' /\ RankedInTurn(notes, notes')
<1>0. /\ TypeOK /\ FeedTypeOK /\ Settled(notes) /\ ScrollsOnTrack /\ RequestsAreSound /\ ReceiptsAreSound
      /\ page \in ImportPage /\ imports \in [Slots -> Import \cup {Null}] /\ receipts \subseteq VaultBatches
      /\ locked \subseteq Users
  BY DEF VaultInv, TypeOK, FeedTypeOK
<1> DEFINE b == imports[w].batch
           at == imports[w].at
           ids == imports[w].ids
           table == [n \in Notes |-> IF n \in ids THEN NewRow(b, at) ELSE notes[n]]
<1>1. /\ imports[w] # Null /\ at # Null /\ \A n \in ids : notes[n] = Null
      /\ Store(Assign(table, ids)) /\ receipts' = receipts \cup {b} /\ locked' = locked \ {Importer}
      /\ Answered(imports[w], TRUE) /\ imports' = [imports EXCEPT ![w] = Null]
      /\ UNCHANGED <<now, hides>>
  BY DEF Commit, Receipts
<1>2. imports[w] \in Import BY <1>0, <1>1
<1>3. b \in VaultBatches /\ b \in Batches /\ b # Null /\ at \in Times /\ ids \in SUBSET Notes
  BY <1>1, <1>2, VaultAssumption, NullApart DEF Import
<1>4. /\ b \notin receipts /\ Cardinality(ids) = Files /\ \A n \in ids : Author[n] = Importer
  BY <1>0, <1>1 DEF RequestsAreSound
<1>5. /\ page' \in ImportPage /\ imports' \in [Slots -> Import \cup {Null}]
      /\ \A v \in Slots : imports'[v] = IF v = w THEN Null ELSE imports[v]
      /\ page'.batch = page.batch
      /\ \A v \in Slots : imports'[v] # Null /\ imports'[v].heard => page'.busy /\ page'.batch = imports'[v].batch
      /\ page'.report => \/ page.report /\ ~page.busy /\ ~page'.busy
                         \/ TRUE /\ ~page'.busy /\ page.batch = b
  BY <1>1, RequestEnds
<1>6. \A v \in Slots : imports'[v] # Null => imports'[v].at = Null
  BY <1>0, <1>1, <1>5 DEF RequestsAreSound
<1>7. \A n \in Notes : table[n] = IF n \in ids THEN NewRow(b, at) ELSE notes[n] OBVIOUS
<1>8. /\ NewRow(b, at) \in Row /\ NewRow(b, at).batch = b /\ NewRow(b, at).published = at
      /\ NewRow(b, at).first = Null /\ NewRow(b, at).rank = Null /\ NewRow(b, at) # Null
  BY <1>3, InRow, NullApart
<1>9. table \in [Notes -> Row \cup {Null}] BY <1>0, <1>8 DEF FeedTypeOK
<1>10. ImportedRows(notes, b) = {} BY <1>0, <1>3, <1>4 DEF ReceiptsAreSound
<1> HIDE DEF b, at, ids, table
<1>11. ImportedRows(table, b) = ids BY <1>3, <1>7, <1>8, <1>10 DEF ImportedRows
<1>12. \A c \in VaultBatches : c # b => ImportedRows(table, c) = ImportedRows(notes, c)
  <2>1. ASSUME NEW c \in VaultBatches, c # b, NEW n \in Notes
        PROVE  (table[n] # Null /\ table[n].batch = c) <=> (notes[n] # Null /\ notes[n].batch = c)
    BY <1>1, <1>7, <1>8, <2>1
  <2>2. QED BY <2>1 DEF ImportedRows
<1>13. SoundChange(notes, table)
  <2>1. \A n \in Notes : notes[n] # Null =>
             /\ table[n] # Null /\ table[n].batch = notes[n].batch
             /\ table[n].first = notes[n].first /\ table[n].rank = notes[n].rank
    BY <1>1, <1>7
  <2>2. \A n \in Notes : notes[n] = Null /\ table[n] # Null =>
             n \in ids /\ table[n].batch = b /\ table[n].first = Null /\ table[n].rank = Null
    BY <1>7, <1>8
  <2>3. \A m \in Notes : table[m] # Null /\ table[m].batch = b => m \in ids
    BY <1>11 DEF ImportedRows
  <2>4. \A n, m \in Notes :
           (notes[n] = Null /\ table[n] # Null /\ table[n].batch # Null /\ table[m] # Null
               /\ table[m].batch = table[n].batch) => Author[m] = Author[n]
    BY <1>4, <2>2, <2>3
  <2>5. QED BY <1>9, <2>1, <2>2, <2>4 DEF SoundChange
<1>14. Sound(table) /\ RowsKept(notes, table) /\ Ranked(table) = Ranked(notes) BY <1>0, <1>13, SoundRows DEF Settled
<1>15. \A n \in ids : table[n] # Null /\ table[n].published # Null BY <1>1, <1>3, <1>7, <1>8
<1>16. \A n \in Notes : table[n] # Null /\ notes[n] = Null => table[n].batch = Null \/ n \in ids BY <1>7
<1>17. /\ notes' \in [Notes -> Row \cup {Null}] /\ Settled(notes)'
       /\ scroll' \in [Readers -> Scroll \cup {Null}] /\ ScrollsOnTrack'
       /\ \A c : ImportedRows(notes', c) = ImportedRows(table, c)
       /\ RankedInTurn(notes, notes')
  <2>1. FeedInv BY <1>0 DEF FeedInv
  <2>2. \A n \in Targets(table, ids) : RankedMates(table, n) = {}
    <3>1. TAKE n \in Targets(table, ids)
    <3>2. n \in ids BY DEF Targets
    <3>3. table[n].batch = b BY <1>3, <1>7, <1>8, <3>2
    <3>4. \A m \in Mates(table, n) : m \in ids BY <1>3, <1>11, <3>3 DEF Mates, ImportedRows
    <3>5. \A m \in ids : table[m].rank = Null BY <1>3, <1>7, <1>8
    <3>6. QED BY <3>4, <3>5 DEF RankedMates
  <2>3. QED BY <1>1, <1>3, <1>14, <1>15, <1>16, <2>1, <2>2, StoreAssigned
<1>18. FeedTypeOK' BY <1>0, <1>1, <1>17 DEF FeedTypeOK
<1>19. TypeOK' BY <1>0, <1>1, <1>3, <1>5, <1>18 DEF TypeOK
<1>20. RequestsAreSound' BY <1>0, <1>5, <1>6 DEF RequestsAreSound
<1>21. ReceiptsAreSound'
  <2>1. ASSUME NEW c \in VaultBatches
        PROVE  /\ c \in receipts' => Cardinality(ImportedRows(notes', c)) = Files
               /\ c \notin receipts' => ImportedRows(notes', c) = {}
    <3>1. CASE c = b BY <1>1, <1>4, <1>11, <1>17, <3>1
    <3>2. CASE c # b BY <1>0, <1>1, <1>12, <1>17, <3>2 DEF ReceiptsAreSound
    <3>3. QED BY <3>1, <3>2
  <2>2. page'.report => ~page'.busy /\ page'.batch \in receipts' BY <1>0, <1>1, <1>5 DEF ReceiptsAreSound
  <2>3. QED BY <2>1, <2>2 DEF ReceiptsAreSound
<1>22. QED BY <1>17, <1>19, <1>20, <1>21 DEF VaultInv

LEMMA VaultStep == VaultInv /\ [Next]_vars => VaultInv'
<1> SUFFICES ASSUME VaultInv, [Next]_vars PROVE VaultInv' OBVIOUS
<1>0. /\ TypeOK /\ FeedTypeOK /\ Settled(notes) /\ ScrollsOnTrack /\ RequestsAreSound /\ ReceiptsAreSound
      /\ page \in ImportPage /\ imports \in [Slots -> Import \cup {Null}] /\ receipts \subseteq VaultBatches
      /\ locked \subseteq Users
  BY DEF VaultInv, TypeOK, FeedTypeOK
\* What the page and its requests do alone leaves the feed as it is.
<1>f. ASSUME UNCHANGED <<now, notes, scroll, hides>>, locked' \subseteq Users
      PROVE  FeedTypeOK' /\ Settled(notes)' /\ ScrollsOnTrack'
  BY <1>0, <1>f DEF FeedTypeOK, Settled, ScrollsOnTrack
<1>1. ASSUME FeedNext(Batches \ VaultBatches), UNCHANGED <<page, imports, receipts>> PROVE VaultInv'
  <2>1. FeedInv BY <1>0 DEF FeedInv
  <2>2. Batches \ VaultBatches \in SUBSET Batches OBVIOUS
  <2>3. FeedKept(Batches \ VaultBatches) BY <1>1, <2>1, <2>2, FeedStep
  <2>4. /\ FeedTypeOK' /\ Settled(notes)' /\ ScrollsOnTrack' /\ locked' = locked BY <2>3 DEF FeedKept
  <2>5. \A b \in VaultBatches : ImportedRows(notes', b) = ImportedRows(notes, b)
    BY <2>3, VaultAssumption DEF FeedKept
  <2>6. TypeOK' BY <1>0, <1>1, <2>4 DEF TypeOK
  <2>7. RequestsAreSound' BY <1>0, <1>1, <2>4 DEF RequestsAreSound
  <2>8. ReceiptsAreSound' BY <1>0, <1>1, <2>5 DEF ReceiptsAreSound
  <2>9. QED BY <2>4, <2>6, <2>7, <2>8 DEF VaultInv
<1>2. ASSUME NEW w \in Slots, NEW b \in VaultBatches, Send(w, b) PROVE VaultInv'
  <2> DEFINE i == [batch |-> b, heard |-> TRUE, at |-> Null, ids |-> {}]
  <2>1. /\ ~page.busy /\ ~page.report /\ imports[w] = Null
        /\ page' = [page EXCEPT !.busy = TRUE, !.batch = b] /\ imports' = [imports EXCEPT ![w] = i]
        /\ UNCHANGED <<now, notes, locked, scroll, hides, receipts>>
    BY <1>2 DEF Send
  <2>2. i \in Import /\ i.batch = b /\ i.heard = TRUE /\ i.at = Null BY DEF Import
  <2> HIDE DEF i
  <2>3. /\ page' \in ImportPage /\ page'.busy = TRUE /\ page'.batch = b /\ page'.report = page.report
    BY <1>0, <2>1 DEF ImportPage
  <2>4. \A v \in Slots : imports'[v] = IF v = w THEN i ELSE imports[v] BY <1>0, <2>1
  <2>5. imports' \in [Slots -> Import \cup {Null}] BY <1>0, <2>1, <2>2
  <2>6. FeedTypeOK' /\ Settled(notes)' /\ ScrollsOnTrack' BY <1>0, <1>f, <2>1
  <2>7. TypeOK' BY <1>0, <2>1, <2>3, <2>5, <2>6 DEF TypeOK
  <2>8. \A v \in Slots : imports[v] # Null => ~imports[v].heard BY <1>0, <2>1 DEF RequestsAreSound
  <2>9. RequestsAreSound' BY <1>0, <2>1, <2>2, <2>3, <2>4, <2>8 DEF RequestsAreSound
  <2>10. ReceiptsAreSound' BY <1>0, <2>1, <2>3 DEF ReceiptsAreSound
  <2>11. QED BY <2>6, <2>7, <2>9, <2>10 DEF VaultInv
<1>3. CASE SelectAgain
  <2>1. /\ page.report /\ page' = [page EXCEPT !.batch = Null, !.report = FALSE]
        /\ UNCHANGED <<now, notes, locked, scroll, hides, imports, receipts>>
    BY <1>3 DEF SelectAgain
  <2>2. page' \in ImportPage /\ page'.report = FALSE /\ ~page.busy
    BY <1>0, <2>1 DEF ImportPage, ReceiptsAreSound
  <2>3. FeedTypeOK' /\ Settled(notes)' /\ ScrollsOnTrack' BY <1>0, <1>f, <2>1
  <2>4. TypeOK' BY <1>0, <2>1, <2>2, <2>3 DEF TypeOK
  <2>5. RequestsAreSound' BY <1>0, <2>1, <2>2 DEF RequestsAreSound
  <2>6. ReceiptsAreSound' BY <1>0, <2>1, <2>2 DEF ReceiptsAreSound
  <2>7. QED BY <2>3, <2>4, <2>5, <2>6 DEF VaultInv
<1>4. ASSUME NEW w \in Slots, LoseAnswer(w) PROVE VaultInv'
  <2> DEFINE i == [imports[w] EXCEPT !.heard = FALSE]
  <2>1. /\ imports[w] # Null /\ imports[w].heard
        /\ page' = [page EXCEPT !.busy = FALSE] /\ imports' = [imports EXCEPT ![w] = i]
        /\ UNCHANGED <<now, notes, locked, scroll, hides, receipts>>
    BY <1>4 DEF LoseAnswer
  <2>2. imports[w] \in Import BY <1>0, <2>1
  <2>3. /\ i \in Import /\ i.heard = FALSE /\ i.batch = imports[w].batch
        /\ i.at = imports[w].at /\ i.ids = imports[w].ids
    BY <2>2 DEF Import
  <2> HIDE DEF i
  <2>4. page' \in ImportPage /\ page'.busy = FALSE /\ page'.batch = page.batch /\ page'.report = page.report
    BY <1>0, <2>1 DEF ImportPage
  <2>5. \A v \in Slots : imports'[v] = IF v = w THEN i ELSE imports[v] BY <1>0, <2>1
  <2>6. imports' \in [Slots -> Import \cup {Null}] BY <1>0, <2>1, <2>3
  <2>7. FeedTypeOK' /\ Settled(notes)' /\ ScrollsOnTrack' BY <1>0, <1>f, <2>1
  <2>8. TypeOK' BY <1>0, <2>1, <2>4, <2>6, <2>7 DEF TypeOK
  <2>9. \A v \in Slots : imports'[v] # Null => ~imports'[v].heard
    BY <1>0, <2>1, <2>3, <2>5 DEF RequestsAreSound
  <2>10. i # Null BY <2>3, NullApart
  <2>11. RequestsAreSound' BY <1>0, <2>1, <2>3, <2>5, <2>9, <2>10 DEF RequestsAreSound
  <2>12. ReceiptsAreSound' BY <1>0, <2>1, <2>4 DEF ReceiptsAreSound
  <2>13. QED BY <2>7, <2>8, <2>11, <2>12 DEF VaultInv
<1>5. ASSUME NEW w \in Slots, AnswerReceipt(w) PROVE VaultInv'
  <2>1. /\ imports[w] # Null /\ imports[w].batch \in receipts
        /\ Answered(imports[w], TRUE) /\ imports' = [imports EXCEPT ![w] = Null]
        /\ UNCHANGED <<now, notes, locked, scroll, hides, receipts>>
    BY <1>5 DEF AnswerReceipt
  <2>2. /\ page' \in ImportPage /\ imports' \in [Slots -> Import \cup {Null}]
        /\ \A v \in Slots : imports'[v] = IF v = w THEN Null ELSE imports[v]
        /\ page'.batch = page.batch
        /\ \A v \in Slots : imports'[v] # Null /\ imports'[v].heard => page'.busy /\ page'.batch = imports'[v].batch
        /\ page'.report => \/ page.report /\ ~page.busy /\ ~page'.busy
                           \/ TRUE /\ ~page'.busy /\ page.batch = imports[w].batch
    BY <2>1, RequestEnds
  <2>3. FeedTypeOK' /\ Settled(notes)' /\ ScrollsOnTrack' BY <1>0, <1>f, <2>1
  <2>4. TypeOK' BY <1>0, <2>1, <2>2, <2>3 DEF TypeOK
  <2>5. RequestsAreSound' BY <1>0, <2>1, <2>2 DEF RequestsAreSound
  <2>6. ReceiptsAreSound' BY <1>0, <2>1, <2>2 DEF ReceiptsAreSound
  <2>7. QED BY <2>3, <2>4, <2>5, <2>6 DEF VaultInv
<1>6. ASSUME NEW w \in Slots, Fail(w) PROVE VaultInv'
  <2>1. /\ imports[w] # Null
        /\ locked' = IF imports[w].at # Null THEN locked \ {Importer} ELSE locked
        /\ Answered(imports[w], FALSE) /\ imports' = [imports EXCEPT ![w] = Null]
        /\ UNCHANGED <<now, notes, scroll, hides, receipts>>
    BY <1>6 DEF Fail
  <2>2. /\ page' \in ImportPage /\ imports' \in [Slots -> Import \cup {Null}]
        /\ \A v \in Slots : imports'[v] = IF v = w THEN Null ELSE imports[v]
        /\ page'.batch = page.batch
        /\ \A v \in Slots : imports'[v] # Null /\ imports'[v].heard => page'.busy /\ page'.batch = imports'[v].batch
        /\ page'.report => \/ page.report /\ ~page.busy /\ ~page'.busy
                           \/ FALSE /\ ~page'.busy /\ page.batch = imports[w].batch
    BY <2>1, RequestEnds
  <2>3. locked' \subseteq Users BY <1>0, <2>1
  <2>4. FeedTypeOK' /\ Settled(notes)' /\ ScrollsOnTrack' BY <1>f, <2>1, <2>3
  <2>5. TypeOK' BY <1>0, <2>1, <2>2, <2>4 DEF TypeOK
  <2>6. \A v \in Slots : imports'[v] # Null /\ imports'[v].at # Null => Importer \in locked'
    BY <1>0, <2>1, <2>2 DEF RequestsAreSound
  <2>7. RequestsAreSound' BY <1>0, <2>1, <2>2, <2>6 DEF RequestsAreSound
  <2>8. ReceiptsAreSound' BY <1>0, <2>1, <2>2 DEF ReceiptsAreSound
  <2>9. QED BY <2>4, <2>5, <2>7, <2>8 DEF VaultInv
<1>7. ASSUME NEW w \in Slots, NEW ids \in SUBSET Notes, TakeLock(w, ids) PROVE VaultInv'
  <2> DEFINE i == [imports[w] EXCEPT !.at = now, !.ids = ids]
  <2>1. /\ imports[w] # Null /\ imports[w].at = Null /\ Importer \notin locked
        /\ imports[w].batch \notin receipts /\ Cardinality(ids) = Files
        /\ \A n \in ids : Author[n] = Importer
        /\ locked' = locked \cup {Importer}
        /\ UNCHANGED <<now, notes, scroll, hides, page, receipts>>
    BY <1>7 DEF TakeLock
  <2>2. imports' = [imports EXCEPT ![w] = i] BY <1>7 DEF TakeLock
  <2>3. imports[w] \in Import /\ now \in Times BY <1>0, <2>1 DEF FeedTypeOK
  <2>4. /\ i \in Import /\ i.heard = imports[w].heard /\ i.batch = imports[w].batch /\ i.ids = ids
    BY <2>3 DEF Import
  <2> HIDE DEF i
  <2>5. \A v \in Slots : imports'[v] = IF v = w THEN i ELSE imports[v] BY <1>0, <2>2
  <2>6. imports' \in [Slots -> Import \cup {Null}] BY <1>0, <2>2, <2>4
  <2>7. locked' \subseteq Users BY <1>0, <2>1, VaultAssumption
  <2>8. FeedTypeOK' /\ Settled(notes)' /\ ScrollsOnTrack' BY <1>f, <2>1, <2>7
  <2>9. TypeOK' BY <1>0, <2>1, <2>6, <2>8 DEF TypeOK
  <2>10. \A v \in Slots : imports[v] # Null => imports[v].at = Null BY <1>0, <2>1 DEF RequestsAreSound
  <2>11. i # Null BY <2>4, NullApart
  <2>12. RequestsAreSound' BY <1>0, <2>1, <2>4, <2>5, <2>10, <2>11 DEF RequestsAreSound
  <2>13. ReceiptsAreSound' BY <1>0, <2>1 DEF ReceiptsAreSound
  <2>14. QED BY <2>8, <2>9, <2>12, <2>13 DEF VaultInv
<1>8. ASSUME NEW w \in Slots, Commit(w) PROVE VaultInv' BY <1>8, CommitStep
<1>9. CASE UNCHANGED vars
  <2>1. UNCHANGED <<now, notes, locked, scroll, hides, page, imports, receipts>> BY <1>9 DEF vars
  <2>2. FeedTypeOK' /\ Settled(notes)' /\ ScrollsOnTrack' BY <1>0, <1>f, <2>1
  <2>3. TypeOK' BY <1>0, <2>1, <2>2 DEF TypeOK
  <2>4. RequestsAreSound' BY <1>0, <2>1 DEF RequestsAreSound
  <2>5. ReceiptsAreSound' BY <1>0, <2>1 DEF ReceiptsAreSound
  <2>6. QED BY <2>2, <2>3, <2>4, <2>5 DEF VaultInv
<1>10. QED BY <1>1, <1>2, <1>3, <1>4, <1>5, <1>6, <1>7, <1>8, <1>9 DEF Next

----------------------------------------------------------------------------
(* What holds *)

\* However scrolls, publications, imports and lost answers interleave: ranks are sound,
\* batches stand together, and each request and scroll in flight knows what it read.
THEOREM VaultInvariant == Spec => []VaultInv
<1>1. Init => VaultInv BY VaultInit
<1>2. VaultInv /\ [Next]_vars => VaultInv' BY VaultStep
<1>3. QED BY <1>1, <1>2, PTL DEF Spec

\* Notes, ranks, scrolls, requests and receipts stay of their types.
THEOREM VaultTypeCorrect == Spec => []TypeOK
<1>1. VaultInv => TypeOK BY DEF VaultInv
<1>2. QED BY <1>1, VaultInvariant, PTL

\* The ranked notes of one import share a rank, whoever published them and whenever
\* they were ranked.
THEOREM BatchesAlwaysShareRank == Spec => []BatchSharesRank
<1>1. VaultInv => BatchSharesRank
  <2>1. SUFFICES ASSUME VaultInv, NEW n \in Notes, notes[n] # Null, notes[n].rank # Null,
                        NEW m \in RankedMates(notes, n)
                 PROVE  notes[m].rank = notes[n].rank
    BY DEF BatchSharesRank
  <2>2. Sound(notes) BY <2>1 DEF VaultInv, Settled
  <2>3. notes[m].rank # Null /\ m \in Mates(notes, n) BY <2>1 DEF RankedMates
  <2>4. CASE notes[n].batch = Null BY <2>3, <2>4 DEF Mates
  <2>5. CASE notes[n].batch # Null
    <3>1. m \in Notes /\ notes[m] # Null /\ notes[m].batch = notes[n].batch BY <2>3, <2>5 DEF Mates
    <3>2. QED BY <2>1, <2>2, <2>3, <2>5, <3>1 DEF Sound
  <2>6. QED BY <2>4, <2>5
<1>2. QED BY <1>1, VaultInvariant, PTL

\* What the two limited arms of the query return is the top of all that is listed past
\* the cursor.
THEOREM PagesAreTheTopOfTheFeed == Spec => []PageIsTopOfFeed
<1>1. VaultInv => PageIsTopOfFeed
  <2>1. SUFFICES ASSUME VaultInv, NEW r \in Readers, scroll[r] # Null, NEW s, s = scroll[r]
                 PROVE  Page(notes, s.tag, s.cursor) = Top({x \in Items(notes, s.tag) : Past(s.cursor, x)})
    BY DEF PageIsTopOfFeed
  <2>2. s \in Scroll /\ Settled(notes) BY <2>1 DEF VaultInv, TypeOK, FeedTypeOK
  <2>3. s.cursor \in Item \cup {Null} BY <2>2 DEF Scroll
  <2>4. QED BY <2>2, <2>3, PageIsTop DEF PastItems
<1>2. QED BY <1>1, VaultInvariant, PTL

\* Of what is listed all along a scroll nothing is repeated, and nothing is missing
\* when its last page is reached.
THEOREM ScrollsAreComplete == Spec => []ScrollIsComplete
<1>1. VaultInv => ScrollIsComplete BY DEF VaultInv, ScrollsOnTrack, OnTrack, ScrollIsComplete
<1>2. QED BY <1>1, VaultInvariant, PTL

\* An import is published whole and once or not at all, however often it is sent, and
\* the page reports it only when it is.
THEOREM ImportsHappenOnce == Spec => []ImportedOnce
<1>1. VaultInv => ImportedOnce
  <2>1. SUFFICES ASSUME VaultInv PROVE ImportedOnce OBVIOUS
  <2>2. ASSUME NEW b \in VaultBatches
        PROVE  Cardinality(ImportedRows(notes, b)) = IF b \in receipts THEN Files ELSE 0
    <3>1. CASE b \in receipts BY <2>1, <3>1 DEF VaultInv, ReceiptsAreSound
    <3>2. CASE b \notin receipts
      <4>1. ImportedRows(notes, b) = {} BY <2>1, <3>2 DEF VaultInv, ReceiptsAreSound
      <4>2. QED BY <3>2, <4>1, FS_EmptySet
    <3>3. QED BY <3>1, <3>2
  <2>3. page.report => page.batch \in receipts BY <2>1 DEF VaultInv, ReceiptsAreSound
  <2>4. QED BY <2>2, <2>3 DEF ImportedOnce, ImportedRows
<1>2. QED BY <1>1, VaultInvariant, PTL

\* A step that ranks notes of one published_at gives them the ranks they would have got
\* one after the other, as feedrank.go:43 promises, whatever it is that ranks: a
\* publication, a save of an import, a whole import, the start of a server.
THEOREM NotesRankedAsIfOneByOne == Spec => RanksAsIfOneByOne
<1>1. VaultInv /\ [Next]_vars => [RankedInTurn(notes, notes')]_notes
  <2>1. SUFFICES ASSUME VaultInv, Next, notes' # notes PROVE RankedInTurn(notes, notes') BY DEF vars
  <2>2. CASE FeedNext(Batches \ VaultBatches)
    <3>1. FeedInv BY <2>1 DEF FeedInv, VaultInv, TypeOK
    <3>2. Batches \ VaultBatches \in SUBSET Batches OBVIOUS
    <3>3. FeedKept(Batches \ VaultBatches) BY <2>2, <3>1, <3>2, FeedStep
    <3>4. QED BY <3>3 DEF FeedKept
  <2>3. ASSUME NEW w \in Slots, Commit(w) PROVE RankedInTurn(notes, notes') BY <2>1, <2>3, CommitStep
  <2>4. QED BY <2>1, <2>2, <2>3 DEF Next, Send, SelectAgain, LoseAnswer, AnswerReceipt, Fail, TakeLock
<1>2. QED BY <1>1, VaultInvariant, PTL DEF Spec, RanksAsIfOneByOne
=============================================================================
