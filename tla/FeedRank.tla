------------------------------ MODULE FeedRank ------------------------------
(***************************************************************************)
(* feedrank.go: the rank a note gets when it is first published.  A table  *)
(* holds what the recommended feed reads of each row of notes; Assign is   *)
(* the one statement assignSQL, and OneByOne what its comments promise.    *)
(* Ids are numbers because uuids are ordered, and break ties.              *)
(***************************************************************************)
EXTENDS Integers, FiniteSets

CONSTANTS
    Notes, Batches,   \* ids, of notes and of imports
    Users, Author,    \* of each note
    MaxTime,          \* bound: the clock
    BurstStep, BurstWindow, BatchMin,
    Null

Times == 0..MaxTime
\* The least: of the last note of a burst at time 0.
Ranks == (BurstStep * (1 - Cardinality(Notes))) .. MaxTime

\* shown: neither hidden nor deleted, and its reach is 'public'.
Row == [batch : Batches \cup {Null}, published : Times \cup {Null}, shown : BOOLEAN,
        first : Times \cup {Null}, rank : Ranks \cup {Null}]

ASSUME FeedAssumption ==
    /\ IsFiniteSet(Notes)
    /\ Notes \cup Batches \subseteq Nat
    /\ Notes \cap Batches = {}
    /\ Author \in [Notes -> Users]
    /\ MaxTime \in Nat /\ BurstStep \in Nat /\ BurstWindow \in Nat /\ BatchMin \in Nat

----------------------------------------------------------------------------
(* Imports *)

\* The notes of n's import.
Mates(table, n) ==
    IF table[n].batch = Null THEN {n}
    ELSE {m \in Notes : table[m] # Null /\ table[m].batch = table[n].batch /\ Author[m] = Author[n]}

\* sizes: an import of at least BatchMin notes is one card, those hidden since included.
IsLarge(table, n) == table[n].batch # Null /\ Cardinality(Mates(table, n)) >= BatchMin

RankedMates(table, n) == {m \in Mates(table, n) : table[m].rank # Null}

\* Mutant of InheritedRank: each note of an import is ranked for itself.
InheritedRankNone(table, n) == Null

\* The rank its import has already.
InheritedRank(table, n) ==
    LET R == {table[m].rank : m \in RankedMates(table, n)}
    IN IF table[n].batch = Null \/ R = {} THEN Null ELSE CHOOSE r \in R : \A q \in R : q <= r

----------------------------------------------------------------------------
(* assignSQL *)

Targets(table, ids) == {n \in ids : table[n].published # Null /\ table[n].rank = Null}

Earlier(f, m, n) == f[m] < f[n] \/ (f[m] = f[n] /\ m < n)

\* Mutant of Prior: hidden notes are not counted.
PriorShown(table, T, a) ==
    {m \in Notes : /\ Author[m] = a /\ table[m] # Null /\ table[m].first # Null /\ table[m].shown
                   /\ \E n \in T : table[m].first >= table[n].published - BurstWindow
                   /\ \E n \in T : table[m].first <= table[n].published}

\* The author's ranked notes in the span that the targets T need, hidden ones too.
Prior(table, T, a) ==
    {m \in Notes : /\ Author[m] = a /\ table[m] # Null /\ table[m].first # Null
                   /\ \E n \in T : table[m].first >= table[n].published - BurstWindow
                   /\ \E n \in T : table[m].first <= table[n].published}

\* Weights pw and tw: a large import counts once, on its earliest note there.
CountsAsPrior(table, P, m) ==
    LET at == [k \in P |-> table[k].first]
    IN IsLarge(table, m) => \A k \in P \cap Mates(table, m) : ~Earlier(at, k, m)
CountsAsTarget(table, T, n) ==
    LET at == [k \in T |-> table[k].published]
    IN IsLarge(table, n) => /\ InheritedRank(table, n) = Null
                            /\ \A k \in T \cap Mates(table, n) : ~Earlier(at, k, n)

\* Mutant of Ahead: the tally includes the note itself.
AheadOrSelf(T, at, n) == {k \in T : (k = n \/ Earlier(at, k, n)) /\ at[k] >= at[n] - BurstWindow}

\* The targets before n by (published_at, id), in its window.
Ahead(T, at, n) == {k \in T : Earlier(at, k, n) /\ at[k] >= at[n] - BurstWindow}

Computed(table, T, n) ==
    LET at == [k \in T |-> table[k].published]
        P == Prior(table, T, Author[n])
        before == {m \in P : /\ table[m].first \in (at[n] - BurstWindow) .. at[n]
                             /\ CountsAsPrior(table, P, m)}
        ahead == {k \in Ahead(T, at, n) : CountsAsTarget(table, T, k)}
    IN at[n] - BurstStep * (Cardinality(before) + Cardinality(ahead))

\* Targets of one import share a rank, the import's or that of its earliest target.
RankOf(table, all, n) ==
    LET T == {k \in all : Author[k] = Author[n]}
        at == [k \in T |-> table[k].published]
        unit == T \cap Mates(table, n)
    IN IF InheritedRank(table, n) # Null THEN InheritedRank(table, n)
       ELSE Computed(table, T, CHOOSE k \in unit : \A l \in unit : ~Earlier(at, l, k))

\* The table after Assign(ids).
Assign(table, ids) ==
    LET all == Targets(table, ids)
    IN [n \in Notes |-> IF n \in all
                        THEN [table[n] EXCEPT !.rank = RankOf(table, all, n), !.first = table[n].published]
                        ELSE table[n]]

----------------------------------------------------------------------------
(* What Assign promises *)

\* The card in the feed that a note is, or is on.
CardOf(table, n) == IF IsLarge(table, n) THEN table[n].batch ELSE n

\* The cards of n's author first published in the window before n.
Burst(table, n) ==
    {CardOf(table, m) : m \in
        {k \in Notes : /\ Author[k] = Author[n] /\ table[k] # Null /\ table[k].first # Null
                       /\ table[k].first \in (table[n].published - BurstWindow) .. table[n].published}}

RankOne(table, n) ==
    [table EXCEPT ![n].first = table[n].published,
                  ![n].rank = IF RankedMates(table, n) # {}
                              THEN table[CHOOSE m \in RankedMates(table, n) : TRUE].rank
                              ELSE table[n].published - BurstStep * Cardinality(Burst(table, n))]

Greatest(S) == CHOOSE n \in S : \A m \in S : m <= n

\* Ranking ids, all published at one time, one after the other.
OneByOne(table, ids) ==
    LET after[S \in SUBSET ids] ==
            IF S = {} THEN table ELSE RankOne(after[S \ {Greatest(S)}], Greatest(S))
    IN after[ids]
=============================================================================
