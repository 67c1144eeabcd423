----------------------------- MODULE LockOrder -----------------------------
(***************************************************************************)
(* The locks that the handlers' transactions take in PostgreSQL, and in    *)
(* which order.  A transaction is the list of its statements; a statement  *)
(* is the set of locks it takes, one after the other in whatever order the *)
(* planner chose.  Locks are kept until the transaction ends.  What the    *)
(* statements write is left out, and so are the waits of two inserts of    *)
(* one slug and the locks on users, which a rename takes alone, and those  *)
(* of requests that are one statement on one row of another table.         *)
(***************************************************************************)
EXTENDS Integers, Sequences, FiniteSets

CONSTANTS
    Transactions,   \* backends at work at a time
    Rows, NewRows,  \* ids of notes in the table, and of notes about to be inserted
    RowAuthor,      \* their authors
    Cites, Stubs,   \* links between them: <<source, target>>; those still unresolved
    None

ASSUME LockAssumption ==
    /\ Rows \cup NewRows \subseteq Int /\ IsFiniteSet(Rows) /\ IsFiniteSet(NewRows)
    /\ RowAuthor \in [Rows \cup NewRows -> Int]
    /\ Cites \subseteq (Rows \cup NewRows) \X (Rows \cup NewRows) /\ Stubs \subseteq Cites

VARIABLE tx

LockAuthors == {RowAuthor[n] : n \in Rows \cup NewRows}

----------------------------------------------------------------------------
(* Locks *)

Exclusive(what) == [on |-> what, mode |-> "update"]
LockAuthor(a) == Exclusive(<<"author", a>>)
SpaceRow(a) == Exclusive(<<"space", a>>)
LinkRow(e) == Exclusive(<<"link", e>>)
ForUpdate(n) == Exclusive(<<"note", n>>)
\* An UPDATE that leaves the keys alone lets foreign keys refer to the row.
Update(n) == [on |-> <<"note", n>>, mode |-> "no key update"]
KeyShare(n) == [on |-> <<"note", n>>, mode |-> "key share"]

Conflict(l, k) ==
    /\ l.on = k.on
    /\ {l.mode, k.mode} \notin {{"key share"}, {"key share", "no key update"}}

Holders(t, l) == {u \in Transactions \ {t} : tx[u] # None /\ \E k \in tx[u].held : Conflict(l, k)}

----------------------------------------------------------------------------
(* The statements of each handler *)

\* recomputeLinks and backfillStubLinks: the old links go, the foreign key of
\* every new one shares its target, and the links that waited for n are set.
Rewired(n) ==
    <<{LinkRow(e) : e \in {e \in Cites : e[1] = n}},
      {KeyShare(e[2]) : e \in {e \in Cites \ Stubs : e[1] = n}},
      {LinkRow(e) : e \in {e \in Stubs : e[2] = n}}>>

\* feedrank.Assign takes the lock of every author it ranks, in one order.
AssignLocks(as) == [i \in DOMAIN as |-> {LockAuthor(as[i])}]

Published(n) == <<{ForUpdate(n)}>> \o AssignLocks(<<RowAuthor[n]>>) \o Rewired(n)

\* The statements of several notes, one note after the other.
EachRewired(ns) == [i \in 1 .. 3 * Len(ns) |-> Rewired(ns[(i + 2) \div 3])[((i + 2) % 3) + 1]]
EachPublished(ns) == [i \in 1 .. 5 * Len(ns) |-> Published(ns[(i + 4) \div 5])[((i + 4) % 5) + 1]]

\* A transaction of these authors, at its start.
Plan(as, ranks, steps) ==
    [authors |-> as, ranks |-> ranks, left |-> steps, wants |-> None, held |-> {}]

Ranking(a, steps) == Plan({a}, TRUE, <<{LockAuthor(a)}>> \o steps)
Unranked(a, steps) == Plan({a}, FALSE, steps)

\* Mutant of PublishNote: the author lock is left to Assign.
PublishNoteLate(n) == Plan({RowAuthor[n]}, TRUE, Published(n))

PublishNote(n) == Ranking(RowAuthor[n], Published(n))
SaveNote(n) == Ranking(RowAuthor[n], Rewired(n))
ImportVault(a, files) == Ranking(a, EachRewired(files))

\* The children are locked in the order of their ids, then the chosen published
\* in the order of the blocks.
PublishSpace(a, children, chosen) ==
    Ranking(a, <<{SpaceRow(a)}>> \o [i \in DOMAIN children |-> {ForUpdate(children[i])}]
                 \o EachPublished(chosen))

ManagePublish(a, S) == Ranking(a, <<{ForUpdate(n) : n \in S}>>)
ManageOther(a, S) == Unranked(a, <<{ForUpdate(n) : n \in S}>>)

\* A draft is saved with its links, a published note beside its text.
Autosave(n, private) ==
    Unranked(RowAuthor[n], <<{ForUpdate(n)}>> \o IF private THEN Rewired(n) ELSE << >>)

PutSpace(a) == Unranked(a, <<{SpaceRow(a)}>>)
Mark(a, S) == Unranked(a, <<{Update(n) : n \in S}>>)

\* A deleted row takes its links with it, and those to it become stubs.
SweepDrafts(a, S) ==
    Unranked(a, <<{ForUpdate(n) : n \in S}, {LinkRow(e) : e \in {e \in Cites : {e[1], e[2]} \cap S # {}}}>>)

RankLeftovers(S, authors) ==
    Plan({RowAuthor[n] : n \in S}, TRUE, AssignLocks(authors) \o <<{Update(n) : n \in S}>>)

----------------------------------------------------------------------------
LockInit == tx = [t \in Transactions |-> None]

Start(t, plan) == tx[t] = None /\ tx' = [tx EXCEPT ![t] = plan]

\* The statement at work: those before it have all their locks.
AtWork(x) == {i \in DOMAIN x.left : x.left[i] # {} /\ \A j \in 1 .. i - 1 : x.left[j] = {}}

\* It has lock l of statement i.
Given(x, i, l) == [x EXCEPT !.held = @ \cup {l}, !.wants = None, !.left[i] = @ \ {l}]

\* It gets a lock that nobody's conflicts with.
Take(t) ==
    /\ tx[t] # None
    /\ \E i \in AtWork(tx[t]) : \E l \in tx[t].left[i] :
         /\ tx[t].wants \in {None, l}
         /\ Holders(t, l) = {}
         /\ tx' = [tx EXCEPT ![t] = Given(@, i, l)]

\* It comes to one it has to wait for.
Wait(t) ==
    /\ tx[t] # None /\ tx[t].wants = None
    /\ \E i \in AtWork(tx[t]) : \E l \in tx[t].left[i] :
         Holders(t, l) # {} /\ tx' = [tx EXCEPT ![t] = [@ EXCEPT !.wants = l]]

\* COMMIT, or ROLLBACK wherever it is: refused, given up by its client, or the
\* victim that PostgreSQL picks in a deadlock.
End(t) == tx[t] # None /\ tx' = [tx EXCEPT ![t] = None]

OwnRows(a) == {n \in Rows : RowAuthor[n] = a}
OwnNew(a) == {n \in NewRows : RowAuthor[n] = a}
Some(S) == (SUBSET S) \ {{}}
InAnyOrder(S) == {s \in [1 .. Cardinality(S) -> S] : \A x \in S : \E i \in DOMAIN s : s[i] = x}
Ordered(S) == {s \in InAnyOrder(S) : \A i, j \in DOMAIN s : i < j => s[i] < s[j]}

LockNext == \E t \in Transactions :
    \/ \E n \in Rows : Start(t, PublishNote(n))
    \/ \E n \in NewRows : Start(t, SaveNote(n))
    \/ \E a \in LockAuthors : \E files \in InAnyOrder(OwnNew(a)) : Start(t, ImportVault(a, files))
    \/ \E a \in LockAuthors : \E S \in SUBSET OwnRows(a) : \E T \in SUBSET S :
          \E children \in Ordered(S), chosen \in InAnyOrder(T) :
              Start(t, PublishSpace(a, children, chosen))
    \/ \E a \in LockAuthors : \E S \in Some(OwnRows(a)) : Start(t, ManagePublish(a, S))
    \/ \E a \in LockAuthors : \E S \in Some(OwnRows(a)) : Start(t, ManageOther(a, S))
    \/ \E n \in Rows, private \in BOOLEAN : Start(t, Autosave(n, private))
    \/ \E a \in LockAuthors : Start(t, PutSpace(a))
    \/ \E a \in LockAuthors : \E S \in Some(OwnRows(a)) : Start(t, Mark(a, S))
    \/ \E a \in LockAuthors : \E S \in Some(OwnRows(a)) : Start(t, SweepDrafts(a, S))
    \/ \E S \in Some(Rows) : \E authors \in Ordered({RowAuthor[n] : n \in S}) :
          Start(t, RankLeftovers(S, authors))
    \/ Take(t)
    \/ Wait(t)
    \/ End(t)

LockSpec == LockInit /\ [][LockNext]_tx

----------------------------------------------------------------------------
(* What must hold *)

Lock == {LockAuthor(a) : a \in LockAuthors} \cup {SpaceRow(a) : a \in LockAuthors}
        \cup {LinkRow(e) : e \in Cites}
        \cup UNION {{ForUpdate(n), Update(n), KeyShare(n)} : n \in Rows \cup NewRows}

LockTypeOK ==
    \A t \in Transactions : tx[t] # None =>
        /\ tx[t].authors \subseteq LockAuthors /\ tx[t].ranks \in BOOLEAN
        /\ \A i \in DOMAIN tx[t].left : tx[t].left[i] \subseteq Lock
        /\ tx[t].held \subseteq Lock /\ tx[t].wants \in Lock \cup {None}

RankingFor(t, a) == tx[t] # None /\ tx[t].ranks /\ a \in tx[t].authors

\* The lock order of feedrank.LockAuthor and the tests of lock_order_test.go:
\* however the notes of an author link each other, the transactions that rank
\* her notes, start-up's included, never wait for each other in a circle.
RankingNeverDeadlocks ==
    \A a \in LockAuthors : \A S \in Some({t \in Transactions : RankingFor(t, a)}) :
        \E t \in S : tx[t].wants = None \/ Holders(t, tx[t].wants) \cap S = {}
=============================================================================
