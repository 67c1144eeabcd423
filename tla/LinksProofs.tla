----------------------------- MODULE LinksProofs -----------------------------
(* Wiki links, for any number of users, notes and saves in flight.         *)
EXTENDS Links, TLAPS

----------------------------------------------------------------------------
(* The inductive invariant *)

\* Unique indexes: users.handle_ci, and notes (author_id, slug_ci) with what saves in
\* flight have written.
NamesAreUnique ==
    /\ \A u, v \in Users : handle[u] = handle[v] => u = v
    /\ \A m, n \in Notes : Author[m] = Author[n] /\ rows[m] # Null /\ rows[n] # Null
                           /\ rows[m].slug = rows[n].slug => m = n
    /\ \A w \in Writing, m \in Notes :
          Author[m] = Author[saves[w].note] /\ rows[m] # Null
          /\ rows[m].slug = saves[w].row.slug => m = saves[w].note

\* Row locks, and slugs, of two saves in flight.
WritersDiffer ==
    \A v, w \in Writing : Author[saves[v].note] = Author[saves[w].note] =>
        /\ saves[v].note = saves[w].note => v = w
        /\ saves[v].row.slug = saves[w].row.slug => v = w

\* Links of one note into one vault by one slug lead to one note, or all wait.
Twins(edges) == \A e, f \in edges : e.user = f.user /\ e.ref.slug = f.ref.slug => e.target = f.target

\* Stored edges come from a body with links, and go to notes in their vaults.
EdgesAreSound ==
    \A n \in Notes :
        /\ Twins(links[n])
        /\ \A e \in links[n] :
              /\ rows[n] # Null /\ rows[n].body # {}
              /\ e.target # Null => Author[e.target] = e.user /\ rows[e.target] # Null

\* What a save in flight knows of the edges that it inserted; and of them and of the
\* stubs that it resolves, when nothing was committed since it read.
RightEdges(s) ==
    /\ Twins(s.edges)
    /\ \A e \in s.edges :
          /\ s.row.body # {}
          /\ e.target # Null =>
                /\ Author[e.target] = e.user
                /\ e.target = s.note \/ rows[e.target] # Null
NoTargetYet(s) ==
    \A e \in s.edges : s.alone /\ e.target = Null /\ e.user # Null =>
        /\ Author[s.note] = e.user => s.row.slug # e.ref.slug
        /\ \A m \in Notes \ {s.note} :
              Author[m] = e.user /\ rows[m] # Null => rows[m].slug # e.ref.slug
AllStubs(s) ==
    s.alone /\ s.phase = "backfilled" =>
        \A m \in Notes \ {s.note} :
            (\E e \in links[m] : IsStub(e, Author[s.note], s.row.slug)) => m \in s.stubs

SaveInv(w) ==
    /\ saves[w].row # Null
    /\ saves[w].note \notin saves[w].stubs
    /\ RightEdges(saves[w])
    /\ NoTargetYet(saves[w])
    /\ AllStubs(saves[w])

\* The stubs to resolve are looked up last.
StubsComeLast ==
    \A w \in Requests : saves[w] # Null /\ saves[w].phase # "backfilled" => saves[w].stubs = {}

LinksInv ==
    /\ TypeOK
    /\ StubsComeLast
    /\ NamesAreUnique
    /\ WritersDiffer
    /\ EdgesAreSound
    /\ \A w \in Writing : SaveInv(w)

----------------------------------------------------------------------------
(* Looking up *)

LEMMA OrNullIn == ASSUME NEW S, S # {} PROVE OrNull(S) \in S
BY DEF OrNull

\* Answering finds a note with the name asked for, and does whenever there is one.
LEMMA AnsweringFinds ==
    ASSUME NEW table, NEW user, NEW slug
    PROVE  LET found == Answering(table, user, slug) IN
           /\ found \in Notes \cup {Null}
           /\ found # Null => Author[found] = user /\ table[found] # Null /\ table[found].slug = slug
           /\ \A n \in Notes : Author[n] = user /\ table[n] # Null /\ table[n].slug = slug => found # Null
<1> DEFINE S == {n \in Notes : Author[n] = user /\ table[n] # Null /\ table[n].slug = slug}
<1>1. Answering(table, user, slug) = OrNull(S)
  BY DEF Answering
<1>2. CASE S = {}
  <2>1. OrNull(S) = Null
    BY <1>2 DEF OrNull
  <2> QED
    BY <1>1, <1>2, <2>1
<1>3. CASE S # {}
  <2>1. OrNull(S) \in S
    BY <1>3, OrNullIn
  <2>2. OrNull(S) # Null
    BY <2>1, NullAssumption
  <2> QED
    BY <1>1, <2>1, <2>2
<1> QED
  BY <1>2, <1>3

LEMMA OwnerFinds ==
    ASSUME NEW h
    PROVE  /\ Owner(h) \in Users \cup {Null}
           /\ \A u \in Users : handle[u] = h => Owner(h) \in Users /\ handle[Owner(h)] = h
<1> DEFINE S == {u \in Users : handle[u] = h}
<1>1. Owner(h) = OrNull(S)
  BY DEF Owner
<1>2. CASE S = {}
  <2>1. OrNull(S) = Null
    BY <1>2 DEF OrNull
  <2> QED
    BY <1>1, <1>2, <2>1
<1>3. CASE S # {}
  BY <1>1, <1>3, OrNullIn
<1> QED
  BY <1>2, <1>3

\* recomputeLinks makes an edge into the vault of the owner it looked up, to a note
\* that was in the table.
LEMMA EdgeOfLooksUp ==
    ASSUME NEW ref \in Link, NEW vault, NEW table
    PROVE  LET edge == EdgeOf(ref, vault, table) IN
           /\ edge \in Edge
           /\ edge.ref = ref
           /\ edge.target = Answering(table, edge.user, edge.ref.slug)
<1> DEFINE name == IF ref.user = Null THEN vault ELSE ref.user
           edge == EdgeOf(ref, vault, table)
<1>1. edge = [ref |-> ref, user |-> Owner(name), target |-> Answering(table, Owner(name), ref.slug)]
  BY DEF EdgeOf
<1>2. Owner(name) \in Users \cup {Null}
  BY OwnerFinds
<1>3. Answering(table, Owner(name), ref.slug) \in Notes \cup {Null}
  BY AnsweringFinds
<1> HIDE DEF name
<1> QED
  BY <1>1, <1>2, <1>3 DEF Edge

\* So do all edges of a body, looked up in one statement: twins find the same note.
LEMMA EdgesOfLookUp ==
    ASSUME NEW body \in SUBSET Link, NEW vault, NEW table
    PROVE  LET edges == EdgesOf(body, vault, table) IN
           /\ edges \subseteq Edge
           /\ \A e \in edges : body # {} /\ e.target = Answering(table, e.user, e.ref.slug)
           /\ Twins(edges)
<1> DEFINE edges == EdgesOf(body, vault, table)
<1>1. \A e \in edges : \E ref \in body : e = EdgeOf(ref, vault, table)
  BY DEF EdgesOf
<1>2. \A e \in edges : e \in Edge /\ body # {} /\ e.target = Answering(table, e.user, e.ref.slug)
  BY <1>1, EdgeOfLooksUp
<1> HIDE DEF edges
<1>3. Twins(edges)
  BY <1>2, Zenon DEF Twins
<1> QED
  BY <1>2, <1>3 DEF edges

\* What backfilling makes of the edges of a note, and what the sweep does.
SetOfEdges(edges) == edges \subseteq Edge
ResolvedTo(edges, now, n, slug) ==
    /\ \A e \in now : \E f \in edges :
          /\ e.ref = f.ref /\ e.user = f.user
          /\ IF IsStub(f, Author[n], slug) THEN e.target = n ELSE e = f
    /\ \A f \in edges : IsStub(f, Author[n], slug) \/ f \in now
    /\ Twins(edges) => Twins(now)
UnresolvedTo(edges, now, n) ==
    /\ \A e \in now : \E f \in edges :
          /\ e.ref = f.ref /\ e.user = f.user
          /\ IF f.target = n THEN e.target = Null ELSE e = f
    /\ \A f \in edges : f.target = n \/ f \in now
    /\ Twins(edges) => Twins(now)

LEMMA ResolvedEdges ==
    ASSUME NEW edges, SetOfEdges(edges), NEW n \in Notes, NEW slug, NEW now, now = Resolved(edges, n, slug)
    PROVE  SetOfEdges(now) /\ ResolvedTo(edges, now, n, slug)
<1> USE DEF SetOfEdges
<1> DEFINE Changed(f) == [f EXCEPT !.target = n]
           After(f) == IF IsStub(f, Author[n], slug) THEN Changed(f) ELSE f
<1>1. now = {After(f) : f \in edges}
  BY DEF Resolved
<1>2. \A f \in edges : f \in Edge /\ Changed(f) \in Edge /\ Changed(f).ref = f.ref
                       /\ Changed(f).user = f.user /\ Changed(f).target = n
  BY DEF Edge
<1>3. \A f \in edges : f \in Edge /\ After(f) \in Edge /\ After(f).ref = f.ref /\ After(f).user = f.user
                       /\ IF IsStub(f, Author[n], slug) THEN After(f).target = n ELSE After(f) = f
  <2> HIDE DEF Changed
  <2> QED BY <1>2
<1> HIDE DEF After
<1>4. now \subseteq Edge /\ \A e \in now : \E f \in edges :
          /\ e.ref = f.ref /\ e.user = f.user
          /\ IF IsStub(f, Author[n], slug) THEN e.target = n ELSE e = f
  BY <1>1, <1>3
<1>5. \A f \in edges : IsStub(f, Author[n], slug) \/ f \in now
  BY <1>1, <1>3
<1>6. ASSUME Twins(edges) PROVE Twins(now)
  <2> SUFFICES ASSUME NEW e \in now, NEW g \in now, e.user = g.user, e.ref.slug = g.ref.slug
               PROVE  e.target = g.target
    BY DEF Twins
  <2>1. PICK x \in edges : /\ e.ref = x.ref /\ e.user = x.user
                           /\ IF IsStub(x, Author[n], slug) THEN e.target = n ELSE e = x
    BY <1>4
  <2>2. PICK y \in edges : /\ g.ref = y.ref /\ g.user = y.user
                           /\ IF IsStub(y, Author[n], slug) THEN g.target = n ELSE g = y
    BY <1>4
  <2>3. x.target = y.target /\ x.user = y.user /\ x.ref.slug = y.ref.slug
    BY <1>6, <2>1, <2>2 DEF Twins
  <2>4. IsStub(x, Author[n], slug) <=> IsStub(y, Author[n], slug)
    BY <2>3 DEF IsStub
  <2> QED
    BY <2>1, <2>2, <2>3, <2>4
<1> QED
  BY <1>4, <1>5, <1>6 DEF ResolvedTo

LEMMA UnresolvedEdges ==
    ASSUME NEW edges, SetOfEdges(edges), NEW n \in Notes, NEW now, now = Unresolved(edges, n)
    PROVE  SetOfEdges(now) /\ UnresolvedTo(edges, now, n)
<1> USE DEF SetOfEdges
<1> DEFINE Changed(f) == [f EXCEPT !.target = Null]
           After(f) == IF f.target = n THEN Changed(f) ELSE f
<1>1. now = {After(f) : f \in edges}
  BY DEF Unresolved
<1>2. \A f \in edges : f \in Edge /\ Changed(f) \in Edge /\ Changed(f).ref = f.ref
                       /\ Changed(f).user = f.user /\ Changed(f).target = Null
  BY DEF Edge
<1>3. \A f \in edges : f \in Edge /\ After(f) \in Edge /\ After(f).ref = f.ref /\ After(f).user = f.user
                       /\ IF f.target = n THEN After(f).target = Null ELSE After(f) = f
  <2> HIDE DEF Changed
  <2> QED BY <1>2
<1> HIDE DEF After
<1>4. now \subseteq Edge /\ \A e \in now : \E f \in edges :
          /\ e.ref = f.ref /\ e.user = f.user
          /\ IF f.target = n THEN e.target = Null ELSE e = f
  BY <1>1, <1>3
<1>5. \A f \in edges : f.target = n \/ f \in now
  BY <1>1, <1>3
<1>6. ASSUME Twins(edges) PROVE Twins(now)
  BY <1>4, <1>6 DEF Twins
<1> QED
  BY <1>4, <1>5, <1>6 DEF UnresolvedTo

----------------------------------------------------------------------------
(* Steps that leave rows, edges and most saves alone *)

LEMMA WritingSave ==
    ASSUME TypeOK, NEW w \in Writing
    PROVE  /\ w \in Requests
           /\ saves[w] \in Save
           /\ saves[w].note \in Notes
           /\ saves[w].stubs \subseteq Notes
BY DEF Writing, TypeOK, Save

LEMMA SaveInvKept ==
    ASSUME NEW w, SaveInv(w), saves'[w] = saves[w], UNCHANGED <<rows, links>>
    PROVE  SaveInv(w)'
BY DEF SaveInv, RightEdges, NoTargetYet, AllStubs

\* Saves end, or have read and not written.
LEMMA FewerWriters ==
    ASSUME LinksInv, TypeOK', StubsComeLast', UNCHANGED <<handle, rows, links>>,
           \A w \in Writing' : w \in Writing /\ saves'[w] = saves[w]
    PROVE  LinksInv'
<1>1. NamesAreUnique'
  BY DEF LinksInv, NamesAreUnique
<1>2. WritersDiffer'
  BY DEF LinksInv, WritersDiffer
<1>3. EdgesAreSound'
  BY DEF LinksInv, EdgesAreSound
<1>4. ASSUME NEW w \in Writing'
      PROVE  SaveInv(w)'
  <2>1. SaveInv(w) /\ saves'[w] = saves[w]
    BY <1>4 DEF LinksInv
  <2> QED
    BY <2>1, SaveInvKept
<1> QED
  BY <1>1, <1>2, <1>3, <1>4 DEF LinksInv

LEMMA BeginSaveKeeps ==
    ASSUME LinksInv, NEW w \in Requests, NEW n \in Notes, BeginSave(w, n)
    PROVE  LinksInv'
<1> DEFINE begun == [phase |-> "read", note |-> n, row |-> Null, handle |-> handle[Author[n]],
                     edges |-> {}, stubs |-> {}, alone |-> TRUE]
<1>1. begun \in Save
  BY LinksAssumption DEF LinksInv, TypeOK, Save
<1>2. saves' = [saves EXCEPT ![w] = begun] /\ saves[w] = Null /\ UNCHANGED <<handle, rows, links>>
  BY DEF BeginSave
<1>3. begun.phase = "read"
  OBVIOUS
<1> HIDE DEF begun
<1>4. TypeOK'
  BY <1>1, <1>2 DEF LinksInv, TypeOK
<1>5. \A v \in Writing' : v \in Writing /\ saves'[v] = saves[v]
  BY <1>2, <1>3 DEF LinksInv, TypeOK, Writing
<1>6. StubsComeLast'
  BY <1>2 DEF LinksInv, TypeOK, StubsComeLast, begun
<1> QED
  BY <1>2, <1>4, <1>5, <1>6, FewerWriters

LEMMA FailsKeeps ==
    ASSUME LinksInv, NEW w \in Requests, Fails(w)
    PROVE  LinksInv'
<1>1. TypeOK'
  BY DEF LinksInv, TypeOK, Fails
<1>2. \A v \in Writing' : v \in Writing /\ saves'[v] = saves[v]
  BY DEF LinksInv, TypeOK, Writing, Fails
<1>3. StubsComeLast'
  BY DEF LinksInv, TypeOK, StubsComeLast, Fails
<1> QED
  BY <1>1, <1>2, <1>3, FewerWriters DEF Fails

LEMMA RenameKeeps ==
    ASSUME LinksInv, NEW u \in Users, NEW h \in Handles, PostHandleSetting(u, h)
    PROVE  LinksInv'
<1>1. TypeOK'
  BY DEF LinksInv, TypeOK, PostHandleSetting
<1>2. \A v, x \in Users : handle'[v] = handle'[x] => v = x
  BY DEF LinksInv, TypeOK, NamesAreUnique, PostHandleSetting, Free
<1>3. Writing' = Writing /\ UNCHANGED <<rows, links, saves>>
  BY DEF PostHandleSetting, Writing
<1>4. NamesAreUnique'
  BY <1>2, <1>3 DEF LinksInv, NamesAreUnique
<1>5. WritersDiffer' /\ EdgesAreSound'
  BY <1>3 DEF LinksInv, WritersDiffer, EdgesAreSound
<1>6. ASSUME NEW w \in Writing'
      PROVE  SaveInv(w)'
  BY <1>3, <1>6, SaveInvKept DEF LinksInv
<1>7. StubsComeLast'
  BY <1>3 DEF LinksInv, StubsComeLast
<1> QED
  BY <1>1, <1>4, <1>5, <1>6, <1>7 DEF LinksInv
\* The links of a body are looked up and its edges inserted: the save has the row, and the
\* slug, for itself from here on.
LEMMA RelinkKeeps ==
    ASSUME LinksInv, NEW w \in Requests, NEW row \in Row, Relink(w, row)
    PROVE  LinksInv'
<1> DEFINE s == saves[w]
           table == [rows EXCEPT ![s.note] = row]
           edges == EdgesOf(row.body, s.handle, table)
           linked == [s EXCEPT !.phase = "linked", !.row = row, !.edges = edges]
<1>1. /\ s # Null /\ s.phase = "read"
      /\ SlugFree(s.note, row.slug) /\ ~Held(s.note, w)
      /\ UNCHANGED <<handle, rows, links>>
  BY DEF Relink
<1>2. TypeOK /\ s \in Save /\ s.note \in Notes
  BY <1>1 DEF LinksInv, TypeOK, Save
<1>3. row # Null
  BY NullAssumption
<1>4. saves' = [saves EXCEPT ![w] = linked]
  BY <1>2 DEF Save, TypeOK, Relink
<1>5. \A m \in Notes : table[m] = IF m = s.note THEN row ELSE rows[m]
  BY <1>2 DEF TypeOK
<1> HIDE DEF table
<1>6. /\ edges \subseteq Edge /\ Twins(edges)
      /\ \A e \in edges : row.body # {} /\ e.target = Answering(table, e.user, e.ref.slug)
  <2>1. row.body \in SUBSET Link
    BY DEF Row
  <2> QED
    BY <2>1, EdgesOfLookUp
<1> HIDE DEF edges
<1>7. \A e \in edges :
          /\ e.target # Null =>
                /\ Author[e.target] = e.user
                /\ e.target = s.note \/ rows[e.target] # Null
          /\ e.target = Null =>
                \A m \in Notes : Author[m] = e.user /\ table[m] # Null => table[m].slug # e.ref.slug
  <2> TAKE e \in edges
  <2>1. e.target = Answering(table, e.user, e.ref.slug)
    BY <1>6
  <2> QED
    BY <1>5, <2>1, AnsweringFinds
<1>8. /\ linked \in Save
      /\ linked.phase = "linked" /\ linked.note = s.note /\ linked.row = row
      /\ linked.edges = edges /\ linked.stubs = s.stubs
  BY <1>2, <1>6 DEF Save
<1> HIDE DEF linked
<1>9. TypeOK'
  BY <1>1, <1>2, <1>4, <1>8 DEF TypeOK
<1>10. /\ saves'[w] = linked /\ w \notin Writing
       /\ Writing' = Writing \cup {w}
       /\ \A v \in Writing : v # w /\ saves'[v] = saves[v]
  <2>1. saves'[w] = linked /\ \A v \in Requests : v # w => saves'[v] = saves[v]
    BY <1>2, <1>4 DEF TypeOK
  <2>2. linked # Null
    BY <1>8, NullIsNoSave
  <2> QED
    BY <1>1, <1>8, <2>1, <2>2 DEF Writing
<1>11. NamesAreUnique'
  <2>1. \A m \in Notes : Author[m] = Author[s.note] /\ rows[m] # Null /\ rows[m].slug = row.slug => m = s.note
    BY <1>1, <1>2 DEF SlugFree
  <2> QED
    BY <1>1, <1>8, <1>10, <2>1 DEF LinksInv, NamesAreUnique
<1>12. \A v \in Writing : Author[saves[v].note] = Author[s.note] =>
          saves[v].note # s.note /\ saves[v].row.slug # row.slug
  <2>1. \A v \in Writing : v # w /\ saves[v].note # s.note
    BY <1>1, <1>10 DEF Held
  <2>2. \A v \in Writing : saves[v].note \in Notes
    BY <1>2, WritingSave
  <2> QED
    BY <1>1, <2>1, <2>2 DEF SlugFree
<1>13. WritersDiffer'
  <2> SUFFICES ASSUME NEW v \in Writing', NEW x \in Writing',
                      Author[saves'[v].note] = Author[saves'[x].note],
                      saves'[v].note = saves'[x].note \/ saves'[v].row.slug = saves'[x].row.slug
               PROVE  v = x
    BY DEF WritersDiffer
  <2>1. CASE v \in Writing /\ x \in Writing
    BY <1>10, <2>1 DEF LinksInv, WritersDiffer
  <2>2. CASE v = w /\ x \in Writing
    BY <1>8, <1>10, <1>12, <2>2
  <2>3. CASE v \in Writing /\ x = w
    BY <1>8, <1>10, <1>12, <2>3
  <2> QED
    BY <1>10, <2>1, <2>2, <2>3
<1>14. EdgesAreSound'
  BY <1>1 DEF LinksInv, EdgesAreSound
<1>15. ASSUME NEW v \in Writing
       PROVE  SaveInv(v)'
  BY <1>1, <1>10, SaveInvKept DEF LinksInv
<1>16. s.stubs = {}
  BY <1>1 DEF LinksInv, StubsComeLast
<1>17. SaveInv(w)'
  <2>1. UNCHANGED <<rows, links>> /\ saves'[w] = linked
    BY <1>1, <1>10
  <2>2. RightEdges(linked)
    BY <1>6, <1>7, <1>8 DEF RightEdges
  <2>3. AllStubs(linked) /\ linked.note \notin linked.stubs
    BY <1>8, <1>16 DEF AllStubs
  <2>4. NoTargetYet(linked)
    BY <1>2, <1>3, <1>5, <1>7, <1>8 DEF NoTargetYet
  <2> QED
    BY <1>3, <1>8, <2>1, <2>2, <2>3, <2>4 DEF SaveInv, RightEdges, NoTargetYet, AllStubs
<1>18. StubsComeLast'
  BY <1>1, <1>2, <1>4, <1>8, <1>16 DEF LinksInv, StubsComeLast, TypeOK
<1> QED
  BY <1>9, <1>10, <1>11, <1>13, <1>14, <1>15, <1>17, <1>18 DEF LinksInv

\* The stubs that wait for the slug are looked up.
LEMMA BackfillKeeps ==
    ASSUME LinksInv, NEW w \in Requests, Backfill(w)
    PROVE  LinksInv'
<1> DEFINE s == saves[w]
           stubs == StubsFor(s.note, s.row.slug) \ {s.note}
           backfilled == [s EXCEPT !.phase = "backfilled", !.stubs = stubs]
<1>1. s # Null /\ s.phase = "linked" /\ UNCHANGED <<handle, rows, links>>
  BY DEF Backfill
<1>2. TypeOK /\ s \in Save /\ s.note \in Notes
  BY <1>1 DEF LinksInv, TypeOK, Save
<1>3. saves' = [saves EXCEPT ![w] = backfilled]
  BY <1>2 DEF Backfill, Save, TypeOK
<1>4. /\ stubs \subseteq Notes
      /\ \A m \in Notes : m \in stubs <=>
             m # s.note /\ \E e \in links[m] : IsStub(e, Author[s.note], s.row.slug)
  BY DEF StubsFor
<1> HIDE DEF stubs
<1>5. /\ backfilled \in Save
      /\ backfilled.phase = "backfilled" /\ backfilled.note = s.note /\ backfilled.row = s.row
      /\ backfilled.edges = s.edges /\ backfilled.alone = s.alone /\ backfilled.stubs = stubs
  BY <1>2, <1>4 DEF Save
<1> HIDE DEF backfilled
<1>6. TypeOK'
  BY <1>1, <1>2, <1>3, <1>5 DEF TypeOK
<1>7. /\ w \in Writing /\ Writing' = Writing /\ saves'[w] = backfilled
      /\ \A v \in Writing : v # w => saves'[v] = saves[v]
      /\ \A v \in Writing : saves'[v].note = saves[v].note /\ saves'[v].row = saves[v].row
  BY <1>1, <1>2, <1>3, <1>5, NullIsNoSave DEF TypeOK, Writing
<1>8. NamesAreUnique'
  BY <1>1, <1>7 DEF LinksInv, NamesAreUnique
<1>9. WritersDiffer'
  BY <1>7 DEF LinksInv, WritersDiffer
<1>10. EdgesAreSound'
  BY <1>1 DEF LinksInv, EdgesAreSound
<1>11. SaveInv(w)'
  <2>1. SaveInv(w)
    BY <1>7 DEF LinksInv
  <2> QED
    BY <1>1, <1>4, <1>5, <1>7, <2>1 DEF SaveInv, RightEdges, NoTargetYet, AllStubs
<1>12. ASSUME NEW v \in Writing, v # w
       PROVE  SaveInv(v)'
  <2>1. SaveInv(v) /\ saves'[v] = saves[v]
    BY <1>7, <1>12 DEF LinksInv
  <2> QED
    BY <1>1, <2>1, SaveInvKept
<1>13. StubsComeLast'
  BY <1>2, <1>3, <1>5 DEF LinksInv, StubsComeLast, TypeOK
<1> QED
  BY <1>6, <1>7, <1>8, <1>9, <1>10, <1>11, <1>12, <1>13 DEF LinksInv
\* A note that others in flight may be linked to appears, or changes its slug.
LEMMA CommitKeeps ==
    ASSUME LinksInv, NEW w \in Requests, Commit(w)
    PROVE  LinksInv'
<1> DEFINE s == saves[w]
           told(v) == [saves[v] EXCEPT !.stubs = @ \ {s.note}, !.alone = FALSE]
<1>1. /\ s # Null /\ s.phase = "backfilled" /\ handle' = handle
      /\ rows' = [rows EXCEPT ![s.note] = s.row]
  BY DEF Commit
<1>2. /\ TypeOK /\ w \in Writing /\ s \in Save /\ s.note \in Notes /\ s.stubs \subseteq Notes
      /\ s.edges \subseteq Edge /\ s.row \in Row \cup {Null}
  BY <1>1 DEF LinksInv, TypeOK, Save, Writing
<1>3. SaveInv(w)
  BY <1>2 DEF LinksInv
<1>4. /\ rows'[s.note] = s.row /\ s.row # Null
      /\ \A m \in Notes : m # s.note => rows'[m] = rows[m]
  BY <1>1, <1>2, <1>3 DEF TypeOK, SaveInv
<1>5. /\ links'[s.note] = s.edges
      /\ \A m \in Notes : m # s.note /\ m \in s.stubs => links'[m] = Resolved(links[m], s.note, s.row.slug)
      /\ \A m \in Notes : m # s.note /\ m \notin s.stubs => links'[m] = links[m]
  BY <1>2 DEF Commit
<1>6. ASSUME NEW m \in Notes, m # s.note, m \in s.stubs
      PROVE  /\ links'[m] \subseteq Edge
             /\ \A e \in links'[m] : \E f \in links[m] :
                   /\ e.ref = f.ref /\ e.user = f.user
                   /\ IF IsStub(f, Author[s.note], s.row.slug) THEN e.target = s.note ELSE e = f
             /\ \A f \in links[m] : IsStub(f, Author[s.note], s.row.slug) \/ f \in links'[m]
             /\ Twins(links[m]) => Twins(links'[m])
  <2>1. SetOfEdges(links[m])
    BY <1>2 DEF TypeOK, SetOfEdges
  <2>2. links'[m] = Resolved(links[m], s.note, s.row.slug)
    BY <1>5, <1>6
  <2>3. SetOfEdges(links'[m]) /\ ResolvedTo(links[m], links'[m], s.note, s.row.slug)
    BY <1>2, <2>1, <2>2, ResolvedEdges
  <2> QED
    BY <2>3 DEF SetOfEdges, ResolvedTo
<1>7. \A v \in Writing : v \in Requests /\ saves[v] \in Save
  BY <1>2, WritingSave
<1>8. \A v \in Writing :
          /\ told(v) \in Save
          /\ told(v).phase = saves[v].phase /\ told(v).note = saves[v].note /\ told(v).row = saves[v].row
          /\ told(v).edges = saves[v].edges /\ told(v).stubs = saves[v].stubs \ {s.note}
          /\ told(v).alone = FALSE
  BY <1>2, <1>7 DEF Save
<1>9. /\ \A v \in Requests : v # w => saves'[v] = IF v \in Writing THEN told(v) ELSE saves[v]
      /\ saves'[w] = Null
      /\ DOMAIN saves' = Requests /\ saves' = [v \in Requests |-> saves'[v]]
  BY DEF Commit
<1> HIDE DEF told
<1>10. /\ Writing' = Writing \ {w}
       /\ \A v \in Writing' : v # w /\ v \in Writing /\ saves'[v] = told(v)
  BY <1>7, <1>8, <1>9, NullIsNoSave DEF Writing
<1>11. TypeOK'
  <2>1. rows' \in [Notes -> Row \cup {Null}]
    BY <1>1, <1>2 DEF TypeOK
  <2>2. links' \in [Notes -> SUBSET Edge]
    <3>1. ASSUME NEW m \in Notes PROVE links'[m] \subseteq Edge
      <4>1. CASE m = s.note
        BY <1>2, <1>5, <4>1
      <4>2. CASE m # s.note /\ m \in s.stubs
        BY <1>6, <4>2
      <4>3. CASE m # s.note /\ m \notin s.stubs
        BY <1>2, <1>5, <4>3 DEF TypeOK
      <4> QED
        BY <4>1, <4>2, <4>3
    <3> QED
      BY <3>1 DEF Commit
  <2>3. saves' \in [Requests -> Save \cup {Null}]
    <3>1. \A v \in Requests : saves'[v] \in Save \cup {Null}
      BY <1>2, <1>8, <1>9 DEF TypeOK
    <3> QED
      BY <1>9, <3>1
  <2> QED
    BY <1>1, <1>2, <2>1, <2>2, <2>3 DEF TypeOK
<1>12. NamesAreUnique'
  <2>1. \A u, v \in Users : handle'[u] = handle'[v] => u = v
    BY <1>1 DEF LinksInv, NamesAreUnique
  <2>2. \A m \in Notes : Author[m] = Author[s.note] /\ rows[m] # Null /\ rows[m].slug = s.row.slug => m = s.note
    BY <1>2 DEF LinksInv, NamesAreUnique
  <2>3. \A m, n \in Notes : Author[m] = Author[n] /\ rows'[m] # Null /\ rows'[n] # Null
                            /\ rows'[m].slug = rows'[n].slug => m = n
    BY <1>2, <1>4, <2>2 DEF LinksInv, NamesAreUnique
  <2>4. ASSUME NEW v \in Writing', NEW m \in Notes, Author[m] = Author[saves'[v].note],
               rows'[m] # Null, rows'[m].slug = saves'[v].row.slug
        PROVE  m = saves'[v].note
    <3>1. v \in Writing /\ v # w /\ saves'[v].note = saves[v].note /\ saves'[v].row = saves[v].row
      BY <1>8, <1>10
    <3>2. CASE m = s.note
      BY <1>2, <1>4, <2>4, <3>1, <3>2 DEF LinksInv, WritersDiffer
    <3>3. CASE m # s.note
      BY <1>4, <2>4, <3>1, <3>3 DEF LinksInv, NamesAreUnique
    <3> QED
      BY <3>2, <3>3
  <2> QED
    BY <2>1, <2>3, <2>4 DEF NamesAreUnique
<1>13. WritersDiffer'
  BY <1>8, <1>10 DEF LinksInv, WritersDiffer
<1>14. EdgesAreSound'
  <2> SUFFICES ASSUME NEW m \in Notes
               PROVE  /\ Twins(links'[m])
                      /\ \A e \in links'[m] :
                            /\ rows'[m] # Null /\ rows'[m].body # {}
                            /\ e.target # Null => Author[e.target] = e.user /\ rows'[e.target] # Null
    BY Zenon DEF EdgesAreSound, Twins
  <2>0. /\ Twins(links[m])
        /\ \A e \in links[m] :
              /\ rows[m] # Null /\ rows[m].body # {}
              /\ e.target # Null => Author[e.target] = e.user /\ rows[e.target] # Null
    BY DEF LinksInv, EdgesAreSound
  <2>1. \A t : t \in Notes /\ rows[t] # Null => rows'[t] # Null
    BY <1>4
  <2>2. CASE m = s.note
    <3>1. s.edges \subseteq Edge /\ RightEdges(s)
      BY <1>2, <1>3 DEF SaveInv
    <3>2. \A e \in s.edges : e.target \in Notes \cup {Null}
      BY <3>1 DEF Edge
    <3> QED
      BY <1>4, <1>5, <2>1, <2>2, <3>1, <3>2 DEF RightEdges
  <2>3. CASE m # s.note /\ m \in s.stubs
    <3>1. Twins(links'[m])
      BY <1>6, <2>0, <2>3
    <3>2. ASSUME NEW e \in links'[m]
          PROVE  /\ rows'[m] # Null /\ rows'[m].body # {}
                 /\ e.target # Null => Author[e.target] = e.user /\ rows'[e.target] # Null
      <4>1. PICK f \in links[m] :
                /\ e.ref = f.ref /\ e.user = f.user
                /\ IF IsStub(f, Author[s.note], s.row.slug) THEN e.target = s.note ELSE e = f
        BY <1>6, <2>3
      <4>2. rows'[m] # Null /\ rows'[m].body # {}
        BY <1>4, <2>0, <2>3
      <4>3. CASE IsStub(f, Author[s.note], s.row.slug)
        BY <1>4, <4>1, <4>2, <4>3 DEF IsStub
      <4>4. CASE ~IsStub(f, Author[s.note], s.row.slug)
        <5>1. f.target \in Notes \cup {Null}
          BY <1>2 DEF TypeOK, Edge
        <5> QED
          BY <2>0, <2>1, <4>1, <4>2, <4>4, <5>1
      <4> QED
        BY <4>3, <4>4
    <3> QED
      BY <3>1, <3>2
  <2>4. CASE m # s.note /\ m \notin s.stubs
    <3>1. links'[m] = links[m] /\ rows'[m] = rows[m]
      BY <1>4, <1>5, <2>4
    <3>2. \A e \in links[m] : e.target \in Notes \cup {Null}
      BY <1>2 DEF TypeOK, Edge
    <3> QED
      BY <2>0, <2>1, <3>1, <3>2
  <2> QED
    BY <2>2, <2>3, <2>4
<1>15. ASSUME NEW v \in Writing'
       PROVE  SaveInv(v)'
  <2>1. /\ v \in Writing /\ v # w /\ SaveInv(v)
        /\ saves[v] \in Save
        /\ saves'[v].note = saves[v].note /\ saves'[v].row = saves[v].row
        /\ saves'[v].edges = saves[v].edges /\ saves'[v].stubs = saves[v].stubs \ {s.note}
        /\ saves'[v].alone = FALSE
    BY <1>7, <1>8, <1>10 DEF LinksInv
  <2>2. RightEdges(saves[v])'
    <3>1. \A e \in saves[v].edges : e.target \in Notes \cup {Null}
      BY <2>1 DEF Save, Edge
    <3> QED
      BY <1>4, <2>1, <3>1 DEF SaveInv, RightEdges
  <2>3. NoTargetYet(saves[v])' /\ AllStubs(saves[v])'
    BY <2>1 DEF NoTargetYet, AllStubs
  <2>4. saves'[v].note \notin saves'[v].stubs
    BY <2>1 DEF SaveInv
  <2> QED
    BY <2>1, <2>2, <2>3, <2>4 DEF SaveInv
<1>16. StubsComeLast'
  <2> SUFFICES ASSUME NEW v \in Requests, saves'[v] # Null, saves'[v].phase # "backfilled"
               PROVE  saves'[v].stubs = {}
    BY DEF StubsComeLast
  <2>1. v # w
    BY <1>9
  <2> QED
    BY <1>8, <1>9, <2>1 DEF LinksInv, StubsComeLast, Writing
<1> QED
  BY <1>11, <1>12, <1>13, <1>14, <1>15, <1>16 DEF LinksInv
\* An empty note is gone, with its edges; edges to it are stubs again.
LEMMA SweepKeeps ==
    ASSUME LinksInv, NEW n \in Notes, SweepOrphanDraft(n)
    PROVE  LinksInv'
<1>1. TypeOK /\ rows[n] # Null /\ rows[n].body = {} /\ handle' = handle
  BY DEF LinksInv, SweepOrphanDraft
<1>2. /\ rows'[n] = Null /\ rows' \in [Notes -> Row \cup {Null}]
      /\ \A m \in Notes : m # n => rows'[m] = rows[m]
  BY <1>1 DEF TypeOK, SweepOrphanDraft
<1>3. ASSUME NEW m \in Notes
      PROVE  /\ links'[m] \subseteq Edge
             /\ \A e \in links'[m] : m # n /\ \E f \in links[m] :
                   /\ e.ref = f.ref /\ e.user = f.user
                   /\ IF f.target = n THEN e.target = Null ELSE e = f
             /\ Twins(links[m]) => Twins(links'[m])
  <2>1. links'[m] = IF m = n THEN {} ELSE Unresolved(links[m], n)
    BY DEF SweepOrphanDraft
  <2>2. Twins({})
    BY DEF Twins
  <2>3. CASE m = n
    BY <2>1, <2>2, <2>3
  <2>4. CASE m # n
    <3>1. SetOfEdges(links[m])
      BY <1>1 DEF TypeOK, SetOfEdges
    <3>2. SetOfEdges(links'[m]) /\ UnresolvedTo(links[m], links'[m], n)
      BY <2>1, <2>4, <3>1, UnresolvedEdges
    <3> QED
      BY <2>4, <3>2 DEF SetOfEdges, UnresolvedTo
  <2> QED
    BY <2>3, <2>4
<1>4. /\ Writing' = Writing /\ saves' \in [Requests -> Save \cup {Null}]
      /\ \A w \in Writing :
            /\ saves'[w].phase = saves[w].phase
            /\ saves'[w].note = saves[w].note /\ saves'[w].row = saves[w].row
            /\ saves'[w].edges = saves[w].edges /\ saves'[w].stubs = saves[w].stubs
            /\ saves'[w].alone = FALSE
      /\ \A w \in Requests \ Writing : saves'[w] = saves[w]
  <2>1. \A w \in Requests : saves'[w] = IF w \in Writing THEN [saves[w] EXCEPT !.alone = FALSE] ELSE saves[w]
    BY DEF SweepOrphanDraft
  <2>2. \A w \in Writing : w \in Requests /\ saves[w] \in Save
    BY <1>1, WritingSave
  <2>3. \A w \in Writing : LET x == [saves[w] EXCEPT !.alone = FALSE] IN
            /\ x \in Save /\ x.phase = saves[w].phase /\ x.note = saves[w].note /\ x.row = saves[w].row
            /\ x.edges = saves[w].edges /\ x.stubs = saves[w].stubs /\ x.alone = FALSE
    BY <2>2 DEF Save
  <2>4. \A w \in Requests : saves'[w] \in Save \cup {Null}
    <3> TAKE w \in Requests
    <3>1. CASE w \in Writing
      BY <2>1, <2>3, <3>1
    <3>2. CASE w \notin Writing
      BY <1>1, <2>1, <3>2 DEF TypeOK
    <3> QED
      BY <3>1, <3>2
  <2>5. Writing' = Writing
    BY <2>1, <2>2, <2>3, NullIsNoSave DEF Writing
  <2>6. saves' \in [Requests -> Save \cup {Null}]
    BY <2>4 DEF SweepOrphanDraft
  <2> QED
    BY <2>1, <2>2, <2>3, <2>5, <2>6
<1>5. TypeOK'
  <2>1. links' \in [Notes -> SUBSET Edge]
    BY <1>3 DEF SweepOrphanDraft
  <2> QED
    BY <1>1, <1>2, <1>4, <2>1 DEF TypeOK
<1>6. NamesAreUnique'
  <2>1. \A u, v \in Users : handle'[u] = handle'[v] => u = v
    BY <1>1 DEF LinksInv, NamesAreUnique
  <2> QED
    BY <1>2, <1>4, <2>1 DEF LinksInv, NamesAreUnique
<1>7. WritersDiffer'
  BY <1>4 DEF LinksInv, WritersDiffer
<1>8. EdgesAreSound'
  <2> SUFFICES ASSUME NEW m \in Notes
               PROVE  /\ Twins(links'[m])
                      /\ \A e \in links'[m] :
                            /\ rows'[m] # Null /\ rows'[m].body # {}
                            /\ e.target # Null => Author[e.target] = e.user /\ rows'[e.target] # Null
    BY Zenon DEF EdgesAreSound, Twins
  <2>0. /\ Twins(links[m])
        /\ \A e \in links[m] :
              /\ rows[m] # Null /\ rows[m].body # {}
              /\ e.target # Null => Author[e.target] = e.user /\ rows[e.target] # Null
    BY DEF LinksInv, EdgesAreSound
  <2>1. ASSUME NEW e \in links'[m]
        PROVE  /\ rows'[m] # Null /\ rows'[m].body # {}
               /\ e.target # Null => Author[e.target] = e.user /\ rows'[e.target] # Null
    <3>1. PICK f \in links[m] :
              /\ e.ref = f.ref /\ e.user = f.user
              /\ IF f.target = n THEN e.target = Null ELSE e = f
      BY <1>3
    <3>2. m # n /\ f.target \in Notes \cup {Null}
      BY <1>1, <1>3 DEF TypeOK, Edge
    <3> QED
      BY <1>2, <2>0, <3>1, <3>2
  <2> QED
    BY <1>3, <2>0, <2>1
<1>9. ASSUME NEW w \in Writing
      PROVE  SaveInv(w)'
  <2>1. SaveInv(w) /\ saves[w] \in Save /\ w \in Requests
    BY <1>1, WritingSave DEF LinksInv
  <2>2. RightEdges(saves[w])'
    <3>1. \A e \in saves[w].edges : e.target \in Notes \cup {Null} /\ e.target # n
      BY <2>1 DEF Save, Edge, SweepOrphanDraft, LeadTo
    <3> QED
      BY <1>2, <1>4, <2>1, <3>1 DEF SaveInv, RightEdges
  <2>3. NoTargetYet(saves[w])' /\ AllStubs(saves[w])'
    BY <1>4 DEF NoTargetYet, AllStubs
  <2> QED
    BY <1>4, <2>1, <2>2, <2>3 DEF SaveInv
<1>10. StubsComeLast'
  <2> SUFFICES ASSUME NEW w \in Requests, saves'[w] # Null, saves'[w].phase # "backfilled"
               PROVE  saves'[w].stubs = {}
    BY DEF StubsComeLast
  <2> QED
    BY <1>4 DEF LinksInv, StubsComeLast, Writing
<1> QED
  BY <1>4, <1>5, <1>6, <1>7, <1>8, <1>9, <1>10 DEF LinksInv

----------------------------------------------------------------------------
(* The theorems *)

LEMMA LinksInit == Init => LinksInv
<1> SUFFICES ASSUME Init PROVE LinksInv
  OBVIOUS
<1>1. /\ handle = FirstHandle /\ Writing = {}
      /\ \A n \in Notes : rows[n] = Null /\ links[n] = {}
      /\ \A w \in Requests : saves[w] = Null
  BY DEF Init, Writing
<1>2. TypeOK
  BY LinksAssumption DEF Init, TypeOK
<1> QED
  BY <1>1, <1>2, LinksAssumption
     DEF LinksInv, StubsComeLast, NamesAreUnique, WritersDiffer, EdgesAreSound, Twins

LEMMA LinksStep == LinksInv /\ [Next]_vars => LinksInv'
<1> SUFFICES ASSUME LinksInv, [Next]_vars PROVE LinksInv'
  OBVIOUS
<1>1. CASE UNCHANGED vars
  <2>1. Writing' = Writing
    BY <1>1 DEF vars, Writing
  <2>2. TypeOK' /\ StubsComeLast'
    BY <1>1 DEF vars, LinksInv, TypeOK, StubsComeLast
  <2> QED
    BY <1>1, <2>1, <2>2, FewerWriters DEF vars
<1> QED
  BY <1>1, BeginSaveKeeps, RelinkKeeps, BackfillKeeps, CommitKeeps, FailsKeeps, RenameKeeps, SweepKeeps
     DEF Next

\* Whatever saves, renames and sweeps overlap, names stay unique, stored edges sound,
\* and each save in flight right about what it locked.
THEOREM LinksInvariant == Spec => []LinksInv
BY LinksInit, LinksStep, PTL DEF Spec

\* The rows, edges and saves stay of their types.
THEOREM LinksTypeCorrect == Spec => []TypeOK
<1>1. LinksInv => TypeOK
  BY DEF LinksInv
<1> QED
  BY <1>1, LinksInvariant, PTL

\* A resolved link leads into the vault whose uuid it stores.
THEOREM LinksStayInTheirVault == Spec => []TargetIsInItsVault
<1>1. LinksInv => TargetIsInItsVault
  BY DEF LinksInv, EdgesAreSound, TargetIsInItsVault
<1> QED
  BY <1>1, LinksInvariant, PTL

\* What a link shows opens under the names that the target and its author have by
\* then; and a link shows its own target unless it shares the name it uses with a link
\* into another vault.
THEOREM LinksAlwaysOpenTheirTarget == Spec => []LinksOpenTheirTarget
<1>1. ASSUME LinksInv, NEW n \in Notes, NEW f \in links[n], f.target # Null
      PROVE  rows[f.target] # Null /\ Opened(URL(f.target)) = f.target
  <2> DEFINE t == f.target
             url == URL(t)
             user == Owner(url.handle)
  <2>1. t \in Notes /\ rows[t] # Null /\ Author[t] \in Users
    <3>1. f \in Edge
      BY <1>1 DEF LinksInv, TypeOK
    <3> QED
      BY <1>1, <3>1, LinksAssumption DEF LinksInv, EdgesAreSound, Edge
  <2>2. url.handle = handle[Author[t]] /\ url.slug = rows[t].slug
    BY DEF URL
  <2>3. user = Author[t]
    BY <1>1, <2>1, <2>2, OwnerFinds DEF LinksInv, NamesAreUnique
  <2> DEFINE found == Answering(rows, user, url.slug)
  <2>4. found \in Notes /\ Author[found] = user /\ rows[found] # Null /\ rows[found].slug = url.slug
    <3> HIDE DEF user, url
    <3> QED
      BY <2>1, <2>2, <2>3, AnsweringFinds
  <2>5. found = t
    BY <1>1, <2>1, <2>2, <2>3, <2>4 DEF LinksInv, NamesAreUnique
  <2> QED
    BY <2>1, <2>5 DEF Opened
<1>2. ASSUME LinksInv, NEW n \in Notes, NEW e \in links[n]
      PROVE  /\ \A t \in Targets(SameKey(n, e.ref)) : rows[t] # Null /\ Opened(URL(t)) = t
             /\ (\A f \in SameKey(n, e.ref) : f.user = e.user) =>
                    Targets(SameKey(n, e.ref)) = {e.target} \ {Null}
  <2> DEFINE S == SameKey(n, e.ref)
  <2>1. e \in S /\ \A f \in S : f \in links[n] /\ f.ref.slug = e.ref.slug
    BY DEF SameKey, Key
  <2> HIDE DEF S
  <2>2. \A t \in Targets(S) : t # Null /\ \E f \in S : f.target = t
    BY DEF Targets
  <2>3. ASSUME \A f \in S : f.user = e.user
        PROVE  Targets(S) = {e.target} \ {Null}
    <3>1. \A f \in S : f.target = e.target
      BY <1>2, <2>1, <2>3 DEF LinksInv, EdgesAreSound, Twins
    <3> QED
      BY <2>1, <3>1 DEF Targets
  <2> QED
    BY <1>1, <1>2, <2>1, <2>2, <2>3 DEF S
<1>3. LinksInv => LinksOpenTheirTarget
  BY <1>2 DEF LinksOpenTheirTarget
<1> QED
  BY <1>3, LinksInvariant, PTL

\* What Commit does to edges.
LEMMA CommitEdges ==
    ASSUME LinksInv, NEW w \in Requests, Commit(w)
    PROVE  LET s == saves[w] IN
           /\ s \in Save /\ s.note \in Notes /\ w \in Writing /\ s.phase = "backfilled"
           /\ rows'[s.note] = s.row /\ \A m \in Notes \ {s.note} : rows'[m] = rows[m]
           /\ links'[s.note] = s.edges
           /\ \A m \in Notes \ {s.note} :
                 /\ \A f \in links[m] : f.target # Null => f \in links'[m]
                 /\ \A e \in links'[m] : e.target = Null =>
                       e \in links[m] /\ (m \in s.stubs => ~IsStub(e, Author[s.note], s.row.slug))
<1> DEFINE s == saves[w]
<1>1. /\ TypeOK /\ s \in Save /\ s.note \in Notes /\ w \in Writing /\ s.phase = "backfilled"
  BY DEF Commit, LinksInv, TypeOK, Save, Writing
<1>2. rows'[s.note] = s.row /\ \A m \in Notes \ {s.note} : rows'[m] = rows[m]
  BY <1>1 DEF Commit, TypeOK
<1>3. /\ links'[s.note] = s.edges
      /\ \A m \in Notes \ {s.note} :
            links'[m] = IF m \in s.stubs THEN Resolved(links[m], s.note, s.row.slug) ELSE links[m]
  BY <1>1 DEF Commit
<1>4. ASSUME NEW m \in Notes \ {s.note}
      PROVE  /\ \A f \in links[m] : f.target # Null => f \in links'[m]
             /\ \A e \in links'[m] : e.target = Null =>
                   e \in links[m] /\ (m \in s.stubs => ~IsStub(e, Author[s.note], s.row.slug))
  <2>1. CASE m \notin s.stubs
    BY <1>3, <2>1
  <2>2. CASE m \in s.stubs
    <3>1. SetOfEdges(links[m])
      BY <1>1 DEF TypeOK, SetOfEdges
    <3>2. links'[m] = Resolved(links[m], s.note, s.row.slug)
      BY <1>3, <2>2
    <3>0. ResolvedTo(links[m], links'[m], s.note, s.row.slug)
      BY <1>1, <3>1, <3>2, ResolvedEdges
    <3>3. /\ \A e \in links'[m] : \E f \in links[m] :
                IF IsStub(f, Author[s.note], s.row.slug) THEN e.target = s.note ELSE e = f
          /\ \A f \in links[m] : IsStub(f, Author[s.note], s.row.slug) \/ f \in links'[m]
      BY <3>0 DEF ResolvedTo
    <3>4. s.note # Null
      BY <1>1, NullAssumption
    <3>5. \A f \in links[m] : f.target # Null => ~IsStub(f, Author[s.note], s.row.slug)
      BY DEF IsStub
    <3> HIDE DEF s
    <3> QED
      BY <3>3, <3>4, <3>5
  <2> QED
    BY <2>1, <2>2
<1> QED
  BY <1>1, <1>2, <1>3, <1>4

\* A link that has a target keeps it: another note that takes its slug later does not
\* capture it.
THEOREM LinksKeepTheirTargets == Spec => TargetsAreKept
<1> DEFINE Kept ==
        \A n \in Notes : \A e \in links[n] : e.target # Null =>
            \/ e \in links'[n]
            \/ rows'[n] = Null \/ rows'[e.target] = Null
            \/ \E w \in Requests : Commit(w) /\ saves[w].note = n
<1>1. ASSUME LinksInv, NEW w \in Requests, Commit(w)
      PROVE  Kept
  <2> SUFFICES ASSUME NEW n \in Notes, NEW e \in links[n], e.target # Null, saves[w].note # n
               PROVE  e \in links'[n]
    BY <1>1
  <2> QED
    BY <1>1, CommitEdges
<1>2. ASSUME LinksInv, NEW m \in Notes, SweepOrphanDraft(m)
      PROVE  Kept
  <2> SUFFICES ASSUME NEW n \in Notes, NEW e \in links[n], e.target # Null, n # m, e.target # m
               PROVE  e \in links'[n]
    <3>1. rows'[m] = Null
      BY <1>2 DEF SweepOrphanDraft, LinksInv, TypeOK
    <3> QED
      BY <3>1
  <2>1. links'[n] = Unresolved(links[n], m) /\ SetOfEdges(links[n])
    BY <1>2 DEF SweepOrphanDraft, LinksInv, TypeOK, SetOfEdges
  <2>2. UnresolvedTo(links[n], links'[n], m)
    BY <2>1, UnresolvedEdges
  <2> QED
    BY <2>2 DEF UnresolvedTo
<1>3. LinksInv /\ [Next]_vars => [Kept]_links
  <2> SUFFICES ASSUME LinksInv, Next, links' # links
               PROVE  Kept
    BY DEF vars
  <2> QED
    BY <1>1, <1>2 DEF Next, BeginSave, Relink, Backfill, Fails, PostHandleSetting
<1> QED
  BY <1>3, LinksInvariant, PTL DEF Spec, TargetsAreKept

\* A save that no other overlaps leaves no link waiting for a note that is there.
THEOREM LinksLeaveNoStubBehind == Spec => NoStubIsLeftBehind
<1> DEFINE NoneLost ==
        \A w \in Requests : Commit(w) /\ saves[w].alone =>
            \A n \in Notes : Lost(n)' \subseteq (IF n = saves[w].note THEN {} ELSE Lost(n))
<1>1. ASSUME LinksInv
      PROVE  NoneLost
  <2> SUFFICES ASSUME NEW w \in Requests, Commit(w), saves[w].alone, NEW n \in Notes,
                      NEW ref \in Lost(n)'
               PROVE  n # saves[w].note /\ ref \in Lost(n)
    BY Zenon
  <2> DEFINE s == saves[w]
  <2>1. PICK e \in links'[n] : /\ e.ref = ref /\ e.target = Null /\ e.user # Null
                               /\ Answering(rows', e.user, e.ref.slug) # Null
    BY DEF Lost, Answering
  <2> DEFINE m == Answering(rows', e.user, e.ref.slug)
  <2>2. m \in Notes /\ Author[m] = e.user /\ rows'[m] # Null /\ rows'[m].slug = e.ref.slug
    BY <2>1, AnsweringFinds
  <2> HIDE DEF m
  <2>3. NoTargetYet(s) /\ AllStubs(s)
    BY <1>1, CommitEdges DEF LinksInv, SaveInv
  <2>4. n # s.note
    <3> SUFFICES ASSUME n = s.note PROVE FALSE
      OBVIOUS
    <3>1. e \in s.edges
      BY <1>1, CommitEdges
    <3>2. CASE m = s.note
      BY <1>1, <2>1, <2>2, <2>3, <3>1, <3>2, CommitEdges DEF NoTargetYet
    <3>3. CASE m # s.note
      BY <1>1, <2>1, <2>2, <2>3, <3>1, <3>3, CommitEdges DEF NoTargetYet
    <3> QED
      BY <3>2, <3>3
  <2>5. e \in links[n] /\ (n \in s.stubs => ~IsStub(e, Author[s.note], s.row.slug))
    BY <1>1, <2>1, <2>4, CommitEdges
  <2>6. m # s.note
    <3> SUFFICES ASSUME m = s.note PROVE FALSE
      OBVIOUS
    <3>1. IsStub(e, Author[s.note], s.row.slug)
      BY <1>1, <2>1, <2>2, CommitEdges DEF IsStub
    <3>2. n \in s.stubs
      BY <1>1, <2>3, <2>4, <2>5, <3>1, CommitEdges DEF AllStubs
    <3> QED
      BY <2>5, <3>1, <3>2
  <2>7. rows[m] # Null /\ rows[m].slug = e.ref.slug
    BY <1>1, <2>2, <2>6, CommitEdges
  <2>8. Answering(rows, e.user, e.ref.slug) # Null
    BY <2>2, <2>7, AnsweringFinds
  <2> QED
    BY <2>1, <2>4, <2>5, <2>8 DEF Lost
<1>2. LinksInv => [NoneLost]_<<rows, links>>
  BY <1>1
<1> QED
  BY <1>2, LinksInvariant, PTL DEF Spec, NoStubIsLeftBehind
=============================================================================
