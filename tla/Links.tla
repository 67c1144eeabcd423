------------------------------- MODULE Links -------------------------------
(***************************************************************************)
(* Wiki links between notes (links.go, settings.go) and the transactions   *)
(* that write them.  A body holds links as its author typed them, the same *)
(* one (user and slug) once: Extract drops repetitions.                    *)
(*                                                                         *)
(* Every handler that stores a body (autosave of a draft, publish, post,   *)
(* import) runs the same statements at READ COMMITTED: it changes the row, *)
(* deletes the note's edges and inserts the new ones, looking their        *)
(* targets up in what is committed by then (Relink); it resolves the stubs *)
(* that wait for its slug (Backfill); it commits (Commit).  The handle     *)
(* that untyped owners stand for was read before, with the session         *)
(* (BeginSave).  A statement that meets an uncommitted row waits for it;   *)
(* PostgreSQL ends a cycle of waits by failing one request (Fails).        *)
(***************************************************************************)
EXTENDS FiniteSets

CONSTANTS
    Users, Handles,
    Notes,       \* ids of notes
    Author,      \* their authors
    Slugs,
    Drafts,      \* per note what its author may make of it: slugs and links typed
    FirstHandle, \* of each user
    Wishes,      \* per user the handles she may ask for
    Requests,    \* saves in flight at a time
    Null

\* As typed: without a user, a link into the author's own vault.
Link == [user : Handles \cup {Null}, slug : Slugs]

Row == [slug : Slugs, body : SUBSET Link]

ASSUME LinksAssumption ==
    /\ Author \in [Notes -> Users]
    /\ Drafts \in [Notes -> SUBSET Row]
    /\ FirstHandle \in [Users -> Handles]
    /\ Wishes \in [Users -> SUBSET Handles]
    /\ \A u, v \in Users : FirstHandle[u] = FirstHandle[v] => u = v

ASSUME NullAssumption == Null \notin Users \cup Handles \cup Notes \cup Slugs \cup Link \cup Row

VARIABLES
    handle, \* users.handle_ci
    rows,   \* notes, Null for a row that is not there
    links,  \* per source note its edges
    saves   \* per request the save in flight

vars == <<handle, rows, links, saves>>

Edge ==
    [ref : Link,                   \* raw_target
     user : Users \cup {Null},     \* target_user_id, Null for a handle nobody owns
     target : Notes \cup {Null}]   \* resolved_target_id

Save ==
    [phase : {"read", "linked", "backfilled"},
     note : Notes,
     row : Row \cup {Null},         \* what it writes, chosen with the lookup
     handle : Handles,             \* its author's, as the session had it
     edges : SUBSET Edge,
     stubs : SUBSET Notes,         \* notes of which its backfill resolves edges
     alone : BOOLEAN]              \* nothing else was committed meanwhile (history)
ASSUME NullIsNoSave == Null \notin Save

TypeOK ==
    /\ handle \in [Users -> Handles]
    /\ rows \in [Notes -> Row \cup {Null}]
    /\ links \in [Notes -> SUBSET Edge]
    /\ saves \in [Requests -> Save \cup {Null}]

Init ==
    /\ handle = FirstHandle
    /\ rows = [n \in Notes |-> Null]
    /\ links = [n \in Notes |-> {}]
    /\ saves = [w \in Requests |-> Null]

----------------------------------------------------------------------------
(* Looking links up *)

OrNull(S) == IF S = {} THEN Null ELSE CHOOSE x \in S : TRUE

Owner(h) == OrNull({u \in Users : handle[u] = h})

\* The note that answers to (user, slug) in a state of the table.
Answering(table, user, slug) ==
    OrNull({n \in Notes : Author[n] = user /\ table[n] # Null /\ table[n].slug = slug})

\* recomputeLinks: the edges of links typed in the vault called vault.
EdgeOf(ref, vault, table) ==
    LET user == Owner(IF ref.user = Null THEN vault ELSE ref.user)
    IN [ref |-> ref, user |-> user, target |-> Answering(table, user, ref.slug)]
EdgesOf(body, vault, table) == {EdgeOf(ref, vault, table) : ref \in body}

LeadTo(edges, n) == \E e \in edges : e.target = n

\* Mutants of IsStub: any vault's link by that name; one that has its target already.
IsStubAnyVault(edge, user, slug) == edge.target = Null /\ edge.ref.slug = slug
IsStubResolvedToo(edge, user, slug) == edge.user = user /\ edge.ref.slug = slug

IsStub(edge, user, slug) == edge.target = Null /\ edge.user = user /\ edge.ref.slug = slug

\* resolverKey and buildResolverForNote: the page finds the target of a link by what
\* was typed, the author's present handle standing in for no user.  Of several
\* resolved edges with one key the map keeps one.
Key(n, ref) == [handle |-> IF ref.user = Null THEN handle[Author[n]] ELSE ref.user, slug |-> ref.slug]
SameKey(n, ref) == {e \in links[n] : Key(n, e.ref) = Key(n, ref)}
Targets(edges) == {e.target : e \in edges} \ {Null}

\* noteURL, and GetNote: the note that opens there.
URL(target) == [handle |-> handle[Author[target]], slug |-> rows[target].slug]
Opened(url) == Answering(rows, Owner(url.handle), url.slug)

----------------------------------------------------------------------------
(* Saving a note *)

\* Saves that hold their note's row, and its edges, until they end.
Writing == {w \in Requests : saves[w] # Null /\ saves[w].phase # "read"}
Held(n, w) == \E v \in Writing \ {w} : saves[v].note = n

BeginSave(w, n) ==
    /\ saves[w] = Null
    /\ saves' = [saves EXCEPT ![w] =
                    [phase |-> "read", note |-> n, row |-> Null, handle |-> handle[Author[n]],
                     edges |-> {}, stubs |-> {}, alone |-> TRUE]]
    /\ UNCHANGED <<handle, rows, links>>

\* Mutant of SlugFree: UNIQUE(author_id, slug_ci) is missing.
SlugFreeUnchecked(n, slug) == TRUE

\* UNIQUE(author_id, slug_ci), uncommitted rows included.
SlugFree(n, slug) ==
    LET Others == {m \in Notes \ {n} : Author[m] = Author[n]}
    IN /\ \A m \in Others : rows[m] # Null => rows[m].slug # slug
       /\ \A v \in Writing : saves[v].note \in Others => saves[v].row.slug # slug

\* An inserted edge locks the row it points at, which a save of that note has
\* locked FOR UPDATE: the later of the two waits.
Relink(w, row) ==
    LET s == saves[w]
        edges == EdgesOf(row.body, s.handle, [rows EXCEPT ![s.note] = row])
    IN
    /\ s # Null
    /\ s.phase = "read"
    /\ row \in Drafts[s.note]
    /\ SlugFree(s.note, row.slug)
    /\ ~Held(s.note, w)
    /\ \A v \in Writing : s.note \notin saves[v].stubs /\ ~LeadTo(saves[v].edges, s.note)
    /\ \A v \in Writing : ~LeadTo(edges, saves[v].note)
    /\ saves' = [saves EXCEPT ![w].phase = "linked", ![w].row = row, ![w].edges = edges]
    /\ UNCHANGED <<handle, rows, links>>

\* Mutant of StubsFor: a save of an existing note resolves none.
StubsForNewNotes(n, slug) ==
    IF rows[n] # Null THEN {} ELSE {m \in Notes : \E e \in links[m] : IsStub(e, Author[n], slug)}

\* backfillStubLinks: the notes with stubs it sees; those of a save in flight it
\* waits for.
StubsFor(n, slug) == {m \in Notes : \E e \in links[m] : IsStub(e, Author[n], slug)}

Backfill(w) ==
    LET s == saves[w] IN
    /\ s # Null
    /\ s.phase = "linked"
    /\ saves' = [saves EXCEPT ![w].phase = "backfilled",
                              ![w].stubs = StubsFor(s.note, s.row.slug) \ {s.note}]
    /\ UNCHANGED <<handle, rows, links>>

\* What waits for the slug in a note waits for it together: links into one vault
\* with one slug are looked up, resolved and made stubs again at the same time.
Resolved(edges, n, slug) ==
    {IF IsStub(e, Author[n], slug) THEN [e EXCEPT !.target = n] ELSE e : e \in edges}
Unresolved(edges, n) == {IF e.target = n THEN [e EXCEPT !.target = Null] ELSE e : e \in edges}

\* An edge that was deleted while another backfill waited for it is not resolved,
\* and neither is the one that replaced it.
Commit(w) ==
    LET s == saves[w] IN
    /\ s # Null
    /\ s.phase = "backfilled"
    /\ \A m \in s.stubs : ~Held(m, w)
    /\ rows' = [rows EXCEPT ![s.note] = s.row]
    /\ links' = [n \in Notes |-> IF n = s.note THEN s.edges
                                 ELSE IF n \in s.stubs THEN Resolved(links[n], s.note, s.row.slug)
                                 ELSE links[n]]
    /\ saves' = [v \in Requests |->
                    IF v = w THEN Null
                    ELSE IF v \in Writing
                         THEN [saves[v] EXCEPT !.stubs = @ \ {s.note}, !.alone = FALSE]
                    ELSE saves[v]]
    /\ UNCHANGED handle

\* The request is refused, fails or is given up: its transaction rolls back.
Fails(w) ==
    /\ saves[w] # Null
    /\ saves' = [saves EXCEPT ![w] = Null]
    /\ UNCHANGED <<handle, rows, links>>

----------------------------------------------------------------------------
(* What else changes what a link leads to *)

\* PostHandleSetting's EXISTS, and the unique handle_ci behind it.
Free(h) == \A v \in Users : handle[v] # h

PostHandleSetting(u, h) ==
    /\ h \in Wishes[u]
    /\ Free(h)
    /\ handle' = [handle EXCEPT ![u] = h]
    /\ UNCHANGED <<rows, links, saves>>

\* sweepOrphanDrafts deletes an empty note: its edges go with it, and edges to it
\* are stubs again.  Rows and edges of a save in flight make it wait, and so does
\* an edge that is about to point at the note.
SweepOrphanDraft(n) ==
    /\ rows[n] # Null
    /\ rows[n].body = {}
    /\ \A w \in Writing :
          /\ saves[w].note # n
          /\ ~LeadTo(saves[w].edges, n)
          /\ ~LeadTo(links[saves[w].note], n)
    /\ rows' = [rows EXCEPT ![n] = Null]
    /\ links' = [m \in Notes |-> IF m = n THEN {} ELSE Unresolved(links[m], n)]
    /\ saves' = [w \in Requests |-> IF w \in Writing THEN [saves[w] EXCEPT !.alone = FALSE]
                                    ELSE saves[w]]
    /\ UNCHANGED handle

----------------------------------------------------------------------------
Next ==
    \/ \E w \in Requests, n \in Notes : BeginSave(w, n)
    \/ \E w \in Requests, row \in Row : Relink(w, row)
    \/ \E w \in Requests : Backfill(w) \/ Commit(w) \/ Fails(w)
    \/ \E u \in Users, h \in Handles : PostHandleSetting(u, h)
    \/ \E n \in Notes : SweepOrphanDraft(n)

Spec == Init /\ [][Next]_vars

----------------------------------------------------------------------------
(* What must hold *)

\* A resolved link leads into the vault whose uuid it stores, whoever is called
\* what by now: backfilling goes by target_user_id and slug together.
TargetIsInItsVault ==
    \A n \in Notes : \A e \in links[n] : e.target # Null => Author[e.target] = e.user

\* What a link shows opens under the names that target and author have now: no
\* rename and no new slug makes a URL ambiguous or leads it astray.  And a link
\* shows its own target, and only a stub shows none, though a note may name a vault in
\* two ways, unless a rename has given the name it uses to another vault that the
\* note links to by the same slug.
LinksOpenTheirTarget ==
    \A n \in Notes : \A e \in links[n] :
        /\ \A t \in Targets(SameKey(n, e.ref)) : rows[t] # Null /\ Opened(URL(t)) = t
        /\ (\A f \in SameKey(n, e.ref) : f.user = e.user) =>
               Targets(SameKey(n, e.ref)) = {e.target} \ {Null}

\* A link that has a target keeps it until its own source is saved again or the
\* target is gone; another note that takes the slug later does not capture it.
TargetsAreKept ==
    [][\A n \in Notes : \A e \in links[n] : e.target # Null =>
          \/ e \in links'[n]
          \/ rows'[n] = Null \/ rows'[e.target] = Null
          \/ \E w \in Requests : Commit(w) /\ saves[w].note = n]_links

\* The links of a note that wait for a note that exists.
Lost(n) ==
    {e.ref : e \in {f \in links[n] : f.target = Null /\ f.user # Null
                                     /\ Answering(rows, f.user, f.ref.slug) # Null}}

\* A save that no other overlaps leaves no link waiting for a note that is there:
\* neither one of its own, nor one that waited for the slug it takes, new or changed.
NoStubIsLeftBehind ==
    [][\A w \in Requests : Commit(w) /\ saves[w].alone =>
          \A n \in Notes : Lost(n)' \subseteq (IF n = saves[w].note THEN {} ELSE Lost(n))]_<<rows, links>>

\* plan.md:42 says of links that they go by UUID and never by name, so that a
\* rename breaks none: a link whose source is saved with the same text stays.
RenameBreaksNoLink ==
    [][\A n \in Notes : \A e \in links[n] :
          /\ e.target # Null
          /\ rows'[n] # Null /\ rows'[n].body = rows[n].body
          /\ rows'[e.target] # Null
          => \E f \in links'[n] : f.ref = e.ref /\ f.target = e.target]_vars
=============================================================================
