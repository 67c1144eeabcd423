---------------------------- MODULE SpaceProofs ----------------------------
(* My space, for every set of notes, pages and documents and every bound.   *)
EXTENDS Space, NoteRowProofs

----------------------------------------------------------------------------
(* What publishing the space does to one child *)

\* The reach asked for takes the place of a pending one.
LEMMA ReachPending ==
    ASSUME NEW row \in Row, NEW reach \in Reach \cup {Null}
    PROVE  LET r == [row EXCEPT !.draftReach = Coalesce(reach, row.draftReach)] IN
           /\ r \in Row
           /\ reach # Null => EditorReach(r) = reach
BY NullIsNoReach DEF Coalesce, Row, EditorReach

\* A draft is published with it; of a public note only the reach changes.
LEMMA ListedRowFields ==
    ASSUME NEW row \in Row, NEW reach \in Reach \cup {Null}
    PROVE  LET new == ListedRow(row, reach) IN
           /\ new \in Row
           /\ row.published => new.doc = row.doc /\ new.draft = row.draft
           /\ reach # Null => new.reach = reach /\ new.draftReach = Null
           /\ new = row \/ new.version = row.version + 1
<1> DEFINE pending == [row EXCEPT !.draftReach = Coalesce(reach, row.draftReach)]
           asked == [row EXCEPT !.reach = reach, !.draftReach = Null, !.version = row.version + 1]
<1>1. CASE ~row.published
  <2>1. ListedRow(row, reach) = PublishedRow(pending) BY <1>1 DEF ListedRow
  <2>2. pending \in Row /\ (reach # Null => EditorReach(pending) = reach) BY ReachPending
  <2>3. pending.version = row.version BY DEF Row
  <2> HIDE DEF pending
  <2>4. PublishedRow(pending) \in Row BY <2>2, PublishedRowType
  <2>5. /\ PublishedRow(pending).reach = EditorReach(pending)
        /\ PublishedRow(pending).draftReach = Null
        /\ PublishedRow(pending).version = pending.version + 1
    BY <2>2, PublishedRowFields
  <2>6. QED BY <1>1, <2>1, <2>2, <2>3, <2>4, <2>5
<1>2. CASE row.published /\ reach # Null
  <2>1. ListedRow(row, reach) = asked BY <1>2 DEF ListedRow
  <2>2. reach \in Reach /\ row.version + 1 \in Nat BY <1>2 DEF Row
  <2>3. /\ asked \in Row /\ asked.doc = row.doc /\ asked.draft = row.draft
        /\ asked.reach = reach /\ asked.draftReach = Null /\ asked.version = row.version + 1
    BY <2>2 DEF Row
  <2>4. QED BY <1>2, <2>1, <2>3
<1>3. CASE row.published /\ reach = Null
  BY <1>3 DEF ListedRow
<1>4. QED BY <1>1, <1>2, <1>3

\* A document of the space asks each note it lists for a reach, or for none.
LEMMA BlocksFields ==
    ASSUME NEW document \in Document
    PROVE  /\ DOMAIN document.blocks \subseteq Notes
           /\ \A n \in DOMAIN document.blocks : document.blocks[n] \in Reach \cup {Null}
<1>1. document.blocks \in Blocks BY DEF Document
<1>2. PICK S \in SUBSET Notes : document.blocks \in [S -> Reach \cup {Null}] BY <1>1 DEF Blocks
<1>3. QED BY <1>2

----------------------------------------------------------------------------
(* The invariant *)

\* A page with the current revision holds the current document; no page is ahead.
PageInv(t) ==
    /\ tab[t].revision <= space.revision
    /\ tab[t].revision = space.revision => tab[t].document = space.document

SpaceInv == TypeOK /\ \A t \in Tabs : PageInv(t)

\* The document of a space that was never saved.
LEMMA UntouchedType == Untouched \in Document
<1>1. [n \in {} |-> Null] \in [{} -> Reach \cup {Null}] OBVIOUS
<1>2. [n \in {} |-> Null] \in Blocks BY <1>1 DEF Blocks
<1>3. QED BY <1>2 DEF Untouched, Document

\* A page that loads the space.
LEMMA LoadedType ==
    ASSUME NEW row \in SpaceRow
    PROVE  Loaded(row) \in Page
BY DEF Loaded, SpaceRow, Page

\* It holds when the first page opens.
LEMMA SpaceInitInv == Init => SpaceInv
<1> SUFFICES ASSUME Init PROVE SpaceInv OBVIOUS
<1>1. rows \in [Notes -> Row] BY FreshDraftType DEF Init
<1>2. space \in SpaceRow BY UntouchedType DEF Init, SpaceRow
<1>3. tab \in [Tabs -> Page] BY <1>2, LoadedType DEF Init
<1>4. \A t \in Tabs : PageInv(t) BY <1>2 DEF Init, Loaded, PageInv, SpaceRow
<1>5. QED BY <1>1, <1>2, <1>3, <1>4 DEF SpaceInv, TypeOK

\* A child lives on.
LEMMA ChildInv ==
    ASSUME SpaceInv, NEW n \in Notes, Child(n)
    PROVE  /\ SpaceInv'
           /\ \E new \in Row :
                /\ rows' = [rows EXCEPT ![n] = new]
                /\ \/ new.version = rows[n].version + 1
                   \/ /\ new.doc = rows[n].doc /\ new.draft = rows[n].draft
                      /\ new.reach = rows[n].reach /\ new.draftReach = rows[n].draftReach
           /\ UNCHANGED <<space, tab>>
<1> DEFINE row == rows[n]
           Change(new) == \/ new.version = row.version + 1
                          \/ /\ new.doc = row.doc /\ new.draft = row.draft
                             /\ new.reach = row.reach /\ new.draftReach = row.draftReach
<1>1. row \in Row /\ rows \in [Notes -> Row] BY DEF SpaceInv, TypeOK
<1>2. \E new \in Row : rows' = [rows EXCEPT ![n] = new] /\ Change(new)
  <2>1. CASE \E doc \in Doc, reach \in Reach \cup {Null} : SaveChild(n, doc, reach)
    <3>1. PICK doc \in Doc, reach \in Reach \cup {Null} : SaveChild(n, doc, reach) BY <2>1
    <3> DEFINE new == Autosaved(row, PatchSlug(n, row, doc.title), doc, reach)
    <3>2. PatchSlug(n, row, doc.title) \in Slugs
      <4>1. doc.title \in Titles BY DEF Doc
      <4>2. QED BY <1>1, <4>1, PatchSlugType
    <3>3. new \in Row /\ new.version = row.version + 1
      BY <1>1, <3>2, AutosavedType, AutosavedFields
    <3>4. rows' = [rows EXCEPT ![n] = new] BY <3>1 DEF SaveChild
    <3>5. QED BY <3>3, <3>4
  <2>2. CASE PublishChild(n)
    <3>1. PublishedRow(row) \in Row /\ PublishedRow(row).version = row.version + 1
      BY <1>1, PublishedRowType, PublishedRowFields
    <3>2. rows' = [rows EXCEPT ![n] = PublishedRow(row)] BY <2>2 DEF PublishChild
    <3>3. QED BY <3>1, <3>2
  <2>3. CASE \E action \in {"publish", "hide"} : ManageChild(n, action)
    <3>1. PICK action \in {"publish", "hide"} : ManageChild(n, action) BY <2>3
    <3>2. Managed(row, action) \in Row /\ Change(Managed(row, action))
      BY <1>1, ManagedType, ManagedFields
    <3>3. rows' = [rows EXCEPT ![n] = Managed(row, action)] BY <3>1 DEF ManageChild
    <3>4. QED BY <3>2, <3>3
  <2>4. CASE \E hide \in BOOLEAN : ModerateChild(n, hide)
    <3>1. PICK hide \in BOOLEAN : ModerateChild(n, hide) BY <2>4
    <3> DEFINE new == [row EXCEPT !.hidden = hide]
    <3>2. new \in Row BY <1>1 DEF Row
    <3>3. Change(new) BY <1>1, MarkFields
    <3>4. rows' = [rows EXCEPT ![n] = new] BY <3>1 DEF ModerateChild
    <3>5. QED BY <3>2, <3>3, <3>4
  <2>5. QED BY <2>1, <2>2, <2>3, <2>4 DEF Child
<1>3. UNCHANGED <<space, tab>>
  BY DEF Child, SaveChild, PublishChild, ManageChild, ModerateChild
<1>4. SpaceInv' BY <1>1, <1>2, <1>3 DEF SpaceInv, TypeOK, PageInv
<1>5. QED BY <1>2, <1>3, <1>4

\* What publishing the space leaves behind.
LEMMA PublishSpaceFields ==
    ASSUME SpaceInv, NEW t \in Tabs, NEW ids \in SUBSET Notes, PublishSpace(t, ids)
    PROVE  /\ space.document \in Document
           /\ Listed(ids) \subseteq DOMAIN space.document.blocks
           /\ Listed(ids) \subseteq Notes
           /\ \A n \in Listed(ids) : rows'[n] = ListedRow(rows[n], space.document.blocks[n])
           /\ \A n \in Notes \ Listed(ids) : rows'[n] = rows[n]
           /\ rows' \in [Notes -> Row]
           /\ space' \in SpaceRow /\ space'.revision = space.revision + 1
           /\ space'.listed = Listed(ids)
           /\ tab' = tab
<1> DEFINE document == space.document
           new == [document EXCEPT !.blocks =
                     [n \in DOMAIN document.blocks |->
                         IF n \in Listed(ids) THEN Null ELSE document.blocks[n]]]
<1>1. rows \in [Notes -> Row] /\ document \in Document /\ space.revision \in Nat
  BY DEF SpaceInv, TypeOK, SpaceRow
<1>2. /\ DOMAIN document.blocks \subseteq Notes
      /\ \A n \in DOMAIN document.blocks : document.blocks[n] \in Reach \cup {Null}
  BY <1>1, BlocksFields
<1>3. Listed(ids) \subseteq DOMAIN document.blocks BY DEF Listed
<1>4. rows' = [n \in Notes |-> IF n \in Listed(ids) THEN ListedRow(rows[n], document.blocks[n])
                                                    ELSE rows[n]]
  BY DEF PublishSpace
<1>5. \A n \in Listed(ids) : ListedRow(rows[n], document.blocks[n]) \in Row
  BY <1>1, <1>2, <1>3, ListedRowFields
<1>6. rows' \in [Notes -> Row] BY <1>1, <1>4, <1>5
<1>7. new \in Document
  <2> DEFINE S == DOMAIN document.blocks
             blocks == [n \in S |-> IF n \in Listed(ids) THEN Null ELSE document.blocks[n]]
  <2>1. blocks \in [S -> Reach \cup {Null}] BY <1>2
  <2> HIDE DEF blocks
  <2>2. blocks \in Blocks BY <1>2, <2>1 DEF Blocks
  <2>3. [document EXCEPT !.blocks = blocks] \in Document BY <1>1, <2>2 DEF Document
  <2>4. QED BY <2>3 DEF blocks
<1>8. space' = [revision |-> space.revision + 1, document |-> new, listed |-> Listed(ids)]
  BY DEF PublishSpace
<1> HIDE DEF new
<1>9. space' \in SpaceRow BY <1>1, <1>2, <1>3, <1>7, <1>8 DEF SpaceRow
<1>10. QED BY <1>1, <1>2, <1>3, <1>4, <1>6, <1>8, <1>9 DEF PublishSpace

\* A page of the space does something.
LEMMA EditorInv ==
    ASSUME SpaceInv, NEW t \in Tabs, Editor(t)
    PROVE  SpaceInv'
<1>1. rows \in [Notes -> Row] /\ space \in SpaceRow /\ tab \in [Tabs -> Page] /\ tab[t] \in Page
  BY DEF SpaceInv, TypeOK
<1>2. space.revision \in Nat /\ \A u \in Tabs : tab[u].revision \in Nat
  BY <1>1 DEF SpaceRow, Page
<1>3. CASE GetSpace(t)
  <2>1. tab' = [tab EXCEPT ![t] = Loaded(space)] /\ UNCHANGED <<rows, space>> BY <1>3 DEF GetSpace
  <2>2. tab' \in [Tabs -> Page] BY <1>1, <2>1, LoadedType
  <2>3. \A u \in Tabs : PageInv(u)' BY <1>1, <1>2, <2>1 DEF SpaceInv, PageInv, Loaded
  <2>4. QED BY <1>1, <2>1, <2>2, <2>3 DEF SpaceInv, TypeOK
<1>4. ASSUME NEW put \in Document \cup {Null}, tab' = [tab EXCEPT ![t].put = put], UNCHANGED <<rows, space>>
      PROVE  SpaceInv'
  <2>1. [tab[t] EXCEPT !.put = put] \in Page BY <1>1 DEF Page
  <2>2. tab' \in [Tabs -> Page] BY <1>1, <1>4, <2>1
  <2>3. \A u \in Tabs : tab'[u].revision = tab[u].revision /\ tab'[u].document = tab[u].document
    BY <1>1, <1>4 DEF Page
  <2>4. \A u \in Tabs : PageInv(u)' BY <1>4, <2>3 DEF SpaceInv, PageInv
  <2>5. QED BY <1>1, <1>4, <2>2, <2>4 DEF SpaceInv, TypeOK
<1>5. CASE \E document \in Document : PutCount(t, document)
  <2>1. PICK document \in Document : PutCount(t, document) BY <1>5
  <2>2. QED BY <1>4, <2>1 DEF PutCount
<1>6. CASE PutFails(t) BY <1>4, <1>6 DEF PutFails
<1>7. CASE PutSpace(t)
  <2> DEFINE put == tab[t].put
             revision == space.revision + 1
  <2>1. put \in Document /\ revision \in Nat BY <1>1, <1>2, <1>7 DEF PutSpace, Page
  <2>2. space' = [space EXCEPT !.revision = revision, !.document = put] /\ UNCHANGED rows
    BY <1>7 DEF PutSpace
  <2>3. space' \in SpaceRow /\ space'.revision = revision /\ space'.document = put
    BY <1>1, <2>1, <2>2 DEF SpaceRow
  <2>4. tab' \in [Tabs -> Page]
    <3>1. [tab[t] EXCEPT !.put = Null] \in Page BY <1>1 DEF Page
    <3>2. [tab[t] EXCEPT !.revision = revision, !.document = put, !.put = Null] \in Page
      BY <1>1, <2>1 DEF Page
    <3>3. tab' = [tab EXCEPT ![t] = [tab[t] EXCEPT !.put = Null]] \/
          tab' = [tab EXCEPT ![t] = [tab[t] EXCEPT !.revision = revision, !.document = put, !.put = Null]]
      BY <1>1, <1>7 DEF PutSpace
    <3>4. QED BY <1>1, <3>1, <3>2, <3>3
  <2>5. \A u \in Tabs : \/ tab'[u].revision = tab[u].revision
                        \/ tab'[u].revision = revision /\ tab'[u].document = put
    BY <1>1, <1>7 DEF PutSpace, Page
  <2>6. \A u \in Tabs : PageInv(u)' BY <1>2, <2>3, <2>5 DEF SpaceInv, PageInv
  <2>7. QED BY <1>1, <2>2, <2>3, <2>4, <2>6 DEF SpaceInv, TypeOK
<1>8. CASE \E ids \in SUBSET Notes : PublishSpace(t, ids)
  <2>1. PICK ids \in SUBSET Notes : PublishSpace(t, ids) BY <1>8
  <2>2. rows' \in [Notes -> Row] /\ space' \in SpaceRow /\ space'.revision = space.revision + 1 /\ tab' = tab
    BY <2>1, PublishSpaceFields
  <2>3. \A u \in Tabs : PageInv(u)' BY <1>2, <2>2 DEF SpaceInv, PageInv
  <2>4. QED BY <1>1, <2>2, <2>3 DEF SpaceInv, TypeOK
<1>9. QED BY <1>3, <1>5, <1>6, <1>7, <1>8 DEF Editor

\* The invariant is inductive.
LEMMA SpaceStepInv == SpaceInv /\ [Next]_vars => SpaceInv'
<1> SUFFICES ASSUME SpaceInv, [Next]_vars PROVE SpaceInv' OBVIOUS
<1>1. CASE UNCHANGED vars BY <1>1 DEF vars, SpaceInv, TypeOK, PageInv
<1>2. QED BY <1>1, ChildInv, EditorInv DEF Next

\* In every reachable state the invariant holds.
LEMMA SpaceInvariant == Spec => []SpaceInv
BY SpaceInitInv, SpaceStepInv, PTL DEF Spec

----------------------------------------------------------------------------
(* The properties *)

\* The state of the space, its children and its pages keeps its type.
THEOREM SpaceTypeCorrect == Spec => []TypeOK
<1>1. SpaceInv => TypeOK BY DEF SpaceInv
<1>2. QED BY <1>1, SpaceInvariant, PTL

\* A document is written only over the one its page had loaded, whichever pages
\* make the first one and whichever answers are lost.
THEOREM SpaceOverwritesWhatItLoaded == Spec => SpaceIsNotOverwritten
<1>1. SpaceInv => \A t \in Tabs : PutSpace(t) => tab[t].document = space.document
  BY DEF SpaceInv, PageInv, PutSpace, Current
<1>2. QED BY <1>1, SpaceInvariant, PTL DEF SpaceIsNotOverwritten

\* Publishing the space never publishes text its author is still working on.
THEOREM SpaceKeepsTextPrivate == Spec => UnfinishedTextStaysPrivate
<1> DEFINE Step == SpacePublished => \A n \in Notes : rows[n].published =>
                      rows'[n].doc = rows[n].doc /\ rows'[n].draft = rows[n].draft
<1>1. ASSUME SpaceInv PROVE Step
  <2> SUFFICES ASSUME SpacePublished, NEW n \in Notes, rows[n].published
               PROVE  rows'[n].doc = rows[n].doc /\ rows'[n].draft = rows[n].draft
    OBVIOUS
  <2>1. PICK t \in Tabs, ids \in SUBSET Notes : PublishSpace(t, ids) BY DEF SpacePublished
  <2>2. rows[n] \in Row BY <1>1 DEF SpaceInv, TypeOK
  <2>3. CASE n \in Listed(ids)
    <3> DEFINE reach == space.document.blocks[n]
    <3>1. rows'[n] = ListedRow(rows[n], reach) /\ reach \in Reach \cup {Null}
      BY <1>1, <2>1, <2>3, PublishSpaceFields, BlocksFields
    <3> HIDE DEF reach
    <3>2. QED BY <2>2, <3>1, ListedRowFields
  <2>4. CASE n \notin Listed(ids) BY <1>1, <2>1, <2>4, PublishSpaceFields
  <2>5. QED BY <2>3, <2>4
<1>2. QED BY <1>1, SpaceInvariant, PTL DEF UnfinishedTextStaysPrivate

\* A draft that was not ticked is neither published nor listed, and a child that
\* was removed is neither changed nor listed.
THEOREM SpaceListsWhatIsChosen == Spec => OnlyChosenChildrenShow
<1> DEFINE Step == \A t \in Tabs, ids \in SUBSET Notes : PublishSpace(t, ids) =>
                      \A n \in Notes :
                          /\ ~rows[n].published /\ n \notin ids =>
                                ~rows'[n].published /\ n \notin space'.listed
                          /\ ~Available(rows[n]) => rows'[n] = rows[n] /\ n \notin space'.listed
<1>1. ASSUME SpaceInv PROVE Step
  <2> SUFFICES ASSUME NEW t \in Tabs, NEW ids \in SUBSET Notes, PublishSpace(t, ids), NEW n \in Notes
               PROVE  /\ ~rows[n].published /\ n \notin ids =>
                            ~rows'[n].published /\ n \notin space'.listed
                      /\ ~Available(rows[n]) => rows'[n] = rows[n] /\ n \notin space'.listed
    OBVIOUS
  <2>1. ASSUME ~rows[n].published, n \notin ids PROVE ~rows'[n].published /\ n \notin space'.listed
    <3>1. n \notin Listed(ids) BY <2>1 DEF Listed
    <3>2. QED BY <1>1, <2>1, <3>1, PublishSpaceFields
  <2>2. ASSUME ~Available(rows[n]) PROVE rows'[n] = rows[n] /\ n \notin space'.listed
    <3>1. n \notin DOMAIN space.document.blocks BY <2>2 DEF PublishSpace
    <3>2. n \notin Listed(ids) BY <3>1 DEF Listed
    <3>3. QED BY <1>1, <3>2, PublishSpaceFields
  <2>3. QED BY <2>1, <2>2
<1>2. QED BY <1>1, SpaceInvariant, PTL DEF OnlyChosenChildrenShow

\* The reach asked for in the space is given, and no older one is left to come back.
THEOREM SpaceGivesTheReachAsked == Spec => ReachAsAsked
<1> DEFINE Step == SpacePublished => \A n \in space'.listed :
                      LET asked == space.document.blocks[n] IN
                      asked # Null => rows'[n].reach = asked /\ rows'[n].draftReach = Null
<1>1. ASSUME SpaceInv PROVE Step
  <2> SUFFICES ASSUME SpacePublished, NEW n \in space'.listed, space.document.blocks[n] # Null
               PROVE  rows'[n].reach = space.document.blocks[n] /\ rows'[n].draftReach = Null
    OBVIOUS
  <2>1. PICK t \in Tabs, ids \in SUBSET Notes : PublishSpace(t, ids) BY DEF SpacePublished
  <2> DEFINE reach == space.document.blocks[n]
  <2>2. n \in Listed(ids) BY <1>1, <2>1, PublishSpaceFields
  <2>3. rows'[n] = ListedRow(rows[n], reach) /\ reach \in Reach \cup {Null} /\ n \in Notes
    BY <1>1, <2>1, <2>2, PublishSpaceFields, BlocksFields
  <2>4. rows[n] \in Row BY <1>1, <2>3 DEF SpaceInv, TypeOK
  <2> HIDE DEF reach
  <2>5. reach # Null BY DEF reach
  <2>6. rows'[n].reach = reach /\ rows'[n].draftReach = Null BY <2>3, <2>4, <2>5, ListedRowFields
  <2>7. QED BY <2>6 DEF reach
<1>2. QED BY <1>1, SpaceInvariant, PTL DEF ReachAsAsked

\* Whatever happens to a child, in its own editor, in the manager or through the
\* space: what its editor shows changes only with a new edit_version.
THEOREM SpaceVersionsItsChildren == Spec => ChildEditsAreVersioned
<1> DEFINE Versioned(n) == \/ rows'[n].version > rows[n].version
                           \/ EditorDoc(rows'[n]) = EditorDoc(rows[n])
                              /\ EditorReach(rows'[n]) = EditorReach(rows[n])
<1>1. ASSUME SpaceInv, [Next]_vars, NEW n \in Notes PROVE Versioned(n)
  <2>1. rows \in [Notes -> Row] /\ rows[n] \in Row /\ rows[n].version \in Nat
    BY <1>1 DEF SpaceInv, TypeOK, Row
  <2>2. rows'[n] = rows[n] => Versioned(n) OBVIOUS
  <2>3. rows'[n].version = rows[n].version + 1 => Versioned(n) BY <2>1
  <2>4. CASE \E m \in Notes : Child(m)
    <3>1. PICK m \in Notes : Child(m) BY <2>4
    <3>2. PICK new \in Row :
            /\ rows' = [rows EXCEPT ![m] = new]
            /\ \/ new.version = rows[m].version + 1
               \/ /\ new.doc = rows[m].doc /\ new.draft = rows[m].draft
                  /\ new.reach = rows[m].reach /\ new.draftReach = rows[m].draftReach
      BY <1>1, <3>1, ChildInv
    <3>3. QED BY <2>1, <2>2, <2>3, <3>2 DEF EditorDoc, EditorReach
  <2>5. CASE \E t \in Tabs, ids \in SUBSET Notes : PublishSpace(t, ids)
    <3>1. PICK t \in Tabs, ids \in SUBSET Notes : PublishSpace(t, ids) BY <2>5
    <3>2. CASE n \in Listed(ids)
      <4> DEFINE reach == space.document.blocks[n]
      <4>1. rows'[n] = ListedRow(rows[n], reach) /\ reach \in Reach \cup {Null}
        BY <1>1, <3>1, <3>2, PublishSpaceFields, BlocksFields
      <4> HIDE DEF reach
      <4>2. rows'[n] = rows[n] \/ rows'[n].version = rows[n].version + 1
        BY <2>1, <4>1, ListedRowFields
      <4>3. QED BY <2>2, <2>3, <4>2
    <3>3. CASE n \notin Listed(ids) BY <1>1, <2>2, <3>1, <3>3, PublishSpaceFields
    <3>4. QED BY <3>2, <3>3
  <2>6. CASE UNCHANGED rows BY <2>2, <2>6
  <2>7. QED BY <1>1, <2>4, <2>5, <2>6
    DEF Next, Editor, GetSpace, PutCount, PutSpace, PutFails, vars
<1>2. SpaceInv /\ [Next]_vars => \A n \in Notes : Versioned(n) BY <1>1
<1>3. QED BY <1>2, SpaceInvariant, PTL DEF Spec, ChildEditsAreVersioned

----------------------------------------------------------------------------
(* The space implements SpacePublication *)

\* The operators of Publication on single notes do not depend on the table.
LEMMA SameOperators == \A x, y :
    /\ Contract!Open(x) <=> Publications!Open(x)
    /\ Contract!Publish(x, y) <=> Publications!Publish(x, y)
    /\ Contract!Step(x, y) <=> Publications!Step(x, y)
<1> TAKE x, y
<1>1. Contract!Open(x) <=> Publications!Open(x) BY DEF Contract!Open, Publications!Open
<1>2. Contract!Absent = Publications!Absent
  BY DEF Contract!Absent, Publications!Absent, Contract!Fresh, Publications!Fresh
<1>3. Contract!Create(x, y) <=> Publications!Create(x, y)
  BY <1>2 DEF Contract!Create, Publications!Create
<1>4. Contract!Edit(x, y) <=> Publications!Edit(x, y)
  BY <1>1 DEF Contract!Edit, Publications!Edit, Contract!Face, Publications!Face
<1>5. Contract!Publish(x, y) <=> Publications!Publish(x, y)
  BY <1>1 DEF Contract!Publish, Publications!Publish
<1>6. Contract!Show(x, y) <=> Publications!Show(x, y)
  BY <1>1 DEF Contract!Show, Publications!Show
<1>7. Contract!Withdraw(x, y) <=> Publications!Withdraw(x, y)
  BY <1>1 DEF Contract!Withdraw, Publications!Withdraw
<1>8. Contract!Delete(x, y) <=> Publications!Delete(x, y)
  BY DEF Contract!Delete, Publications!Delete
<1>9. Contract!Moderate(x, y) <=> Publications!Moderate(x, y)
  BY DEF Contract!Moderate, Publications!Moderate
<1>10. Contract!Forget(x, y) <=> Publications!Forget(x, y)
  BY <1>2 DEF Contract!Forget, Publications!Forget
<1>11. QED
  BY <1>1, <1>3, <1>4, <1>5, <1>6, <1>7, <1>8, <1>9, <1>10 DEF Contract!Step, Publications!Step

\* Publishing a draft with the reach asked for, or its own, is publishing all of it.
LEMMA DraftIsPublishedWhole ==
    ASSUME NEW row \in Row, Publishable(row), ~row.published, NEW reach \in Reach \cup {Null}
    PROVE  Publications!PublishAt(SeenRow(row), SeenRow(ListedRow(row, reach)))
<1> DEFINE pending == [row EXCEPT !.draftReach = Coalesce(reach, row.draftReach)]
           x == SeenRow(row)
           r == EditorReach(pending)
           f == [doc |-> row.doc, reach |-> row.reach]
           a == [doc |-> EditorDoc(row), reach |-> EditorReach(row)]
           b == [doc |-> EditorDoc(row), reach |-> r]
<1>1. ListedRow(row, reach) = PublishedRow(pending) BY DEF ListedRow
<1>2. pending \in Row BY ReachPending
<1>3. /\ pending.doc = row.doc /\ pending.draft = row.draft /\ pending.reach = row.reach
      /\ pending.hidden = row.hidden /\ pending.deleted = row.deleted
      /\ pending.published = row.published
  BY DEF Row
<1>4. EditorDoc(pending) = EditorDoc(row) BY <1>3 DEF EditorDoc
<1>5. Publishable(pending) BY <1>3, <1>4 DEF Publishable, Available
<1>6. r \in Reach BY <1>2, EditorDocType
<1> HIDE DEF pending
<1>7. Publications!Publish(SeenRow(pending), SeenRow(ListedRow(row, reach)))
  BY <1>1, <1>2, <1>5, PublishedIsPublish, SameOperators
<1>8. SeenRow(pending) = [x EXCEPT !.back.reach = r]
  <2>1. SeenRow(pending) = View(RowState(row), row.hidden, f, b)
    BY <1>3, <1>4 DEF SeenRow, RowState
  <2>2. x = View(RowState(row), row.hidden, f, a) BY DEF SeenRow
  <2>3. [a EXCEPT !.reach = r] = b OBVIOUS
  <2> HIDE DEF a, b, f, r, x
  <2>4. x.back = a BY <2>2, ViewParts
  <2>5. [x EXCEPT !.back.reach = r] = [x EXCEPT !.back = b] BY <2>3, <2>4
  <2>6. [x EXCEPT !.back = b] = View(RowState(row), row.hidden, f, b) BY <2>2 DEF View
  <2>7. QED BY <2>1, <2>5, <2>6
<1>9. x.state = "private" BY DEF SeenRow, View, RowState, Publishable, Available
<1> HIDE DEF x, r
<1>10. QED BY <1>6, <1>7, <1>8, <1>9 DEF Publications!PublishAt, x

\* A public child that the space asks for a reach gets that reach and no other change.
LEMMA PublicChildIsRelabelled ==
    ASSUME NEW row \in Row, Available(row), row.published, NEW reach \in Reach
    PROVE  Publications!Relabel(SeenRow(row), SeenRow(ListedRow(row, reach)))
<1> DEFINE new == ListedRow(row, reach)
           x == SeenRow(row)
           y == SeenRow(new)
           f == [doc |-> row.doc, reach |-> row.reach]
           a == [doc |-> EditorDoc(row), reach |-> EditorReach(row)]
           g == [doc |-> row.doc, reach |-> reach]
           b == [doc |-> EditorDoc(row), reach |-> reach]
<1>1. new = [row EXCEPT !.reach = reach, !.draftReach = Null, !.version = row.version + 1]
  BY NullIsNoReach DEF ListedRow
<1>2. /\ new.doc = row.doc /\ new.draft = row.draft /\ new.reach = reach /\ new.draftReach = Null
      /\ new.hidden = row.hidden /\ new.deleted = row.deleted /\ new.published = row.published
  BY <1>1 DEF Row
<1> HIDE DEF new
<1>3. EditorDoc(new) = EditorDoc(row) /\ EditorReach(new) = reach
  BY <1>2 DEF EditorDoc, EditorReach, Coalesce
<1>4. y = View(RowState(row), row.hidden, g, b) BY <1>2, <1>3 DEF SeenRow, RowState
<1>5. x = View(RowState(row), row.hidden, f, a) BY DEF SeenRow
<1>6. x.state = "public" /\ Publications!Open(x)
  BY DEF SeenRow, View, RowState, Available, Publications!Open, Row
<1>7. [f EXCEPT !.reach = reach] = g /\ [a EXCEPT !.reach = reach] = b OBVIOUS
<1> HIDE DEF a, b, f, g, x, y
<1>8. y = [x EXCEPT !.front.reach = reach, !.back.reach = reach]
  <2> DEFINE z == [x EXCEPT !.front = g]
  <2>1. z = View(RowState(row), row.hidden, g, a) BY <1>5 DEF View
  <2>2. x.front = f /\ x.back = a /\ z.back = a BY <1>5, <2>1, ViewParts
  <2>3. [x EXCEPT !.front.reach = reach, !.back.reach = reach]
          = [[x EXCEPT !.front.reach = reach] EXCEPT !.back.reach = reach]
    OBVIOUS
  <2>4. [x EXCEPT !.front.reach = reach] = z BY <1>7, <2>2
  <2> HIDE DEF z
  <2>5. [z EXCEPT !.back.reach = reach] = [z EXCEPT !.back = b] BY <1>7, <2>2
  <2>6. [z EXCEPT !.back = b] = y BY <1>4, <2>1 DEF View
  <2>7. QED BY <2>3, <2>4, <2>5, <2>6
<1>9. QED BY <1>6, <1>8 DEF Publications!Relabel, x, y, new

\* What publishing the space does to a child is one of the three things it may do.
LEMMA ListedRowIsAllowed ==
    ASSUME NEW row \in Row, Available(row), row.published \/ Publishable(row),
           NEW reach \in Reach \cup {Null}
    PROVE  LET x == SeenRow(row)
               y == SeenRow(ListedRow(row, reach))
           IN Publications!PublishAt(x, y) \/ Publications!Relabel(x, y) \/ Publications!Keep(x, y)
<1>1. CASE ~row.published BY <1>1, DraftIsPublishedWhole
<1>2. CASE row.published /\ reach # Null BY <1>2, PublicChildIsRelabelled
<1>3. CASE row.published /\ reach = Null
  <2>1. ListedRow(row, reach) = row BY <1>3 DEF ListedRow
  <2>2. SeenRow(row).state = "public" /\ Publications!Open(SeenRow(row))
    BY <1>3 DEF SeenRow, View, RowState, Available, Publications!Open, Row
  <2>3. QED BY <2>1, <2>2 DEF Publications!Keep
<1>4. QED BY <1>1, <1>2, <1>3

\* What its own handlers do to a child, Publication allows.
LEMMA ChildIsAllowed ==
    ASSUME SpaceInv, NEW n \in Notes, Child(n)
    PROVE  \E new \in Row :
              rows' = [rows EXCEPT ![n] = new] /\ RowMay(SeenRow(rows[n]), SeenRow(new))
<1> DEFINE row == rows[n]
<1>1. row \in Row BY DEF SpaceInv, TypeOK
<1>2. CASE \E doc \in Doc, reach \in Reach \cup {Null} : SaveChild(n, doc, reach)
  <2>1. PICK doc \in Doc, reach \in Reach \cup {Null} : SaveChild(n, doc, reach) BY <1>2
  <2> DEFINE slug == PatchSlug(n, row, doc.title)
  <2>2. slug \in Slugs
    <3>1. doc.title \in Titles BY DEF Doc
    <3>2. QED BY <1>1, <3>1, PatchSlugType
  <2>3. Available(row) /\ rows' = [rows EXCEPT ![n] = Autosaved(row, slug, doc, reach)]
    BY <2>1 DEF SaveChild
  <2> HIDE DEF slug
  <2>4. QED BY <1>1, <2>2, <2>3, AutosavedType, AutosavedIsEdit
<1>3. CASE PublishChild(n)
  <2>1. Publishable(row) /\ rows' = [rows EXCEPT ![n] = PublishedRow(row)]
    BY <1>3 DEF PublishChild
  <2>2. QED BY <1>1, <2>1, PublishedRowType, PublishedIsPublish DEF RowMay, Contract!Step
<1>4. CASE \E action \in {"publish", "hide"} : ManageChild(n, action)
  <2>1. PICK action \in {"publish", "hide"} : ManageChild(n, action) BY <1>4
  <2>2. /\ Available(row) /\ (action = "publish" => Manageable(row))
        /\ rows' = [rows EXCEPT ![n] = Managed(row, action)]
    BY <2>1 DEF ManageChild
  <2>3. QED BY <1>1, <2>2, ManagedType, ManagedIsManaged
<1>5. CASE \E hide \in BOOLEAN : ModerateChild(n, hide)
  <2>1. PICK hide \in BOOLEAN : ModerateChild(n, hide) BY <1>5
  <2> DEFINE new == [row EXCEPT !.hidden = hide]
  <2>2. new \in Row BY <1>1 DEF Row
  <2>3. rows' = [rows EXCEPT ![n] = new] BY <2>1 DEF ModerateChild
  <2>4. RowMay(SeenRow(row), SeenRow(new)) BY <1>1, MarksAreMarks
  <2>5. QED BY <2>2, <2>3, <2>4
<1>6. QED BY <1>2, <1>3, <1>4, <1>5 DEF Child

\* The pages of the space and the handlers of its children together do to the
\* children only what SpacePublication promises.
THEOREM SpaceImplementsPublication == Spec => ImplementsSpacePublication
<1> DEFINE seen == [n \in Notes |-> SeenRow(rows[n])]
           abstract == <<seen, space.revision, space.listed>>
<1>1. Init => Publications!SpaceInit
  <2> SUFFICES ASSUME Init PROVE Publications!SpaceInit OBVIOUS
  <2>1. ASSUME NEW n \in Notes
        PROVE  SeenRow(rows[n]) = [Publications!Absent EXCEPT !.state = "private"]
    <3> DEFINE row == FreshDraft(n)
               f == Publications!Fresh
               h == FALSE
               x == Publications!Absent
    <3>1. rows[n] = row BY DEF Init
    <3>2. /\ row.doc = EmptyDoc /\ row.reach = "semi" /\ row.hidden = h
          /\ RowState(row) = "private" /\ EditorDoc(row) = EmptyDoc /\ EditorReach(row) = "semi"
      BY DEF FreshDraft, NewRow, RowState, EditorDoc, EditorReach, Coalesce
    <3>3. f = [doc |-> EmptyDoc, reach |-> "semi"] BY DEF Publications!Fresh
    <3>4. x = View("absent", h, f, f) BY DEF View, Publications!Absent
    <3> HIDE DEF row, f, h, x
    <3>5. SeenRow(row) = View("private", h, f, f) BY <3>2, <3>3 DEF SeenRow
    <3>6. [x EXCEPT !.state = "private"] = View("private", h, f, f) BY <3>4 DEF View
    <3>7. QED BY <3>1, <3>5, <3>6 DEF x
  <2>2. space.revision = 0 /\ space.listed = {} BY DEF Init
  <2>3. QED BY <2>1, <2>2 DEF Publications!SpaceInit
<1>2. SpaceInv /\ [Next]_vars => [Publications!SpaceNext]_abstract
  <2> SUFFICES ASSUME SpaceInv, [Next]_vars PROVE [Publications!SpaceNext]_abstract OBVIOUS
  <2>1. rows \in [Notes -> Row] /\ space \in SpaceRow BY DEF SpaceInv, TypeOK
  <2>2. ASSUME UNCHANGED <<rows, space>> PROVE UNCHANGED abstract BY <2>2
  <2>3. CASE UNCHANGED vars BY <2>2, <2>3 DEF vars
  <2>4. ASSUME NEW n \in Notes, Child(n) PROVE Publications!ChildStep \/ UNCHANGED abstract
    <3>1. PICK new \in Row :
             rows' = [rows EXCEPT ![n] = new] /\ RowMay(SeenRow(rows[n]), SeenRow(new))
      BY <2>4, ChildIsAllowed
    <3>2. UNCHANGED <<space, tab>> BY <2>4, ChildInv
    <3>3. rows'[n] = new /\ \A m \in Notes \ {n} : rows'[m] = rows[m] BY <2>1, <3>1
    <3>4. CASE SeenRow(new) = SeenRow(rows[n]) BY <3>2, <3>3, <3>4
    <3>5. CASE Contract!Step(SeenRow(rows[n]), SeenRow(new))
      <4>1. Publications!Step(SeenRow(rows[n]), SeenRow(rows'[n])) BY <3>3, <3>5, SameOperators
      <4>2. QED BY <3>2, <3>3, <4>1 DEF Publications!ChildStep
    <3>6. QED BY <3>1, <3>4, <3>5 DEF RowMay
  <2>5. ASSUME NEW t \in Tabs, NEW ids \in SUBSET Notes, PublishSpace(t, ids)
        PROVE  Publications!PublishStep
    <3> DEFINE blocks == space.document.blocks
    <3>1. /\ space.document \in Document
          /\ Listed(ids) \subseteq DOMAIN blocks /\ Listed(ids) \subseteq Notes
          /\ \A n \in Listed(ids) : rows'[n] = ListedRow(rows[n], blocks[n])
          /\ \A n \in Notes \ Listed(ids) : rows'[n] = rows[n]
          /\ space'.revision = space.revision + 1 /\ space'.listed = Listed(ids)
      BY <2>5, PublishSpaceFields
    <3>2. /\ \A n \in DOMAIN blocks : Available(rows[n])
          /\ \A n \in Listed(ids) : rows[n].published \/ Publishable(rows[n])
      BY <2>5 DEF PublishSpace
    <3>3. \A n \in DOMAIN blocks : blocks[n] \in Reach \cup {Null} BY <3>1, BlocksFields
    <3> HIDE DEF blocks
    <3>4. ASSUME NEW n \in Notes
          PROVE  LET x == SeenRow(rows[n])
                     y == SeenRow(rows'[n])
                 IN IF n \in space'.listed
                    THEN Publications!PublishAt(x, y) \/ Publications!Relabel(x, y)
                         \/ Publications!Keep(x, y)
                    ELSE y = x
      <4>1. CASE n \in Listed(ids)
        <5>1. /\ rows[n] \in Row /\ Available(rows[n]) /\ blocks[n] \in Reach \cup {Null}
              /\ rows[n].published \/ Publishable(rows[n])
              /\ rows'[n] = ListedRow(rows[n], blocks[n])
          BY <2>1, <3>1, <3>2, <3>3, <4>1
        <5>2. QED BY <3>1, <4>1, <5>1, ListedRowIsAllowed
      <4>2. CASE n \notin Listed(ids) BY <3>1, <4>2
      <4>3. QED BY <4>1, <4>2
    <3>5. QED BY <3>1, <3>4 DEF Publications!PublishStep
  <2>6. ASSUME NEW t \in Tabs, PutSpace(t) PROVE Publications!SaveStep
    BY <2>1, <2>6 DEF PutSpace, SpaceRow, Publications!SaveStep
  <2>7. QED BY <2>2, <2>3, <2>4, <2>5, <2>6
    DEF Next, Editor, GetSpace, PutCount, PutFails, Publications!SpaceNext
<1>3. QED BY <1>1, <1>2, SpaceInvariant, PTL DEF Spec, ImplementsSpacePublication, Publications!SpaceSpec
=============================================================================
