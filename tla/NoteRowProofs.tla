--------------------------- MODULE NoteRowProofs ---------------------------
(* What the updates of one row keep and set.                                *)
EXTENDS NoteRow, TLAPS

----------------------------------------------------------------------------
(* The row updates keep a row's type. *)

\* COALESCE of a value that may be NULL and a fallback of the same set.
LEMMA CoalesceType ==
    ASSUME NEW S, NEW x \in S \cup {Null}, NEW y \in S
    PROVE  Coalesce(x, y) \in S
BY DEF Coalesce

\* An editor shows a document and a reach.
LEMMA EditorDocType ==
    ASSUME NEW row \in Row
    PROVE  EditorDoc(row) \in Doc /\ EditorReach(row) \in Reach
<1>1. row.draft \in Doc \cup {Null} /\ row.doc \in Doc BY DEF Row
<1>2. row.draftReach \in Reach \cup {Null} /\ row.reach \in Reach BY DEF Row
<1>3. QED BY <1>1, <1>2, CoalesceType DEF EditorDoc, EditorReach

\* The three forms of a slug.
LEMMA SlugTypes ==
    /\ \A n \in Notes : DraftSlug(n) \in Slugs /\ FallbackSlug(n) \in Slugs
    /\ \A s \in SlugNames : TitleSlug(s) \in Slugs
BY DEF DraftSlug, FallbackSlug, TitleSlug, Slugs

\* The empty document is one.
LEMMA EmptyDocType == EmptyDoc \in Doc
BY TextAssumption DEF EmptyDoc, Doc

\* An inserted row is a row.
LEMMA NewRowType ==
    ASSUME NEW slug \in Slugs, NEW doc \in Doc, NEW reach \in Reach
    PROVE  NewRow(slug, doc, reach) \in Row
<1>1. doc.body \in Bodies BY DEF Doc
<1>2. QED BY <1>1 DEF NewRow, Row

\* What createDraft inserts is a row.
LEMMA FreshDraftType ==
    ASSUME NEW n \in Notes
    PROVE  FreshDraft(n) \in Row
<1>1. "semi" \in Reach BY DEF Reach
<1>2. QED BY <1>1, SlugTypes, EmptyDocType, NewRowType DEF FreshDraft

\* Ranking keeps the type.
LEMMA AssignedType ==
    ASSUME NEW row \in Row
    PROVE  Assigned(row) \in Row
BY DEF Assigned, Row

\* Both branches of an autosave keep the type.
LEMMA AutosavedType ==
    ASSUME NEW row \in Row, NEW slug \in Slugs, NEW doc \in Doc, NEW reach \in Reach \cup {Null}
    PROVE  Autosaved(row, slug, doc, reach) \in Row
<1>1. Coalesce(reach, row.draftReach) \in Reach \cup {Null}
  BY DEF Coalesce, Row
<1>2. doc.body \in Bodies /\ row.version + 1 \in Nat BY DEF Doc, Row
<1>3. SavedAside(row, doc, reach) \in Row
  BY <1>1, <1>2 DEF SavedAside, Row
<1>4. SavedInPlace(row, slug, doc, reach) \in Row
  BY <1>1, <1>2 DEF SavedInPlace, Row
<1>5. QED BY <1>3, <1>4 DEF Autosaved

\* Publishing keeps the type.
LEMMA PublishedRowType ==
    ASSUME NEW row \in Row
    PROVE  PublishedRow(row) \in Row
<1> DEFINE r == [row EXCEPT !.doc = EditorDoc(row), !.draft = Null,
                            !.reach = EditorReach(row), !.draftReach = Null,
                            !.published = TRUE, !.version = row.version + 1,
                            !.index = EditorDoc(row).body]
<1>1. EditorDoc(row) \in Doc /\ EditorReach(row) \in Reach BY EditorDocType
<1>2. EditorDoc(row).body \in Bodies /\ row.version + 1 \in Nat BY <1>1 DEF Doc, Row
<1>3. r \in Row BY <1>1, <1>2 DEF Row
<1>4. PublishedRow(row) = Assigned(r) BY DEF PublishedRow
<1>5. QED BY <1>3, <1>4, AssignedType

\* The three actions of the note manager keep the type.
LEMMA ManagedType ==
    ASSUME NEW row \in Row, NEW action \in {"publish", "hide", "delete"}
    PROVE  Managed(row, action) \in Row
<1>1. CASE action = "publish"
  <2>1. [row EXCEPT !.published = TRUE] \in Row BY DEF Row
  <2>2. QED BY <1>1, <2>1, AssignedType DEF Managed
<1>2. CASE action = "hide"
  BY <1>2 DEF Managed, Row
<1>3. CASE action = "delete"
  BY <1>3 DEF Managed, Row
<1>4. QED BY <1>1, <1>2, <1>3

\* PatchNote computes a slug.
LEMMA PatchSlugType ==
    ASSUME NEW n \in Notes, NEW row \in Row, NEW title \in Titles
    PROVE  PatchSlug(n, row, title) \in Slugs
<1>1. row.slug \in Slugs BY DEF Row
<1>2. Kebab[title] # Null => Kebab[title] \in SlugNames BY TextAssumption
<1>3. QED BY <1>1, <1>2, SlugTypes DEF PatchSlug

----------------------------------------------------------------------------
(* What they set, field by field. *)

\* What an autosave sets, field by field.
LEMMA AutosavedFields ==
    ASSUME NEW row \in Row, NEW slug \in Slugs, NEW doc \in Doc, NEW reach \in Reach \cup {Null}
    PROVE  LET new == Autosaved(row, slug, doc, reach) IN
           /\ new.published = row.published /\ new.reach = row.reach
           /\ row.published => new.slug = row.slug /\ new.doc = row.doc
           /\ new.version = row.version + 1
           /\ new.hidden = row.hidden /\ new.deleted = row.deleted
BY DEF Autosaved, SavedAside, SavedInPlace, Row

\* What publishing sets, field by field.
LEMMA PublishedRowFields ==
    ASSUME NEW row \in Row
    PROVE  /\ PublishedRow(row).published = TRUE
           /\ PublishedRow(row).ranked = TRUE
           /\ PublishedRow(row).draft = Null
           /\ PublishedRow(row).draftReach = Null
           /\ PublishedRow(row).doc = EditorDoc(row)
           /\ PublishedRow(row).reach = EditorReach(row)
           /\ PublishedRow(row).index = EditorDoc(row).body
           /\ PublishedRow(row).slug = row.slug
           /\ PublishedRow(row).version = row.version + 1
           /\ PublishedRow(row).hidden = row.hidden
           /\ PublishedRow(row).deleted = row.deleted
BY DEF PublishedRow, Assigned, Row

\* What the note manager sets, field by field.
LEMMA ManagedFields ==
    ASSUME NEW row \in Row, NEW action \in {"publish", "hide", "delete"}
    PROVE  LET r == Managed(row, action) IN
           /\ r.doc = row.doc /\ r.draft = row.draft /\ r.slug = row.slug
           /\ r.reach = row.reach /\ r.draftReach = row.draftReach
           /\ r.version = row.version /\ r.index = row.index /\ r.hidden = row.hidden
           /\ row.deleted => r.deleted
           /\ r.published => row.published \/ action = "publish"
           /\ row.ranked \/ action = "publish" => r.ranked
BY DEF Managed, Assigned, Row

\* What setting the marks leaves alone.
LEMMA MarkFields ==
    ASSUME NEW row \in Row, NEW b \in BOOLEAN
    PROVE  /\ LET new == [row EXCEPT !.deleted = b] IN
              /\ new.doc = row.doc /\ new.draft = row.draft /\ new.slug = row.slug
              /\ new.reach = row.reach /\ new.draftReach = row.draftReach
              /\ new.version = row.version /\ new.published = row.published
              /\ new.hidden = row.hidden /\ new.deleted = b
           /\ LET new == [row EXCEPT !.hidden = b] IN
              /\ new.doc = row.doc /\ new.draft = row.draft /\ new.slug = row.slug
              /\ new.reach = row.reach /\ new.draftReach = row.draftReach
              /\ new.version = row.version /\ new.published = row.published
              /\ new.hidden = b /\ new.deleted = row.deleted
BY DEF Row

----------------------------------------------------------------------------
(* What the row updates are to Publication *)

Contract == INSTANCE Publication WITH notes <- Null, Titled <- HasTitle

\* The parts of a view.
LEMMA ViewParts ==
    \A s, h, f, b : LET v == View(s, h, f, b)
                    IN v.state = s /\ v.hidden = h /\ v.front = f /\ v.back = b
BY DEF View

RowMay(x, y) == x = y \/ Contract!Step(x, y)

\* Autosaving is editing.
LEMMA AutosavedIsEdit ==
    ASSUME NEW row \in Row, Available(row), NEW slug \in Slugs, NEW doc \in Doc,
           NEW reach \in Reach \cup {Null}
    PROVE  RowMay(SeenRow(row), SeenRow(Autosaved(row, slug, doc, reach)))
<1> DEFINE new == Autosaved(row, slug, doc, reach)
           x == SeenRow(row)
           y == SeenRow(new)
<1>1. new \in Row BY AutosavedType
<1>2. y.back \in Contract!Face
  BY <1>1, EditorDocType DEF SeenRow, View, Contract!Face
<1>3. /\ new.deleted = row.deleted /\ new.hidden = row.hidden /\ new.published = row.published
      /\ new.reach = row.reach
  BY AutosavedFields
<1>4. new.doc = IF row.published THEN row.doc ELSE EditorDoc(new)
  BY NullIsNoDoc DEF Autosaved, SavedAside, SavedInPlace, EditorDoc, Coalesce, Row
<1>5. Contract!Open(x)
  BY DEF Available, Contract!Open, SeenRow, View, RowState, Row
<1> HIDE DEF new
<1>6. y = [x EXCEPT !.back = y.back,
                    !.front = [doc |-> IF x.state = "public" THEN x.front.doc ELSE y.back.doc,
                               reach |-> x.front.reach]]
  <2>1. RowState(new) = RowState(row) BY <1>3 DEF RowState
  <2>2. x.state = "public" <=> row.published BY DEF SeenRow, View, RowState, Available
  <2> DEFINE b == [doc |-> EditorDoc(new), reach |-> EditorReach(new)]
             g == [doc |-> new.doc, reach |-> row.reach]
             f == [doc |-> row.doc, reach |-> row.reach]
             a == [doc |-> EditorDoc(row), reach |-> EditorReach(row)]
  <2>3. x = View(RowState(row), row.hidden, f, a) /\ y = View(RowState(row), row.hidden, g, b)
    BY <1>3, <2>1 DEF SeenRow
  <2>4. g = [doc |-> IF x.state = "public" THEN f.doc ELSE b.doc, reach |-> f.reach]
    BY <1>4, <2>2
  <2> HIDE DEF a, b, f, g, x, y
  <2>5. y.back = b /\ x.front = f BY <2>3, ViewParts
  <2>6. y = [x EXCEPT !.back = b, !.front = g]
    <3> DEFINE z == [x EXCEPT !.back = b]
    <3>1. z = View(RowState(row), row.hidden, f, b) BY <2>3 DEF View
    <3>2. [x EXCEPT !.back = b, !.front = g] = [z EXCEPT !.front = g] OBVIOUS
    <3> HIDE DEF z
    <3>3. [z EXCEPT !.front = g] = y BY <2>3, <3>1 DEF View
    <3>4. QED BY <3>2, <3>3
  <2>7. QED BY <2>4, <2>5, <2>6
<1>7. Contract!Edit(x, y) BY <1>2, <1>5, <1>6 DEF Contract!Edit
<1>8. QED BY <1>7 DEF RowMay, Contract!Step, new

\* Publishing a row is publishing.
LEMMA PublishedIsPublish ==
    ASSUME NEW row \in Row, Publishable(row)
    PROVE  Contract!Publish(SeenRow(row), SeenRow(PublishedRow(row)))
<1> DEFINE new == PublishedRow(row)
           x == SeenRow(row)
           y == SeenRow(new)
<1>1. /\ new.published = TRUE /\ new.draft = Null /\ new.draftReach = Null
      /\ new.doc = EditorDoc(row) /\ new.reach = EditorReach(row)
      /\ new.hidden = row.hidden /\ new.deleted = row.deleted
  BY PublishedRowFields DEF PublishedRow, Assigned, Row
<1>2. EditorDoc(new) = new.doc /\ EditorReach(new) = new.reach
  BY <1>1 DEF EditorDoc, EditorReach, Coalesce
<1> HIDE DEF new
<1>3. Contract!Open(x) /\ HasTitle(x.back.doc)
  BY DEF Publishable, Available, Contract!Open, SeenRow, View, RowState, HasTitle, Row
<1>4. y = [x EXCEPT !.state = "public", !.front = x.back]
  <2>1. RowState(new) = "public" BY <1>1 DEF RowState, Publishable, Available
  <2> DEFINE f == [doc |-> row.doc, reach |-> row.reach]
             b == [doc |-> EditorDoc(row), reach |-> EditorReach(row)]
  <2>2. y = View("public", row.hidden, b, b) BY <1>1, <1>2, <2>1 DEF SeenRow
  <2>3. x = View(RowState(row), row.hidden, f, b) BY DEF SeenRow
  <2> HIDE DEF b, f, x, y
  <2>4. x.back = b BY <2>3, ViewParts
  <2>5. y = [x EXCEPT !.state = "public", !.front = b]
    <3> DEFINE z == [x EXCEPT !.state = "public"]
    <3>1. z = View("public", row.hidden, f, b) BY <2>3 DEF View
    <3>2. [x EXCEPT !.state = "public", !.front = b] = [z EXCEPT !.front = b] OBVIOUS
    <3> HIDE DEF z
    <3>3. [z EXCEPT !.front = b] = y BY <2>2, <3>1 DEF View
    <3>4. QED BY <3>2, <3>3
  <2>6. QED BY <2>4, <2>5
<1>5. QED BY <1>3, <1>4 DEF Contract!Publish, new

\* The note manager shows, withdraws and deletes.
LEMMA ManagedIsManaged ==
    ASSUME NEW row \in Row, Available(row), NEW action \in {"publish", "hide", "delete"},
           action = "publish" => Manageable(row)
    PROVE  RowMay(SeenRow(row), SeenRow(Managed(row, action)))
<1> DEFINE new == Managed(row, action)
           x == SeenRow(row)
           y == SeenRow(new)
<1>1. /\ new.doc = row.doc /\ new.draft = row.draft /\ new.reach = row.reach
      /\ new.draftReach = row.draftReach /\ new.hidden = row.hidden
  BY ManagedFields
<1>2. /\ new.deleted = (action = "delete" \/ row.deleted)
      /\ new.published = (action = "publish" \/ (action = "delete" /\ row.published))
  BY DEF Managed, Assigned, Row
<1>3. EditorDoc(new) = EditorDoc(row) /\ EditorReach(new) = EditorReach(row)
  BY <1>1 DEF EditorDoc, EditorReach
<1> HIDE DEF new
<1>4. Contract!Open(x)
  BY DEF Available, Contract!Open, SeenRow, View, RowState, Row
<1>9. y = [x EXCEPT !.state = RowState(new)]
  <2> DEFINE f == [doc |-> row.doc, reach |-> row.reach]
             b == [doc |-> EditorDoc(row), reach |-> EditorReach(row)]
  <2>1. y = View(RowState(new), row.hidden, f, b) BY <1>1, <1>3 DEF SeenRow
  <2>2. x = View(RowState(row), row.hidden, f, b) BY DEF SeenRow
  <2> HIDE DEF b, f, x, y
  <2>3. QED BY <2>1, <2>2 DEF View
<1>5. CASE action = "publish"
  <2>1. HasTitle(x.front.doc) BY <1>5 DEF Manageable, HasTitle, SeenRow, View
  <2>2. y = [x EXCEPT !.state = "public"]
    <3>1. RowState(new) = "public" BY <1>2, <1>5 DEF RowState, Available
    <3>2. QED BY <1>9, <3>1
  <2>3. QED BY <1>4, <2>1, <2>2 DEF RowMay, Contract!Step, Contract!Show, new
<1>6. CASE action = "hide"
  <2>1. y = [x EXCEPT !.state = "private"]
    <3>1. RowState(new) = "private" BY <1>2, <1>6 DEF RowState, Available
    <3>2. QED BY <1>9, <3>1
  <2>2. QED BY <1>4, <2>1 DEF RowMay, Contract!Step, Contract!Withdraw, new
<1>7. CASE action = "delete"
  <2>1. y = [x EXCEPT !.state = "deleted"]
    <3>1. RowState(new) = "deleted" BY <1>2, <1>7 DEF RowState, Available
    <3>2. QED BY <1>9, <3>1
  <2>2. x.state \in {"private", "public"} BY <1>4 DEF Contract!Open
  <2>3. QED BY <2>1, <2>2 DEF RowMay, Contract!Step, Contract!Delete, new
<1>8. QED BY <1>5, <1>6, <1>7

\* Deletion and moderation of any row.
LEMMA MarksAreMarks ==
    ASSUME NEW row \in Row, NEW b \in BOOLEAN
    PROVE  LET gone == [row EXCEPT !.deleted = TRUE]
               marked == [row EXCEPT !.hidden = b]
           IN RowMay(SeenRow(row), SeenRow(gone)) /\ RowMay(SeenRow(row), SeenRow(marked))
<1> DEFINE x == SeenRow(row)
           gone == [row EXCEPT !.deleted = TRUE]
           marked == [row EXCEPT !.hidden = b]
<1>1. /\ gone.doc = row.doc /\ gone.reach = row.reach /\ gone.hidden = row.hidden
      /\ EditorDoc(gone) = EditorDoc(row) /\ EditorReach(gone) = EditorReach(row)
      /\ gone.deleted = TRUE
  BY DEF EditorDoc, EditorReach, Row
<1>2. /\ marked.doc = row.doc /\ marked.reach = row.reach /\ marked.hidden = b
      /\ EditorDoc(marked) = EditorDoc(row) /\ EditorReach(marked) = EditorReach(row)
      /\ marked.deleted = row.deleted /\ marked.published = row.published
  BY DEF EditorDoc, EditorReach, Row
<1>3. row.deleted \in BOOLEAN BY DEF Row
<1> HIDE DEF gone, marked
<1>8. SUFFICES RowMay(x, SeenRow(gone)) /\ RowMay(x, SeenRow(marked)) BY DEF gone, marked
<1>4. ASSUME row.deleted PROVE RowMay(x, SeenRow(gone))
  <2>1. SeenRow(gone) = x BY <1>1, <1>4 DEF SeenRow, View, RowState
  <2>2. QED BY <2>1 DEF RowMay
<1>5. ASSUME ~row.deleted PROVE RowMay(x, SeenRow(gone))
  <2>1. SeenRow(gone) = [x EXCEPT !.state = "deleted"] BY <1>1 DEF SeenRow, View, RowState
  <2>2. x.state \in {"private", "public"} BY <1>5 DEF SeenRow, View, RowState
  <2>3. QED BY <2>1, <2>2 DEF RowMay, Contract!Step, Contract!Delete
<1>6. RowMay(x, SeenRow(marked))
  <2>1. SeenRow(marked) = [x EXCEPT !.hidden = b] BY <1>2 DEF SeenRow, View, RowState
  <2>2. x.state \in {"private", "public", "deleted"} BY DEF SeenRow, View, RowState
  <2>3. SeenRow(marked).hidden = b BY <1>2 DEF SeenRow, View
  <2>4. QED BY <2>1, <2>2, <2>3 DEF RowMay, Contract!Step, Contract!Moderate
<1>7. QED BY <1>4, <1>5, <1>6
=============================================================================
