---------------------------- MODULE EditorProofs ----------------------------
(* The editor page, for any number of tabs, edits, requests and losses.      *)
EXTENDS Editor, NoteRowProofs

----------------------------------------------------------------------------
(* The invariant *)

\* What a page knows of the server.  Its revision is never ahead, and with the
\* current one it knows the current text; an accepted save or publish, while its
\* answer is on the way, is newer than what the page knows.
Knows(p) ==
    /\ p.revision <= row.version
    /\ p.revision = row.version => p.base = ServerForm(row)
    /\ p.saved # Null =>
          /\ p.request # Null /\ p.published = Null
          /\ p.revision < p.saved /\ p.saved <= row.version
          /\ p.saved = row.version => p.request = ServerForm(row)
    /\ p.published # Null =>
          /\ p.revision < p.published /\ p.published <= row.version
          /\ p.published = row.version => p.base = ServerForm(row)
    /\ ~p.open => p.request = Null /\ p.waiting = FALSE /\ p.publish = "no"

\* What a page tells its writer.
Tells(p) ==
    /\ p.status = "saved" => p.form = p.base
    /\ p.request # Null => p.status # "saved" /\ ~p.failed
    /\ p.form # p.base => p.timer \/ p.request # Null \/ p.waiting \/ p.status = "error"
    /\ p.failed /\ p.request = Null /\ p.form # p.base => p.timer \/ p.status = "error"

\* A request the server would accept was sent by a page that knew its text.
SentKnowing(m) ==
    /\ m.revision <= row.version
    /\ m.revision = row.version =>
          /\ m.base = ServerForm(row)
          /\ m.kind = "publish" => m.form = m.base

\* Such a request is what its page p is waiting for.
AwaitedBy(m, p) ==
    m.revision = row.version =>
        /\ m.revision <= p.revision
        /\ m.kind = "patch" => m.form = p.request

EditorInv ==
    /\ TypeOK
    /\ row.version = 0 => ServerForm(row) = ServerForm(FreshDraft(Note))
    /\ \A t \in Tabs : Knows(tab[t]) /\ Tells(tab[t])
    /\ \A m \in net : SentKnowing(m) /\ (m.tab # Null => AwaitedBy(m, tab[m.tab]))

----------------------------------------------------------------------------
(* Types and fields *)

\* An editor shows a form.
LEMMA ServerFormType ==
    ASSUME NEW r \in Row
    PROVE  ServerForm(r) \in Form
BY EditorDocType DEF ServerForm, Form

\* A page as it is rendered, open or about to be closed.
LEMMA PageType ==
    ASSUME NEW r \in Row, NEW saved \in Doc \cup {Null}
    PROVE  Page(r, saved) \in Tab /\ Closed(Page(r, saved)) \in Tab
<1>1. EditorDoc(r) \in Doc /\ ServerForm(r) \in Form BY EditorDocType, ServerFormType
<1>2. r.version \in Nat BY DEF Row
<1>3. Page(r, saved) \in Tab BY <1>1, <1>2 DEF Page, Tab
<1>4. QED BY <1>3 DEF Closed, Tab

\* Its fields.
LEMMA PageFields ==
    ASSUME NEW r \in Row, NEW saved \in Doc \cup {Null},
           NEW p \in {Page(r, saved), Closed(Page(r, saved))}
    PROVE  /\ p.form = ServerForm(r) /\ p.base = ServerForm(r) /\ p.revision = r.version
           /\ p.request = Null /\ p.saved = Null /\ p.published = Null
           /\ p.failed = FALSE /\ p.waiting = FALSE /\ p.publish = "no"
BY DEF Page, Closed

\* A draft as createDraft makes it.
LEMMA FreshDraftVersion == FreshDraft(Note) \in Row /\ FreshDraft(Note).version = 0
<1>1. FreshDraft(Note) \in Row BY EditorAssumption, FreshDraftType
<1>2. QED BY <1>1 DEF FreshDraft, NewRow

\* A page that starts to save, or to wait for the save in flight.
LEMMA SavingFields ==
    ASSUME NEW p \in Tab
    PROVE  LET q == Saving(p) IN
           /\ q \in Tab
           /\ q.open = p.open /\ q.form = p.form /\ q.base = p.base /\ q.revision = p.revision
           /\ q.saved = p.saved /\ q.published = p.published /\ q.publish = p.publish
           /\ p.request # Null => q.request = p.request /\ q.waiting = TRUE
                                  /\ q.status = p.status /\ q.failed = p.failed
           /\ p.request = Null => q.request = p.form /\ q.waiting = p.waiting
                                  /\ q.status = "saving" /\ q.failed = FALSE
<1>1. CASE p.request # Null
  <2>1. Saving(p) = [p EXCEPT !.timer = FALSE, !.waiting = TRUE] BY <1>1 DEF Saving
  <2>2. QED BY <1>1, <2>1 DEF Tab
<1>2. CASE p.request = Null
  <2>1. Saving(p) = [p EXCEPT !.timer = FALSE, !.request = p.form, !.failed = FALSE, !.status = "saving"]
    BY <1>2 DEF Saving
  <2>2. p.form \in Form BY DEF Tab
  <2>3. QED BY <1>2, <2>1, <2>2 DEF Tab
<1>3. QED BY <1>1, <1>2

\* A request of a page.
LEMMA RequestFields ==
    ASSUME NEW t \in Tabs, NEW kind \in {"patch", "publish"}, NEW p \in Tab
    PROVE  LET m == Request(t, kind, p) IN
           /\ m \in Msg
           /\ m.tab = t /\ m.kind = kind /\ m.form = p.form
           /\ m.revision = p.revision /\ m.base = p.base
BY DEF Request, Msg, Tab

\* Requests nobody waits for any more are gone, or the same but late.
LEMMA GiveUpFields ==
    ASSUME net \subseteq Msg, NEW t \in Tabs, NEW kinds \in SUBSET {"patch", "publish"}, GiveUp(t, kinds)
    PROVE  \A m \in net' :
              \/ m \in net /\ ~(m.tab = t /\ m.kind \in kinds)
              \/ /\ m \in Msg /\ m.tab = Null
                 /\ \E k \in net : m.kind = k.kind /\ m.form = k.form /\ m.revision = k.revision
                                   /\ m.base = k.base
<1>1. PICK late \in SUBSET Abandoned(t, kinds) :
        net' = (net \ Abandoned(t, kinds)) \cup {[m EXCEPT !.tab = Null] : m \in late}
  BY DEF GiveUp
<1>2. Abandoned(t, kinds) \subseteq net BY DEF Abandoned
<1>3. \A k \in late : LET m == [k EXCEPT !.tab = Null] IN
        m \in Msg /\ m.tab = Null /\ m.kind = k.kind /\ m.form = k.form /\ m.revision = k.revision
        /\ m.base = k.base
  BY <1>1, <1>2 DEF Msg
<1> SUFFICES ASSUME NEW m \in net'
             PROVE  \/ m \in net /\ ~(m.tab = t /\ m.kind \in kinds)
                    \/ /\ m \in Msg /\ m.tab = Null
                       /\ \E k \in net : m.kind = k.kind /\ m.form = k.form /\ m.revision = k.revision
                                         /\ m.base = k.base
  OBVIOUS
<1>4. CASE m \in net \ Abandoned(t, kinds) BY <1>4 DEF Abandoned
<1>5. CASE \E k \in late : m = [k EXCEPT !.tab = Null]
  <2>1. PICK k \in late : m = [k EXCEPT !.tab = Null] BY <1>5
  <2>2. k \in net BY <1>1, <1>2
  <2>3. QED BY <1>3, <2>1, <2>2
<1>6. QED BY <1>1, <1>4, <1>5

----------------------------------------------------------------------------
(* A page moves, the server rests *)

\* The requests sent so far may still be what the page p waits for.
Follows(t, p) == \A m \in net : m.tab = t => AwaitedBy(m, p)

\* One page becomes p.
LEMMA PageMoves ==
    ASSUME EditorInv, NEW t \in Tabs, NEW p \in Tab, Knows(p), Tells(p),
           row' = row, tab' = [tab EXCEPT ![t] = p],
           copy' \in Doc \cup {Null}, edits' \in Nat, opens' \in Nat,
           \A m \in net' :
              /\ m \in Msg /\ SentKnowing(m)
              /\ m.tab = t => AwaitedBy(m, p)
              /\ m.tab # t /\ m.tab # Null => m \in net
    PROVE  EditorInv'
<1>1. tab \in [Tabs -> Tab] /\ row \in Row BY DEF EditorInv, TypeOK
<1>2. tab' \in [Tabs -> Tab] /\ tab'[t] = p /\ \A u \in Tabs \ {t} : tab'[u] = tab[u] BY <1>1
<1>3. TypeOK' BY <1>1, <1>2 DEF TypeOK
<1>4. \A u \in Tabs : Knows(tab'[u]) /\ Tells(tab'[u]) BY <1>2 DEF EditorInv
<1>5. (\A u \in Tabs : Knows(tab[u]) /\ Tells(tab[u]))' BY <1>4 DEF Knows, Tells
<1>6. ASSUME NEW m \in net' PROVE SentKnowing(m)' /\ (m.tab # Null => AwaitedBy(m, tab[m.tab])')
  <2>1. SentKnowing(m)' BY DEF SentKnowing
  <2>2. m.tab \in Tabs \cup {Null} BY DEF Msg
  <2>3. m.tab = t => AwaitedBy(m, tab'[m.tab]) BY <1>2
  <2>4. m.tab # t /\ m.tab # Null => AwaitedBy(m, tab'[m.tab]) BY <1>2, <2>2 DEF EditorInv
  <2>5. QED BY <2>1, <2>3, <2>4 DEF AwaitedBy
<1>7. QED BY <1>3, <1>5, <1>6 DEF EditorInv

\* It sends nothing and gives up nothing.
LEMMA PageMovesAlone ==
    ASSUME EditorInv, NEW t \in Tabs, NEW p \in Tab, Knows(p), Tells(p), Follows(t, p),
           row' = row, tab' = [tab EXCEPT ![t] = p], net' = net,
           copy' \in Doc \cup {Null}, edits' \in Nat, opens' \in Nat
    PROVE  EditorInv'
<1>1. \A m \in net' :
        /\ m \in Msg /\ SentKnowing(m)
        /\ m.tab = t => AwaitedBy(m, p)
        /\ m.tab # t /\ m.tab # Null => m \in net
  BY DEF EditorInv, TypeOK, Follows
<1>2. QED BY <1>1, PageMoves

\* It gives up requests of some kinds.
LEMMA PageGivesUp ==
    ASSUME EditorInv, NEW t \in Tabs, NEW p \in Tab, Knows(p), Tells(p),
           NEW kinds \in SUBSET {"patch", "publish"}, GiveUp(t, kinds),
           \A m \in net : m.tab = t /\ m.kind \notin kinds => AwaitedBy(m, p),
           row' = row, tab' = [tab EXCEPT ![t] = p],
           copy' \in Doc \cup {Null}, edits' \in Nat, opens' \in Nat
    PROVE  EditorInv'
<1>0. net \subseteq Msg /\ Null \notin Tabs BY EditorAssumption DEF EditorInv, TypeOK
<1>1. ASSUME NEW m \in net'
      PROVE  /\ m \in Msg /\ SentKnowing(m)
             /\ m.tab = t => AwaitedBy(m, p)
             /\ m.tab # t /\ m.tab # Null => m \in net
  <2>1. CASE m \in net /\ ~(m.tab = t /\ m.kind \in kinds) BY <1>0, <2>1 DEF EditorInv
  <2>2. CASE /\ m \in Msg /\ m.tab = Null
             /\ \E k \in net : m.kind = k.kind /\ m.form = k.form /\ m.revision = k.revision
                               /\ m.base = k.base
    BY <1>0, <2>2 DEF EditorInv, SentKnowing
  <2>3. QED BY <1>0, <2>1, <2>2, GiveUpFields
<1>2. QED BY <1>1, PageMoves

\* It saves.
LEMMA PageSaves ==
    ASSUME EditorInv, NEW t \in Tabs, NEW p \in Tab, Knows(p), p.open, Follows(t, p),
           p.request # Null => p.status # "saved" /\ ~p.failed,
           row' = row, Save(t, p),
           copy' \in Doc \cup {Null}, edits' \in Nat, opens' \in Nat
    PROVE  EditorInv'
<1> DEFINE q == Saving(p)
           sent == Request(t, "patch", p)
<1>0. net \subseteq Msg /\ Null \notin Tabs /\ Null \notin Form /\ p.form \in Form
  BY EditorAssumption, NullIsNoForm DEF EditorInv, TypeOK, Tab
<1>1. tab' = [tab EXCEPT ![t] = q] /\ net' = net \cup Sent(t, p) BY DEF Save
<1>2. /\ q \in Tab
      /\ q.open = p.open /\ q.form = p.form /\ q.base = p.base /\ q.revision = p.revision
      /\ q.saved = p.saved /\ q.published = p.published /\ q.publish = p.publish
      /\ p.request # Null => q.request = p.request /\ q.waiting = TRUE
                             /\ q.status = p.status /\ q.failed = p.failed
      /\ p.request = Null => q.request = p.form /\ q.waiting = p.waiting
                             /\ q.status = "saving" /\ q.failed = FALSE
  BY SavingFields
<1> HIDE DEF q
<1>3. Knows(q) BY <1>2 DEF Knows
<1>4. q.request # Null BY <1>0, <1>2
<1>5. Tells(q) BY <1>2, <1>4 DEF Tells
<1>6. \A m \in net : m.tab = t => AwaitedBy(m, q)
  <2> SUFFICES ASSUME NEW m \in net, m.tab = t PROVE AwaitedBy(m, q) OBVIOUS
  <2>1. AwaitedBy(m, p) /\ m.form \in Form BY <1>0 DEF Follows, Msg
  <2>2. QED BY <1>0, <1>2, <2>1 DEF AwaitedBy
<1>7. ASSUME NEW m \in net'
      PROVE  /\ m \in Msg /\ SentKnowing(m)
             /\ m.tab = t => AwaitedBy(m, q)
             /\ m.tab # t /\ m.tab # Null => m \in net
  <2>1. CASE m \in net BY <1>0, <1>6, <2>1 DEF EditorInv
  <2>2. CASE m \notin net
    <3>1. p.request = Null /\ m = sent BY <1>1, <2>2 DEF Sent
    <3>2. /\ m \in Msg /\ m.tab = t /\ m.kind = "patch" /\ m.form = p.form
          /\ m.revision = p.revision /\ m.base = p.base
      BY <3>1, RequestFields
    <3>3. SentKnowing(m) BY <3>2 DEF SentKnowing, Knows
    <3>4. p.revision \in Nat BY DEF Tab
    <3>5. AwaitedBy(m, q) BY <1>2, <3>1, <3>2, <3>4 DEF AwaitedBy
    <3>6. QED BY <3>2, <3>3, <3>5
  <2>3. QED BY <2>1, <2>2
<1>8. QED BY <1>1, <1>2, <1>3, <1>5, <1>7, PageMoves

----------------------------------------------------------------------------
(* The invariant is inductive. *)

\* What the invariant says of one page.
LEMMA PageFacts ==
    ASSUME EditorInv, NEW t \in Tabs
    PROVE  /\ tab \in [Tabs -> Tab] /\ row \in Row /\ net \subseteq Msg
           /\ copy \in Doc \cup {Null} /\ edits \in Nat /\ opens \in Nat
           /\ tab[t] \in Tab /\ Knows(tab[t]) /\ Tells(tab[t]) /\ Follows(t, tab[t])
           /\ tab[t].revision \in Nat /\ row.version \in Nat
           /\ edits + 1 \in Nat /\ opens + 1 \in Nat
<1>1. /\ tab \in [Tabs -> Tab] /\ row \in Row /\ net \subseteq Msg
      /\ copy \in Doc \cup {Null} /\ edits \in Nat /\ opens \in Nat
  BY DEF EditorInv, TypeOK
<1>2. Follows(t, tab[t]) BY EditorAssumption DEF EditorInv, Follows
<1>3. tab[t].revision \in Nat /\ row.version \in Nat BY <1>1 DEF Tab, Row
<1>4. QED BY <1>1, <1>2, <1>3 DEF EditorInv

\* The first state: the pages are closed, nothing is on its way.
LEMMA EditorInitInv == Init => EditorInv
<1> SUFFICES ASSUME Init PROVE EditorInv OBVIOUS
<1> DEFINE page == Closed(Page(FreshDraft(Note), Null))
<1>1. FreshDraft(Note) \in Row /\ FreshDraft(Note).version = 0 BY FreshDraftVersion
<1>2. page \in Tab BY <1>1, PageType
<1>3. /\ page.form = page.base /\ page.base = ServerForm(FreshDraft(Note)) /\ page.revision = 0
      /\ page.request = Null /\ page.saved = Null /\ page.published = Null
      /\ page.failed = FALSE /\ page.waiting = FALSE /\ page.publish = "no"
  BY <1>1, PageFields
<1>4. row = FreshDraft(Note) /\ tab = [t \in Tabs |-> page] /\ net = {} /\ copy = Null
      /\ edits = 0 /\ opens = 0
  BY DEF Init
<1> HIDE DEF page
<1>5. TypeOK BY <1>1, <1>2, <1>4 DEF TypeOK
<1>6. Knows(page) BY <1>1, <1>3, <1>4 DEF Knows
<1>7. Tells(page) BY <1>3 DEF Tells
<1>8. QED BY <1>4, <1>5, <1>6, <1>7 DEF EditorInv

\* A page is opened.
LEMMA OpenInv == ASSUME EditorInv, NEW t \in Tabs, Open(t) PROVE EditorInv'
<1> DEFINE p == Page(row, copy)
<1>1. p \in Tab BY PageFacts, PageType
<1>2. /\ p.form = ServerForm(row) /\ p.base = ServerForm(row) /\ p.revision = row.version
      /\ p.request = Null /\ p.saved = Null /\ p.published = Null
      /\ p.failed = FALSE /\ p.waiting = FALSE /\ p.publish = "no"
  BY PageFacts, PageFields
<1> HIDE DEF p
<1>3. Knows(p) /\ Tells(p)
  <2>1. row.version \in Nat BY PageFacts
  <2>2. Knows(p) BY <1>2, <2>1 DEF Knows
  <2>3. Tells(p) BY <1>2 DEF Tells
  <2>4. QED BY <2>2, <2>3
<1>4. Follows(t, p)
  <2> SUFFICES ASSUME NEW m \in net, m.tab = t, m.revision = row.version
               PROVE  m.revision <= p.revision /\ (m.kind = "patch" => m.form = p.request)
    BY DEF Follows, AwaitedBy
  <2>1. m.kind = "patch" => m.form = tab[t].request BY PageFacts DEF Follows, AwaitedBy
  <2>2. tab[t].request = Null BY PageFacts DEF Open, Knows
  <2>3. QED BY <1>2, <2>1, <2>2, PageFacts
<1>5. tab' = [tab EXCEPT ![t] = p] /\ UNCHANGED <<row, net, copy, edits>> /\ opens' = opens + 1
  BY DEF Open, p
<1>6. QED BY <1>1, <1>3, <1>4, <1>5, PageFacts, PageMovesAlone

\* A page is edited.
LEMMA EditInv == ASSUME EditorInv, NEW t \in Tabs, NEW doc \in Doc, Edit(t, doc) PROVE EditorInv'
<1> DEFINE p == [tab[t] EXCEPT !.form.doc = doc, !.timer = TRUE, !.status = "dirty"]
<1>1. p \in Tab
  <2>1. tab[t].form \in Form BY PageFacts DEF Tab
  <2>2. [tab[t].form EXCEPT !.doc = doc] \in Form BY <2>1 DEF Form
  <2>3. p = [tab[t] EXCEPT !.form = [tab[t].form EXCEPT !.doc = doc], !.timer = TRUE, !.status = "dirty"]
    BY PageFacts DEF Tab
  <2>4. QED BY <2>2, <2>3, PageFacts DEF Tab
<1>2. /\ p.open = tab[t].open /\ p.base = tab[t].base /\ p.revision = tab[t].revision
      /\ p.request = tab[t].request /\ p.saved = tab[t].saved /\ p.published = tab[t].published
      /\ p.failed = tab[t].failed /\ p.waiting = tab[t].waiting /\ p.publish = tab[t].publish
      /\ p.timer = TRUE /\ p.status = "dirty"
  BY PageFacts DEF Tab
<1>3. tab' = [tab EXCEPT ![t] = p] /\ UNCHANGED <<row, net, opens>> /\ copy' = doc /\ edits' = edits + 1
  BY PageFacts DEF Edit
<1> HIDE DEF p
<1>4. Knows(p) /\ Tells(p) BY <1>2, PageFacts DEF Knows, Tells
<1>5. Follows(t, p) BY <1>2, PageFacts DEF Follows, AwaitedBy
<1>6. QED BY <1>1, <1>3, <1>4, <1>5, PageFacts, PageMovesAlone

\* A page saves another form than it had, with or without giving up its banner.
LEMMA SaveForm ==
    ASSUME EditorInv, NEW t \in Tabs, NEW p \in Tab, tab[t].open, row' = row, Save(t, p),
           /\ p.open = tab[t].open /\ p.base = tab[t].base /\ p.revision = tab[t].revision
           /\ p.request = tab[t].request /\ p.saved = tab[t].saved /\ p.published = tab[t].published
           /\ p.failed = tab[t].failed /\ p.status = tab[t].status,
           copy' \in Doc \cup {Null}, edits' \in Nat, opens' \in Nat
    PROVE  EditorInv'
<1>1. Knows(p) BY PageFacts DEF Knows
<1>2. Follows(t, p) BY PageFacts DEF Follows, AwaitedBy
<1>3. p.request # Null => p.status # "saved" /\ ~p.failed BY PageFacts DEF Tells
<1>4. QED BY <1>1, <1>2, <1>3, PageSaves

\* A reach is chosen.
LEMMA ChooseReachInv ==
    ASSUME EditorInv, NEW t \in Tabs, NEW reach \in Reach, ChooseReach(t, reach) PROVE EditorInv'
<1> DEFINE p == [tab[t] EXCEPT !.form.reach = reach]
<1>1. p \in Tab
  <2>1. tab[t].form \in Form BY PageFacts DEF Tab
  <2>2. [tab[t].form EXCEPT !.reach = reach] \in Form BY <2>1 DEF Form
  <2>3. p = [tab[t] EXCEPT !.form = [tab[t].form EXCEPT !.reach = reach]] BY PageFacts DEF Tab
  <2>4. QED BY <2>2, <2>3, PageFacts DEF Tab
<1>2. /\ p.open = tab[t].open /\ p.base = tab[t].base /\ p.revision = tab[t].revision
      /\ p.request = tab[t].request /\ p.saved = tab[t].saved /\ p.published = tab[t].published
      /\ p.failed = tab[t].failed /\ p.status = tab[t].status
  BY PageFacts DEF Tab
<1>3. Save(t, p) /\ tab[t].open /\ UNCHANGED <<row, copy, opens>> /\ edits' = edits + 1
  BY DEF ChooseReach
<1> HIDE DEF p
<1>4. QED BY <1>1, <1>2, <1>3, PageFacts, SaveForm

\* The timer fires, or the desk asks for a save.
LEMMA AutosaveInv == ASSUME EditorInv, NEW t \in Tabs, Autosave(t) \/ Flush(t) PROVE EditorInv'
<1>1. Save(t, tab[t]) /\ tab[t].open /\ UNCHANGED <<row, copy, edits, opens>> BY DEF Autosave, Flush
<1>2. QED BY <1>1, PageFacts, SaveForm

\* A copy is recovered.
LEMMA RecoverInv == ASSUME EditorInv, NEW t \in Tabs, Recover(t) PROVE EditorInv'
<1> DEFINE doc == tab[t].banner
           p == [tab[t] EXCEPT !.form.doc = doc, !.banner = Null]
<1>0. doc \in Doc BY PageFacts DEF Recover, Tab
<1>1. p \in Tab
  <2>1. tab[t].form \in Form BY PageFacts DEF Tab
  <2>2. [tab[t].form EXCEPT !.doc = doc] \in Form BY <1>0, <2>1 DEF Form
  <2>3. p = [tab[t] EXCEPT !.form = [tab[t].form EXCEPT !.doc = doc], !.banner = Null]
    BY PageFacts DEF Tab
  <2>4. QED BY <2>2, <2>3, PageFacts DEF Tab
<1>2. /\ p.open = tab[t].open /\ p.base = tab[t].base /\ p.revision = tab[t].revision
      /\ p.request = tab[t].request /\ p.saved = tab[t].saved /\ p.published = tab[t].published
      /\ p.failed = tab[t].failed /\ p.status = tab[t].status
  BY PageFacts DEF Tab
<1>3. Save(t, p) /\ tab[t].open /\ UNCHANGED <<row, edits, opens>> /\ copy' \in {copy, doc}
  BY DEF Recover
<1> HIDE DEF p
<1>4. QED BY <1>0, <1>1, <1>2, <1>3, PageFacts, SaveForm

\* A page changes in nothing the server or the writer is told by.
LEMMA PageTurns ==
    ASSUME EditorInv, NEW t \in Tabs, NEW p \in Tab, row' = row, tab' = [tab EXCEPT ![t] = p],
           net' = net, copy' \in Doc \cup {Null}, edits' = edits, opens' = opens,
           /\ p.open = tab[t].open /\ p.form = tab[t].form /\ p.base = tab[t].base
           /\ p.revision = tab[t].revision /\ p.request = tab[t].request /\ p.saved = tab[t].saved
           /\ p.published = tab[t].published /\ p.failed = tab[t].failed /\ p.status = tab[t].status,
           p.waiting = tab[t].waiting \/ (p.waiting = FALSE /\ tab[t].request = Null /\ tab[t].failed),
           p.timer = tab[t].timer \/ tab[t].request # Null,
           p.publish = tab[t].publish \/ p.publish = "no" \/ p.open
    PROVE  EditorInv'
<1>1. Knows(p) BY PageFacts DEF Knows
<1>2. Tells(p) BY PageFacts DEF Tells
<1>3. Follows(t, p) BY PageFacts DEF Follows, AwaitedBy
<1>4. QED BY <1>1, <1>2, <1>3, PageFacts, PageMovesAlone

\* A copy is discarded.
LEMMA DiscardInv == ASSUME EditorInv, NEW t \in Tabs, Discard(t) PROVE EditorInv'
<1> DEFINE p == [tab[t] EXCEPT !.banner = Null]
<1>1. p \in Tab BY PageFacts DEF Tab
<1>2. /\ p.open = tab[t].open /\ p.form = tab[t].form /\ p.base = tab[t].base
      /\ p.revision = tab[t].revision /\ p.request = tab[t].request /\ p.saved = tab[t].saved
      /\ p.published = tab[t].published /\ p.failed = tab[t].failed /\ p.status = tab[t].status
      /\ p.waiting = tab[t].waiting /\ p.timer = tab[t].timer /\ p.publish = tab[t].publish
  BY PageFacts DEF Tab
<1>3. tab' = [tab EXCEPT ![t] = p] /\ UNCHANGED <<row, net, edits, opens>> /\ copy' = Null
  BY PageFacts DEF Discard
<1> HIDE DEF p
<1>4. QED BY <1>1, <1>2, <1>3, PageFacts, PageTurns

\* The publish button is clicked.
LEMMA ClickPublishInv == ASSUME EditorInv, NEW t \in Tabs, ClickPublish(t) PROVE EditorInv'
<1>1. CASE tab[t].request # Null
  <2> DEFINE p == [tab[t] EXCEPT !.publish = "polling", !.timer = FALSE]
  <2>1. p \in Tab BY PageFacts DEF Tab
  <2>2. /\ p.open = tab[t].open /\ p.form = tab[t].form /\ p.base = tab[t].base
        /\ p.revision = tab[t].revision /\ p.request = tab[t].request /\ p.saved = tab[t].saved
        /\ p.published = tab[t].published /\ p.failed = tab[t].failed /\ p.status = tab[t].status
        /\ p.waiting = tab[t].waiting
    BY PageFacts DEF Tab
  <2>3. tab' = [tab EXCEPT ![t] = p] /\ tab[t].open /\ UNCHANGED <<row, net, copy, edits, opens>>
    BY <1>1, PageFacts DEF ClickPublish
  <2> HIDE DEF p
  <2>4. QED BY <1>1, <2>1, <2>2, <2>3, PageFacts, PageTurns
<1>2. CASE tab[t].request = Null
  <2> DEFINE p == [tab[t] EXCEPT !.publish = "saving"]
  <2>1. p \in Tab BY PageFacts DEF Tab
  <2>2. /\ p.open = tab[t].open /\ p.base = tab[t].base
        /\ p.revision = tab[t].revision /\ p.request = tab[t].request /\ p.saved = tab[t].saved
        /\ p.published = tab[t].published /\ p.failed = tab[t].failed /\ p.status = tab[t].status
    BY PageFacts DEF Tab
  <2>3. Save(t, p) /\ tab[t].open /\ UNCHANGED <<row, copy, edits, opens>> BY <1>2 DEF ClickPublish
  <2> HIDE DEF p
  <2>4. QED BY <2>1, <2>2, <2>3, PageFacts, SaveForm
<1>3. QED BY <1>1, <1>2

\* A page that is gone.
LEMMA PageGone ==
    ASSUME EditorInv, NEW t \in Tabs, tab' = [tab EXCEPT ![t] = Closed(Page(FreshDraft(Note), Null))],
           GiveUp(t, {"patch", "publish"}), UNCHANGED <<row, copy, edits, opens>>
    PROVE  EditorInv'
<1> DEFINE p == Closed(Page(FreshDraft(Note), Null))
<1>1. p \in Tab BY FreshDraftVersion, PageType
<1>2. /\ p.form = p.base /\ p.base = ServerForm(FreshDraft(Note)) /\ p.revision = 0
      /\ p.request = Null /\ p.saved = Null /\ p.published = Null
      /\ p.failed = FALSE /\ p.waiting = FALSE /\ p.publish = "no"
  BY FreshDraftVersion, PageFields
<1> HIDE DEF p
<1>3. Knows(p)
  <2>1. row.version \in Nat BY PageFacts
  <2>2. row.version = 0 => ServerForm(row) = ServerForm(FreshDraft(Note)) BY DEF EditorInv
  <2>3. QED BY <1>2, <2>1, <2>2 DEF Knows
<1>4. Tells(p) BY <1>2 DEF Tells
<1>5. \A m \in net : m.kind \in {"patch", "publish"} BY PageFacts DEF Msg
<1>6. tab' = [tab EXCEPT ![t] = p] BY DEF p
<1>7. \A m \in net : m.tab = t /\ m.kind \notin {"patch", "publish"} => AwaitedBy(m, p) BY <1>5
<1>8. copy' \in Doc \cup {Null} /\ edits' \in Nat /\ opens' \in Nat /\ row' = row BY PageFacts
<1>9. QED BY <1>1, <1>3, <1>4, <1>6, <1>7, <1>8, PageGivesUp

\* The answer to a save arrives.
LEMMA SaveAnsweredInv == ASSUME EditorInv, NEW t \in Tabs, SaveAnswered(t) PROVE EditorInv'
<1> DEFINE old == tab[t]
           p == [old EXCEPT !.revision = old.saved, !.base = old.request, !.request = Null, !.saved = Null]
<1>1. old.saved # Null /\ old.saved \in Nat /\ old.request \in Form /\ old.form \in Form /\ old \in Tab
  <2>1. old.saved # Null BY DEF SaveAnswered
  <2>2. old \in Tab /\ old.request # Null BY <2>1, PageFacts DEF Knows
  <2>3. QED BY <2>1, <2>2 DEF Tab
<1>2. p \in Tab BY <1>1 DEF Tab
<1>3. /\ p.open = old.open /\ p.form = old.form /\ p.base = old.request /\ p.revision = old.saved
      /\ p.request = Null /\ p.saved = Null /\ p.published = old.published
      /\ p.publish = old.publish /\ p.waiting = old.waiting /\ p.failed = old.failed
      /\ p.timer = old.timer
  BY <1>1 DEF Tab
<1>4. /\ old.open /\ old.published = Null /\ ~old.failed
      /\ old.revision \in Nat /\ old.revision < old.saved /\ old.saved <= row.version
      /\ row.version \in Nat
      /\ old.saved = row.version => old.request = ServerForm(row)
  BY <1>1, NullIsNoForm, PageFacts DEF Knows, Tells
<1>5. \A m \in net : m.tab = t => m.revision # row.version
  <2> SUFFICES ASSUME NEW m \in net, m.tab = t, m.revision = row.version PROVE FALSE OBVIOUS
  <2>1. row.version <= old.revision BY PageFacts DEF Follows, AwaitedBy
  <2>2. QED BY <1>1, <1>4, <2>1
<1>6. UNCHANGED <<row, edits, opens>> /\ copy' \in Doc \cup {Null} /\ edits' \in Nat /\ opens' \in Nat
  BY PageFacts DEF SaveAnswered
<1>7. CASE ~Unchanged(p.form, old.request)
  <2>1. Save(t, p) BY <1>7 DEF SaveAnswered
  <2> HIDE DEF p
  <2>2. Knows(p) BY <1>3, <1>4 DEF Knows
  <2>3. Follows(t, p) BY <1>5 DEF Follows, AwaitedBy
  <2>4. QED BY <1>2, <1>3, <1>4, <1>6, <2>1, <2>2, <2>3, PageSaves
<1>8. CASE Unchanged(p.form, old.request) /\ p.publish = "saving"
  <2> DEFINE q == [p EXCEPT !.status = "saved", !.publish = "posting"]
             sent == Request(t, "publish", p)
  <2>1. tab' = [tab EXCEPT ![t] = q] /\ net' = net \cup {sent}
    BY <1>8 DEF SaveAnswered
  <2> HIDE DEF p
  <2>2. q \in Tab BY <1>2 DEF Tab
  <2>3. /\ q.open = p.open /\ q.form = p.form /\ q.base = p.base /\ q.revision = p.revision
        /\ q.request = p.request /\ q.saved = p.saved /\ q.published = p.published
        /\ q.waiting = p.waiting /\ q.failed = p.failed /\ q.timer = p.timer
    BY <1>2 DEF Tab
  <2> HIDE DEF q
  <2>4. Knows(q) BY <1>3, <1>4, <2>3 DEF Knows
  <2>5. q.form = q.base BY <1>3, <1>8, <2>3 DEF Unchanged
  <2>6. Tells(q) BY <1>3, <2>3, <2>5 DEF Tells
  <2>7. ASSUME NEW m \in net'
        PROVE  /\ m \in Msg /\ SentKnowing(m)
               /\ m.tab = t => AwaitedBy(m, q)
               /\ m.tab # t /\ m.tab # Null => m \in net
    <3>1. CASE m \in net BY <1>5, <3>1, PageFacts DEF EditorInv, AwaitedBy
    <3>2. CASE m = sent
      <4>1. /\ m \in Msg /\ m.tab = t /\ m.kind = "publish" /\ m.form = p.form
            /\ m.revision = p.revision /\ m.base = p.base
        BY <1>2, <3>2, RequestFields
      <4>2. SentKnowing(m) BY <1>3, <1>4, <2>3, <2>5, <4>1 DEF SentKnowing
      <4>3. AwaitedBy(m, q) BY <1>3, <1>4, <2>3, <4>1 DEF AwaitedBy
      <4>4. QED BY <4>1, <4>2, <4>3
    <3>3. QED BY <2>1, <3>1, <3>2
  <2>8. QED BY <1>6, <2>1, <2>2, <2>4, <2>6, <2>7, PageMoves
<1>9. CASE Unchanged(p.form, old.request) /\ p.publish # "saving"
  <2> DEFINE q == [p EXCEPT !.status = "saved"]
  <2>1. tab' = [tab EXCEPT ![t] = q] /\ net' = net BY <1>9 DEF SaveAnswered
  <2> HIDE DEF p
  <2>2. q \in Tab BY <1>2 DEF Tab
  <2>3. /\ q.open = p.open /\ q.form = p.form /\ q.base = p.base /\ q.revision = p.revision
        /\ q.request = p.request /\ q.saved = p.saved /\ q.published = p.published
        /\ q.waiting = p.waiting /\ q.failed = p.failed /\ q.timer = p.timer
    BY <1>2 DEF Tab
  <2> HIDE DEF q
  <2>4. Knows(q) BY <1>3, <1>4, <2>3 DEF Knows
  <2>5. q.form = q.base BY <1>3, <1>9, <2>3 DEF Unchanged
  <2>6. Tells(q) BY <1>3, <2>3, <2>5 DEF Tells
  <2>7. Follows(t, q) BY <1>5 DEF Follows, AwaitedBy
  <2>8. QED BY <1>6, <2>1, <2>2, <2>4, <2>6, <2>7, PageMovesAlone
<1>10. QED BY <1>7, <1>8, <1>9

\* A save fails, or is thought to.
LEMMA SaveFailedInv == ASSUME EditorInv, NEW t \in Tabs, SaveFailed(t) PROVE EditorInv'
<1> DEFINE old == tab[t]
           p == [old EXCEPT !.request = Null, !.saved = Null, !.failed = TRUE, !.status = "error",
                            !.publish = IF old.publish = "saving" THEN "no" ELSE old.publish]
<1>1. p \in Tab BY PageFacts DEF Tab
<1>2. /\ p.open = old.open /\ p.form = old.form /\ p.base = old.base /\ p.revision = old.revision
      /\ p.request = Null /\ p.saved = Null /\ p.published = old.published
      /\ p.failed = TRUE /\ p.status = "error" /\ p.waiting = old.waiting
  BY PageFacts DEF Tab
<1>3. old.request # Null /\ old.open BY PageFacts DEF SaveFailed, Knows
<1>4. tab' = [tab EXCEPT ![t] = p] /\ GiveUp(t, {"patch"}) /\ UNCHANGED <<row, copy, edits, opens>>
  BY PageFacts DEF SaveFailed
<1> HIDE DEF p
<1>5. Knows(p) BY <1>2, <1>3, PageFacts DEF Knows
<1>6. Tells(p) BY <1>2 DEF Tells
<1>7. \A m \in net : m.tab = t /\ m.kind \notin {"patch"} => AwaitedBy(m, p)
  BY <1>2, PageFacts DEF Follows, AwaitedBy
<1>8. copy' \in Doc \cup {Null} /\ edits' \in Nat /\ opens' \in Nat /\ row' = row BY <1>4, PageFacts
<1>9. {"patch"} \in SUBSET {"patch", "publish"} OBVIOUS
<1>10. QED BY <1>1, <1>4, <1>5, <1>6, <1>7, <1>8, <1>9, PageGivesUp

\* A save that waited takes its turn, or gives up.
LEMMA PollInv == ASSUME EditorInv, NEW t \in Tabs, Poll(t) PROVE EditorInv'
<1> DEFINE p == [tab[t] EXCEPT !.waiting = FALSE]
<1>1. p \in Tab BY PageFacts DEF Tab
<1>2. /\ p.open = tab[t].open /\ p.form = tab[t].form /\ p.base = tab[t].base
      /\ p.revision = tab[t].revision /\ p.request = tab[t].request /\ p.saved = tab[t].saved
      /\ p.published = tab[t].published /\ p.failed = tab[t].failed /\ p.status = tab[t].status
      /\ p.waiting = FALSE /\ p.timer = tab[t].timer /\ p.publish = tab[t].publish
  BY PageFacts DEF Tab
<1>3. tab[t].open /\ tab[t].request = Null /\ UNCHANGED <<row, copy, edits, opens>>
  BY PageFacts DEF Poll, Knows
<1>4. CASE tab[t].failed
  <2>1. tab' = [tab EXCEPT ![t] = p] /\ net' = net BY <1>4, PageFacts DEF Poll
  <2> HIDE DEF p
  <2>2. QED BY <1>1, <1>2, <1>3, <1>4, <2>1, PageFacts, PageTurns
<1>5. CASE ~tab[t].failed
  <2>1. Save(t, p) BY <1>5 DEF Poll
  <2> HIDE DEF p
  <2>2. QED BY <1>1, <1>2, <1>3, <2>1, PageFacts, SaveForm
<1>6. QED BY <1>4, <1>5

\* A publish that waited for a save goes on, or gives up.
LEMMA PollPublishInv == ASSUME EditorInv, NEW t \in Tabs, PollPublish(t) PROVE EditorInv'
<1>1. tab[t].open /\ tab[t].request = Null /\ UNCHANGED <<row, copy, edits, opens>>
  BY PageFacts DEF PollPublish, Knows
<1>2. ASSUME NEW phase \in {"no", "saving"}
      PROVE  LET p == [tab[t] EXCEPT !.publish = phase] IN
             /\ p \in Tab
             /\ p.open = tab[t].open /\ p.form = tab[t].form /\ p.base = tab[t].base
             /\ p.revision = tab[t].revision /\ p.request = tab[t].request /\ p.saved = tab[t].saved
             /\ p.published = tab[t].published /\ p.failed = tab[t].failed /\ p.status = tab[t].status
             /\ p.waiting = tab[t].waiting /\ p.timer = tab[t].timer /\ p.publish = phase
  BY PageFacts DEF Tab
<1>3. CASE tab[t].failed
  <2> DEFINE p == [tab[t] EXCEPT !.publish = "no"]
  <2>1. tab' = [tab EXCEPT ![t] = p] /\ net' = net BY <1>3, PageFacts DEF PollPublish
  <2>2. /\ p \in Tab
        /\ p.open = tab[t].open /\ p.form = tab[t].form /\ p.base = tab[t].base
        /\ p.revision = tab[t].revision /\ p.request = tab[t].request /\ p.saved = tab[t].saved
        /\ p.published = tab[t].published /\ p.failed = tab[t].failed /\ p.status = tab[t].status
        /\ p.waiting = tab[t].waiting /\ p.timer = tab[t].timer /\ p.publish = "no"
    BY <1>2
  <2> HIDE DEF p
  <2>3. QED BY <1>1, <2>1, <2>2, PageFacts, PageTurns
<1>4. CASE ~tab[t].failed
  <2> DEFINE p == [tab[t] EXCEPT !.publish = "saving"]
  <2>1. Save(t, p) BY <1>4 DEF PollPublish
  <2>2. /\ p \in Tab
        /\ p.open = tab[t].open /\ p.base = tab[t].base
        /\ p.revision = tab[t].revision /\ p.request = tab[t].request /\ p.saved = tab[t].saved
        /\ p.published = tab[t].published /\ p.failed = tab[t].failed /\ p.status = tab[t].status
    BY <1>2
  <2> HIDE DEF p
  <2>3. QED BY <1>1, <2>1, <2>2, PageFacts, SaveForm
<1>5. QED BY <1>3, <1>4

\* The answer to a publish arrives.
LEMMA PublishAnsweredInv == ASSUME EditorInv, NEW t \in Tabs, PublishAnswered(t) PROVE EditorInv'
<1> DEFINE old == tab[t]
           p == [old EXCEPT !.revision = old.published, !.publish = "no", !.published = Null]
<1>1. old.published # Null /\ UNCHANGED <<row, copy, edits, opens>> BY DEF PublishAnswered
<1>2. CASE tab' = [tab EXCEPT ![t] = p] /\ UNCHANGED net
  <2>1. /\ old \in Tab /\ old.published \in Nat /\ old.revision \in Nat /\ row.version \in Nat
        /\ old.revision < old.published /\ old.published <= row.version
        /\ old.published = row.version => old.base = ServerForm(row)
    BY <1>1, PageFacts DEF Knows, Tab
  <2>2. old.saved = Null BY <1>1, PageFacts DEF Knows
  <2>3. p \in Tab BY <2>1 DEF Tab
  <2>4. /\ p.open = old.open /\ p.form = old.form /\ p.base = old.base /\ p.revision = old.published
        /\ p.request = old.request /\ p.saved = old.saved /\ p.published = Null
        /\ p.publish = "no" /\ p.waiting = old.waiting /\ p.failed = old.failed
        /\ p.timer = old.timer /\ p.status = old.status
    BY <2>1 DEF Tab
  <2> HIDE DEF p
  <2>5. Knows(p) BY <2>1, <2>2, <2>4, PageFacts DEF Knows
  <2>6. Tells(p) BY <2>4, PageFacts DEF Tells
  <2>7. Follows(t, p)
    <3> SUFFICES ASSUME NEW m \in net, m.tab = t, m.revision = row.version
                 PROVE  m.revision <= p.revision /\ (m.kind = "patch" => m.form = p.request)
      BY DEF Follows, AwaitedBy
    <3>1. row.version <= old.revision BY PageFacts DEF Follows, AwaitedBy
    <3>2. QED BY <2>1, <3>1
  <2>8. QED BY <1>1, <1>2, <2>3, <2>5, <2>6, <2>7, PageFacts, PageMovesAlone
<1>3. CASE /\ tab' = [tab EXCEPT ![t] = Closed(Page(FreshDraft(Note), Null))]
           /\ GiveUp(t, {"patch", "publish"})
  BY <1>1, <1>3, PageGone
<1>4. tab' = [tab EXCEPT ![t].revision = old.published, ![t].publish = "no", ![t].published = Null]
      => tab' = [tab EXCEPT ![t] = p]
  BY PageFacts
<1>5. QED BY <1>2, <1>3, <1>4 DEF PublishAnswered

\* A publish fails, or is thought to.
LEMMA PublishFailedInv == ASSUME EditorInv, NEW t \in Tabs, PublishFailed(t) PROVE EditorInv'
<1> DEFINE old == tab[t]
           p == [old EXCEPT !.publish = "no", !.published = Null, !.status = "error"]
<1>1. p \in Tab BY PageFacts DEF Tab
<1>2. /\ p.open = old.open /\ p.form = old.form /\ p.base = old.base /\ p.revision = old.revision
      /\ p.request = old.request /\ p.saved = old.saved /\ p.published = Null
      /\ p.failed = old.failed /\ p.status = "error" /\ p.waiting = old.waiting /\ p.publish = "no"
  BY PageFacts DEF Tab
<1>3. tab' = [tab EXCEPT ![t] = p] /\ GiveUp(t, {"publish"}) /\ UNCHANGED <<row, copy, edits, opens>>
  BY PageFacts DEF PublishFailed
<1> HIDE DEF p
<1>4. Knows(p) BY <1>2, PageFacts DEF Knows
<1>5. Tells(p) BY <1>2, PageFacts DEF Tells
<1>6. \A m \in net : m.tab = t /\ m.kind \notin {"publish"} => AwaitedBy(m, p)
  BY <1>2, PageFacts DEF Follows, AwaitedBy
<1>7. copy' \in Doc \cup {Null} /\ edits' \in Nat /\ opens' \in Nat /\ row' = row BY <1>3, PageFacts
<1>8. {"publish"} \in SUBSET {"patch", "publish"} OBVIOUS
<1>9. QED BY <1>1, <1>3, <1>4, <1>5, <1>6, <1>7, <1>8, PageGivesUp

----------------------------------------------------------------------------
(* The server accepts a request. *)

\* After an autosave the editors show what was sent.
LEMMA AutosavedForm ==
    ASSUME NEW r \in Row, NEW slug \in Slugs, NEW doc \in Doc, NEW reach \in Reach
    PROVE  ServerForm(Autosaved(r, slug, doc, reach)) = [doc |-> doc, reach |-> reach]
<1> DEFINE new == Autosaved(r, slug, doc, reach)
<1>1. EditorDoc(new) = doc
  BY NullIsNoDoc DEF Autosaved, SavedAside, SavedInPlace, EditorDoc, Coalesce, Row
<1>2. EditorReach(new) = reach
  BY NullIsNoReach DEF Autosaved, SavedAside, SavedInPlace, EditorReach, Coalesce, Row
<1>3. QED BY <1>1, <1>2 DEF ServerForm

\* After a publish they show what they showed.
LEMMA PublishedForm ==
    ASSUME NEW r \in Row
    PROVE  /\ ServerForm(PublishedRow(r)) = ServerForm(r)
           /\ EditorDoc(PublishedRow(r)) = EditorDoc(r)
BY PublishedRowFields DEF ServerForm, EditorDoc, EditorReach, Coalesce

\* What the server accepts is new to every page and leaves every request old.
LEMMA ServedInv ==
    ASSUME EditorInv, NEW m \in net, m.revision = row.version, Accept(m),
           row' \in Row, row'.version = row.version + 1, UNCHANGED <<copy, edits, opens>>,
           m.kind = "patch" => ServerForm(row') = m.form,
           m.kind = "publish" => ServerForm(row') = ServerForm(row)
    PROVE  EditorInv'
<1>0. /\ tab \in [Tabs -> Tab] /\ net \subseteq Msg /\ row.version \in Nat /\ Null \notin Tabs /\ Null \notin Nat
      /\ Null \notin Form
  BY EditorAssumption, NullIsNoForm DEF EditorInv, TypeOK, Row
<1>1. /\ m.tab \in Tabs \cup {Null} /\ m.kind \in {"patch", "publish"} /\ m.form \in Form
  BY <1>0 DEF Msg
<1>2. net' \subseteq net BY DEF Accept
<1>3. row'.version \in Nat /\ row'.version > row.version /\ row'.version # 0 BY <1>0
<1>4. \A k \in net' : SentKnowing(k)' /\ (k.tab # Null => AwaitedBy(k, tab[k.tab])')
  <2> SUFFICES ASSUME NEW k \in net'
               PROVE  SentKnowing(k)' /\ (k.tab # Null => AwaitedBy(k, tab[k.tab])')
    OBVIOUS
  <2>1. k.revision \in Nat /\ k.revision <= row.version
    BY <1>0, <1>2 DEF EditorInv, SentKnowing, Msg
  <2>2. k.revision <= row'.version /\ k.revision # row'.version BY <1>3, <1>0, <2>1
  <2>3. QED BY <2>2 DEF SentKnowing, AwaitedBy
<1>5. ASSUME NEW t \in Tabs, NEW p, p = tab'[t]
      PROVE  p \in Tab /\ Knows(p)' /\ Tells(p)
  <2> DEFINE old == tab[t]
  <2>1. /\ old \in Tab /\ old.revision \in Nat /\ old.saved \in Nat \cup {Null}
        /\ old.published \in Nat \cup {Null}
    BY <1>0 DEF Tab
  <2>2. /\ old.revision <= row.version
        /\ old.saved # Null =>
              old.request # Null /\ old.published = Null /\ old.revision < old.saved
              /\ old.saved <= row.version
        /\ old.published # Null => old.revision < old.published /\ old.published <= row.version
        /\ ~old.open => old.request = Null /\ old.waiting = FALSE /\ old.publish = "no"
    BY PageFacts DEF Knows
  <2>3. Tells(old) BY PageFacts
  <2>4. old.revision < row'.version BY <1>0, <2>1, <2>2
  <2>5. CASE t # m.tab
    <3>1. p = old BY <1>0, <1>1, <1>5, <2>5 DEF Accept
    <3>2. old.saved # Null => old.saved < row'.version BY <1>0, <2>1, <2>2
    <3>3. old.published # Null => old.published < row'.version BY <1>0, <2>1, <2>2
    <3> HIDE DEF old
    <3>4. Knows(p)' BY <1>3, <2>1, <2>2, <2>4, <3>1, <3>2, <3>3 DEF Knows
    <3>5. QED BY <2>1, <2>3, <3>1, <3>4
  <2>6. CASE t = m.tab
    <3>1. /\ row.version <= old.revision
          /\ m.kind = "patch" => old.request = m.form
      BY <2>6, PageFacts DEF Follows, AwaitedBy
    <3>2. old.revision = row.version BY <1>0, <2>1, <2>2, <3>1
    <3>3. old.base = ServerForm(row) BY <3>2, PageFacts DEF Knows
    <3>4. old.saved = Null /\ old.published = Null BY <1>0, <2>1, <2>2, <3>2
    <3>5. /\ old.revision # row'.version /\ old.revision <= row'.version
          /\ row'.version <= row'.version /\ row'.version # Null
      BY <1>0, <1>3, <2>1, <2>4
    <3>6. CASE m.kind = "patch"
      <4>1. p = [old EXCEPT !.saved = row'.version] BY <1>0, <1>1, <1>5, <2>6, <3>6 DEF Accept
      <4>2. /\ p \in Tab
            /\ p.open = old.open /\ p.form = old.form /\ p.base = old.base /\ p.revision = old.revision
            /\ p.request = old.request /\ p.saved = row'.version /\ p.published = old.published
            /\ p.publish = old.publish /\ p.waiting = old.waiting /\ p.failed = old.failed
            /\ p.timer = old.timer /\ p.status = old.status
        BY <1>3, <2>1, <4>1 DEF Tab
      <4>3. old.request = m.form /\ old.request # Null BY <1>0, <1>1, <3>1, <3>6
      <4> HIDE DEF old
      <4>4. Knows(p)' BY <2>2, <2>4, <3>4, <3>5, <3>6, <4>2, <4>3 DEF Knows
      <4>5. Tells(p) BY <2>3, <4>2 DEF Tells
      <4>6. QED BY <4>2, <4>4, <4>5
    <3>7. CASE m.kind = "publish"
      <4>1. p = [old EXCEPT !.published = row'.version] BY <1>0, <1>1, <1>5, <2>6, <3>7 DEF Accept
      <4>2. /\ p \in Tab
            /\ p.open = old.open /\ p.form = old.form /\ p.base = old.base /\ p.revision = old.revision
            /\ p.request = old.request /\ p.saved = old.saved /\ p.published = row'.version
            /\ p.publish = old.publish /\ p.waiting = old.waiting /\ p.failed = old.failed
            /\ p.timer = old.timer /\ p.status = old.status
        BY <1>3, <2>1, <4>1 DEF Tab
      <4> HIDE DEF old
      <4>3. Knows(p)' BY <2>2, <2>4, <3>3, <3>4, <3>5, <3>7, <4>2 DEF Knows
      <4>4. Tells(p) BY <2>3, <4>2 DEF Tells
      <4>5. QED BY <4>2, <4>3, <4>4
    <3>8. QED BY <1>1, <3>6, <3>7
  <2>7. QED BY <2>5, <2>6
<1>6. tab' \in [Tabs -> Tab]
  <2>1. DOMAIN tab' = Tabs /\ tab' = [t \in Tabs |-> tab'[t]] BY <1>0 DEF Accept
  <2>2. QED BY <1>5, <2>1
<1>7. TypeOK' BY <1>0, <1>2, <1>6 DEF EditorInv, TypeOK
<1>8. (\A t \in Tabs : Knows(tab[t]) /\ Tells(tab[t]))' BY <1>5 DEF Knows, Tells
<1>9. QED BY <1>3, <1>4, <1>7, <1>8 DEF EditorInv

\* An autosave is accepted.
LEMMA ServePatchInv == ASSUME EditorInv, NEW m \in net, ServePatch(m) PROVE EditorInv'
<1>1. row \in Row /\ row.slug \in Slugs /\ m \in Msg BY DEF EditorInv, TypeOK, Row
<1>2. m.form.doc \in Doc /\ m.form.reach \in Reach /\ m.form = [doc |-> m.form.doc, reach |-> m.form.reach]
  BY <1>1 DEF Msg, Form
<1>3. row' = Autosaved(row, row.slug, m.form.doc, m.form.reach) BY DEF ServePatch
<1>4. row' \in Row /\ row'.version = row.version + 1
  BY <1>1, <1>2, <1>3, AutosavedType, AutosavedFields
<1>5. ServerForm(row') = m.form BY <1>1, <1>2, <1>3, AutosavedForm
<1>6. m.revision = row.version /\ m.kind = "patch" /\ Accept(m) /\ UNCHANGED <<copy, edits, opens>>
  BY DEF ServePatch, RevisionMatches
<1>7. QED BY <1>4, <1>5, <1>6, ServedInv

\* A publish is accepted.
LEMMA ServePublishInv == ASSUME EditorInv, NEW m \in net, ServePublish(m) PROVE EditorInv'
<1>1. row \in Row BY DEF EditorInv, TypeOK
<1>2. row' = PublishedRow(row) BY DEF ServePublish
<1>3. row' \in Row /\ row'.version = row.version + 1
  BY <1>1, <1>2, PublishedRowType, PublishedRowFields
<1>4. ServerForm(row') = ServerForm(row) BY <1>1, <1>2, PublishedForm
<1>5. m.revision = row.version /\ m.kind = "publish" /\ Accept(m) /\ UNCHANGED <<copy, edits, opens>>
  BY DEF ServePublish, RevisionMatches
<1>6. QED BY <1>3, <1>4, <1>5, ServedInv

----------------------------------------------------------------------------
\* Every step keeps the invariant.
LEMMA EditorStepInv == EditorInv /\ [Next]_vars => EditorInv'
<1> SUFFICES ASSUME EditorInv, [Next]_vars PROVE EditorInv' OBVIOUS
<1>1. CASE UNCHANGED vars
  BY <1>1 DEF vars, EditorInv, TypeOK, Knows, Tells, SentKnowing, AwaitedBy
<1>2. ASSUME NEW t \in Tabs, Writer(t) PROVE EditorInv'
  <2>1. CASE Close(t) BY <2>1, PageGone DEF Close
  <2>2. QED BY <1>2, <2>1, OpenInv, EditInv, ChooseReachInv, AutosaveInv, RecoverInv, DiscardInv,
               ClickPublishInv DEF Writer
<1>3. ASSUME NEW t \in Tabs,
             Autosave(t) \/ SaveSettles(t) \/ Poll(t) \/ PollPublish(t) \/ PublishSettles(t)
      PROVE  EditorInv'
  BY <1>3, AutosaveInv, SaveAnsweredInv, SaveFailedInv, PollInv, PollPublishInv, PublishAnsweredInv,
     PublishFailedInv DEF SaveSettles, PublishSettles
<1>4. QED BY <1>1, <1>2, <1>3, ServePatchInv, ServePublishInv DEF Next

\* In every reachable state of the editor its invariant holds: no page is ahead of
\* the server, and whoever has the current revision knows the current text.
THEOREM EditorInvariant == Spec => []EditorInv
BY EditorInitInv, EditorStepInv, PTL DEF Spec

\* The pages, the requests and the note keep their types.
THEOREM EditorTypeCorrect == Spec => []TypeOK
<1>1. EditorInv => TypeOK BY DEF EditorInv
<1>2. QED BY <1>1, EditorInvariant, PTL

\* Whatever is lost, late or retried, in however many tabs: the server takes an
\* autosave only from a page that had seen the text and the reach it replaces.
THEOREM EditorNeverOverwritesBlindly == Spec => NoBlindOverwrite
<1>1. EditorInv => \A m \in net : ServePatch(m) => m.base = ServerForm(row)
  BY DEF EditorInv, SentKnowing, ServePatch, RevisionMatches
<1>2. QED BY <1>1, EditorInvariant, PTL DEF NoBlindOverwrite

\* A publish makes public the text and the reach its tab showed.
THEOREM EditorPublishesWhatIsShown == Spec => PublishesWhatIsShown
<1>1. ASSUME EditorInv, NEW m \in net, ServePublish(m)
      PROVE  EditorDoc(row') = m.form.doc /\ row'.reach = m.form.reach
  <2>1. row \in Row /\ row' = PublishedRow(row) BY <1>1 DEF EditorInv, TypeOK, ServePublish
  <2>2. m.form = ServerForm(row)
    BY <1>1 DEF EditorInv, SentKnowing, ServePublish, RevisionMatches
  <2>3. EditorDoc(row') = EditorDoc(row) /\ row'.reach = EditorReach(row)
    BY <2>1, PublishedForm, PublishedRowFields
  <2>4. QED BY <2>2, <2>3 DEF ServerForm
<1>2. EditorInv => \A m \in net : ServePublish(m) =>
                      EditorDoc(row') = m.form.doc /\ row'.reach = m.form.reach
  BY <1>1
<1>3. QED BY <1>2, EditorInvariant, PTL DEF PublishesWhatIsShown

\* "Saved" is only said of what the server acknowledged.
THEOREM EditorSaysSavedOfTheSaved == Spec => []SavedMeansSaved
<1>1. EditorInv => SavedMeansSaved BY DEF EditorInv, Tells, SavedMeansSaved
<1>2. QED BY <1>1, EditorInvariant, PTL

\* No edit is forgotten: it is being saved, about to be, or the failure shows.
THEOREM EditorPursuesTheUnsaved == Spec => []UnsavedIsPursued
<1>1. EditorInv => UnsavedIsPursued BY DEF EditorInv, Tells, UnsavedIsPursued
<1>2. QED BY <1>1, EditorInvariant, PTL
=============================================================================
