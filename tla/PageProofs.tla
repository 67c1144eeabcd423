----------------------------- MODULE PageProofs -----------------------------
(***************************************************************************)
(* What pages show, for any number of posts, notes, links, requests and    *)
(* rows: the chips and clouds of tags, embeds, paged lists, the article    *)
(* list beside the editor, the preview card, links to files and headings. *)
(***************************************************************************)
EXTENDS LinkPreview, NoteList, TagCache, Embeds, PagedLists, VaultLinks, Sections,
        FiniteSetTheorems, WellFoundedInduction, SequenceTheorems, TLAPS

----------------------------------------------------------------------------
(* The preview card *)

\* A card that is shown is never left behind: hovering and leaving links and the
\* card, late answers, timers and scrolling all keep it.
LEMMA PreviewStep ==
    ASSUME PreviewTypeOK, PreviewFollowsPointer, [PreviewNext]_previewVars
    PROVE  PreviewFollowsPointer'
<1>1. CASE \E a \in Anchors : Enter(a)
  BY <1>1, PreviewAssumption DEF Enter, PreviewFollowsPointer
<1>2. CASE \E a \in Anchors, some \in BOOLEAN : Answer(a, some)
  BY <1>2, PreviewAssumption DEF Answer, PreviewFollowsPointer
<1>3. CASE EnterCard
  BY <1>3 DEF EnterCard, PreviewFollowsPointer
<1>4. CASE LeaveToNowhere
  <2>1. Leaves \/ popup = Nowhere \/ hideTimer
    BY <1>4 DEF LeaveToNowhere, Leaves, PreviewTypeOK, PreviewFollowsPointer
  <2>2. QED BY <1>4, <2>1 DEF LeaveToNowhere, PreviewFollowsPointer
<1>5. CASE Open
  BY <1>5, PreviewAssumption DEF Open, PreviewFollowsPointer
<1>6. CASE HideTimerFires \/ ScrollPage \/ Escape
  BY <1>6 DEF HideTimerFires, ScrollPage, Escape, HideNow, PreviewFollowsPointer
<1>7. CASE UNCHANGED previewVars
  BY <1>7 DEF previewVars, PreviewFollowsPointer
<1>8. QED BY <1>1, <1>2, <1>3, <1>4, <1>5, <1>6, <1>7 DEF PreviewNext

\* Scheduling to hide loses at most MaxLost timers.
LEMMA ScheduleType ==
    ASSUME PreviewTypeOK, ScheduleHide \/ UNCHANGED lostTimers
    PROVE  lostTimers' \in 0 .. MaxLost
BY PreviewAssumption DEF ScheduleHide, PreviewTypeOK

\* The page's variables keep their types.
LEMMA PreviewTypeStep ==
    ASSUME PreviewTypeOK, [PreviewNext]_previewVars
    PROVE  PreviewTypeOK'
<1>0. Leaves \in BOOLEAN BY DEF Leaves
<1>1. CASE \E a \in Anchors : Enter(a)
  <2>1. PICK a \in Anchors : Enter(a) BY <1>1
  <2>2. lostTimers' \in 0 .. MaxLost BY <2>1, ScheduleType DEF Enter
  <2>3. hideTimer' \in BOOLEAN BY <1>0, <2>1 DEF Enter, PreviewTypeOK
  <2>4. {pointer', activeKey', popup', showTimer'} \subseteq Anchors \cup {Nowhere}
    BY <2>1 DEF Enter, PreviewTypeOK
  <2>5. UNCHANGED <<fetches, cache>> BY <2>1 DEF Enter
  <2>6. QED BY <2>2, <2>3, <2>4, <2>5 DEF PreviewTypeOK
<1>2. CASE \E a \in Anchors, some \in BOOLEAN : Answer(a, some)
  <2>1. PICK a \in Anchors, some \in BOOLEAN : Answer(a, some) BY <1>2
  <2> DEFINE less == fetches[a] - 1
  <2>2. fetches' \in [Anchors -> 0 .. MaxFetches]
    <3>1. fetches \in [Anchors -> 0 .. MaxFetches] BY DEF PreviewTypeOK
    <3>2. less \in 0 .. MaxFetches
      <4>1. fetches[a] \in 0 .. MaxFetches /\ MaxFetches \in Nat BY <3>1, PreviewAssumption
      <4>2. fetches[a] > 0 BY <2>1 DEF Answer
      <4>3. QED BY <4>1, <4>2
    <3>3. fetches' = [fetches EXCEPT ![a] = less] BY <2>1 DEF Answer
    <3>4. QED BY <3>1, <3>2, <3>3
  <2>3. DOMAIN cache' \subseteq Anchors /\ \A b \in DOMAIN cache' : cache'[b] \in BOOLEAN
    BY <2>1 DEF Answer, PreviewTypeOK
  <2>4. QED BY <2>1, <2>2, <2>3 DEF Answer, PreviewTypeOK
<1>3. CASE EnterCard \/ LeaveToNowhere
  <2>1. lostTimers' \in 0 .. MaxLost BY <1>3, ScheduleType DEF EnterCard, LeaveToNowhere
  <2>2. hideTimer' \in BOOLEAN BY <1>0, <1>3 DEF EnterCard, LeaveToNowhere, PreviewTypeOK
  <2>3. /\ pointer' \in {Nowhere, PreviewCard}
        /\ showTimer' \in Anchors \cup {Nowhere}
        /\ UNCHANGED <<activeKey, popup, fetches, cache>>
    BY <1>3 DEF EnterCard, LeaveToNowhere, PreviewTypeOK
  <2>4. QED BY <2>1, <2>2, <2>3 DEF PreviewTypeOK
<1>5. CASE Open
  <2>1. showTimer \in Anchors BY <1>5 DEF Open, PreviewTypeOK
  <2> DEFINE count == fetches[showTimer] + 1
  <2>2. fetches' \in [Anchors -> 0 .. MaxFetches]
    <3>1. fetches \in [Anchors -> 0 .. MaxFetches] BY DEF PreviewTypeOK
    <3>2. CASE showTimer \in DOMAIN cache BY <1>5, <3>1, <3>2 DEF Open
    <3>3. CASE showTimer \notin DOMAIN cache
      <4>1. fetches' = [fetches EXCEPT ![showTimer] = count] /\ fetches[showTimer] < MaxFetches
        BY <1>5, <3>3 DEF Open
      <4>2. fetches[showTimer] \in 0 .. MaxFetches /\ MaxFetches \in Nat
        BY <2>1, <3>1, PreviewAssumption
      <4>3. count \in 0 .. MaxFetches BY <4>1, <4>2
      <4>4. QED BY <3>1, <4>1, <4>3
    <3>4. QED BY <3>2, <3>3
  <2>3. QED BY <1>5, <2>1, <2>2 DEF Open, PreviewTypeOK
<1>6. CASE HideTimerFires \/ ScrollPage \/ Escape
  <2>1. lostTimers' \in 0 .. MaxLost
    <3>1. lostTimers \in 0 .. MaxLost /\ MaxLost \in Nat BY PreviewAssumption DEF PreviewTypeOK
    <3>2. lostTimers' = lostTimers \/ (lostTimers > 0 /\ lostTimers' = lostTimers - 1)
      BY <1>6 DEF HideTimerFires, ScrollPage, Escape
    <3>3. QED BY <3>1, <3>2
  <2>2. hideTimer' \in BOOLEAN
    BY <1>6 DEF HideTimerFires, ScrollPage, Escape, PreviewTypeOK
  <2>3. /\ {activeKey', popup', showTimer'} \subseteq Anchors \cup {Nowhere}
        /\ UNCHANGED <<pointer, fetches, cache>>
    BY <1>6 DEF HideTimerFires, ScrollPage, Escape, HideNow, PreviewTypeOK
  <2>4. QED BY <2>1, <2>2, <2>3 DEF PreviewTypeOK
<1>7. CASE UNCHANGED previewVars
  BY <1>7 DEF previewVars, PreviewTypeOK
<1>8. QED BY <1>1, <1>2, <1>3, <1>5, <1>6, <1>7 DEF PreviewNext

\* While a preview is shown the pointer is on it or on the link that is active, or
\* it will be hidden.
THEOREM PreviewIsNotLeftBehind == PreviewSpec => [](PreviewTypeOK /\ PreviewFollowsPointer)
<1>1. PreviewInit => PreviewTypeOK /\ PreviewFollowsPointer
  <2>1. ASSUME PreviewInit PROVE PreviewTypeOK
    <3>1. fetches \in [Anchors -> 0 .. MaxFetches] BY <2>1, PreviewAssumption DEF PreviewInit
    <3>2. DOMAIN cache = {} BY <2>1 DEF PreviewInit
    <3>3. lostTimers \in 0 .. MaxLost BY <2>1, PreviewAssumption DEF PreviewInit
    <3>4. /\ pointer = Nowhere /\ activeKey = Nowhere /\ popup = Nowhere /\ showTimer = Nowhere
          /\ hideTimer = FALSE
      BY <2>1 DEF PreviewInit
    <3>5. QED BY <3>1, <3>2, <3>3, <3>4 DEF PreviewTypeOK
  <2>2. QED BY <2>1 DEF PreviewInit, PreviewFollowsPointer
<1>2. PreviewTypeOK /\ PreviewFollowsPointer /\ [PreviewNext]_previewVars
        => PreviewTypeOK' /\ PreviewFollowsPointer'
  BY PreviewStep, PreviewTypeStep
<1>3. QED BY <1>1, <1>2, PTL DEF PreviewSpec

\* Timers, requests, cache and pointer stay of their types.
THEOREM PreviewTypeCorrect == PreviewSpec => []PreviewTypeOK
BY PreviewIsNotLeftBehind, PTL

----------------------------------------------------------------------------
(* The article list *)

\* What the latest load knows: it asks for what the page shows, or typing will
\* ask again; it continues the rows shown; and it does not miss a save that the
\* page heard of.
LatestInv(l) ==
    /\ loads[l].from = offset
    /\ loads[l].append \/ offset = 0
    /\ loads[l].asked = Searched \/ typing
    /\ loads[l].read = -1 \/ unsure \/ loads[l].read >= told

Reloading == \E l \in Loads : IsLatest(l) /\ ~loads[l].append

\* The rows shown are right, also while "more" is on its way.
ListInv ==
    (~typing /\ told = saves /\ ~unsure /\ ~missed /\ ~Reloading) =>
        /\ listed = [i \in 1 .. offset |-> <<saves, Searched, i>>]
        /\ offset <= Matches[Searched]
        /\ more <=> offset < Matches[Searched]

NoteListInv ==
    /\ NoteListTypeOK
    /\ loads \in [Loads -> Load \cup {NoLoad}]
    /\ \A l \in Loads : loads[l] # NoLoad => loads[l].read <= saves
    /\ \A k, l \in Loads : IsLatest(k) /\ IsLatest(l) => k = l
    /\ \A l \in Loads : IsLatest(l) => LatestInv(l)
    /\ ListInv

----------------------------------------------------------------------------
(* What an answer holds *)

LEMMA PageRowsFacts ==
    ASSUME NEW q \in Load
    PROVE  \E n \in Nat :
              /\ PageRows(q) = [i \in 1 .. n |-> <<q.read, q.asked, q.from + i>>]
              /\ q.from <= Matches[q.asked] =>
                    /\ q.from + n <= Matches[q.asked]
                    /\ q.from + DeskPage < Matches[q.asked] <=> q.from + n < Matches[q.asked]
<1> DEFINE count == Matches[q.asked] - q.from
           n == IF count > DeskPage THEN DeskPage ELSE IF count > 0 THEN count ELSE 0
<1>1. q.from \in Nat /\ Matches[q.asked] \in Nat /\ DeskPage \in Nat \ {0}
  BY NoteListAssumption DEF Load
<1>2. n \in Nat BY <1>1
<1>3. PageRows(q) = [i \in 1 .. n |-> <<q.read, q.asked, q.from + i>>] BY DEF PageRows
<1>4. q.from <= Matches[q.asked] => q.from + n <= Matches[q.asked] BY <1>1
<1>5. q.from <= Matches[q.asked] =>
        (q.from + DeskPage < Matches[q.asked] <=> q.from + n < Matches[q.asked])
  BY <1>1
<1>6. QED BY <1>2, <1>3, <1>4, <1>5

\* The fields of a load.
LEMMA LoadFields ==
    ASSUME NoteListInv, NEW l \in Loads, loads[l] # NoLoad
    PROVE  /\ loads[l] \in Load
           /\ loads[l].from \in Nat /\ loads[l].append \in BOOLEAN /\ loads[l].latest \in BOOLEAN
           /\ loads[l].asked \in Words \X NoteFilters
           /\ loads[l].read \in {-1} \cup 0 .. MaxSaves /\ loads[l].read \in Int
BY NoteListAssumption DEF NoteListInv, Load

----------------------------------------------------------------------------
(* The initial state *)

LEMMA NoteListInitInv == NoteListInit => NoteListInv
<1> SUFFICES ASSUME NoteListInit PROVE NoteListInv OBVIOUS
<1>1. PICK first \in Loads : loads = [l \in Loads |-> IF l = first THEN Sent(FALSE, 0, Searched) ELSE NoLoad]
  BY DEF NoteListInit
<1>2. Sent(FALSE, 0, Searched) \in Load
  BY DEF Sent, Load, Searched, NoteListInit, NoteListPage
<1>3. NoteListTypeOK
  <2>1. listed = << >> /\ Len(listed) = 0 /\ listed \in Seq((0 .. saves) \X (Words \X NoteFilters) \X (Nat \ {0}))
    BY DEF NoteListInit, NoteListPage
  <2>2. \A l \in Loads : loads[l] = NoLoad \/ loads[l] \in Load BY <1>1, <1>2
  <2>3. saves \in 0 .. MaxSaves /\ told \in 0 .. saves /\ offset \in 0 .. Len(listed) /\ Len(listed) <= MaxListed
    BY <2>1, NoteListAssumption DEF NoteListInit, NoteListPage
  <2>4. Searched \in Words \X NoteFilters BY DEF NoteListInit, NoteListPage, Searched
  <2>5. QED BY <2>1, <2>2, <2>3, <2>4 DEF NoteListInit, NoteListPage, NoteListTypeOK
<1>4. loads \in [Loads -> Load \cup {NoLoad}] BY <1>1, <1>2
<1>5. \A l \in Loads : loads[l] # NoLoad => l = first /\ loads[l] = Sent(FALSE, 0, Searched) BY <1>1
<1>6. \A l \in Loads : loads[l] # NoLoad => LatestInv(l) /\ loads[l].read <= saves
  BY <1>5 DEF LatestInv, Sent, NoteListInit, NoteListPage
<1>7. ListInv BY DEF ListInv, NoteListInit, NoteListPage
<1>8. QED BY <1>3, <1>4, <1>5, <1>6, <1>7 DEF NoteListInv, IsLatest

----------------------------------------------------------------------------
(* The steps *)

\* A load starts: all others are superseded, and it asks for what the page shows.
LEMMA StartLoadInv ==
    ASSUME NoteListInv, NEW l \in Loads, NEW append \in BOOLEAN, StartLoad(l, append, Searched'),
           UNCHANGED <<saves, unsure, listed, more, missed>>,
           told' \in {told, saves}, typing' \in BOOLEAN, Searched' \in Words \X NoteFilters,
           append => /\ UNCHANGED <<words, noteFilter, typing, told>>
                     /\ \A k \in Loads : ~IsLatest(k)
    PROVE  NoteListInv'
<1> DEFINE sent == Sent(append, offset', Searched')
<1>1. /\ offset \in Nat /\ offset' \in Nat /\ offset' \in 0 .. Len(listed)
      /\ saves \in 0 .. MaxSaves /\ told \in 0 .. saves /\ Len(listed) \in Nat
  BY NoteListAssumption DEF NoteListInv, NoteListTypeOK, StartLoad
<1>2. sent \in Load
  BY <1>1, NoteListAssumption DEF Sent, Load
<1>3. \A k \in Loads : Superseded(k) \in Load \cup {NoLoad} /\ (Superseded(k) # NoLoad => ~Superseded(k).latest)
  <2> TAKE k \in Loads
  <2>1. CASE loads[k] = NoLoad BY <2>1 DEF Superseded
  <2>2. CASE loads[k] # NoLoad
    <3>1. loads[k] \in Load BY <2>2, LoadFields
    <3>2. [loads[k] EXCEPT !.latest = FALSE] \in Load BY <3>1 DEF Load
    <3>3. ~[loads[k] EXCEPT !.latest = FALSE].latest BY <3>1 DEF Load
    <3>4. QED BY <2>2, <3>2, <3>3 DEF Superseded
  <2>3. QED BY <2>1, <2>2
<1>4. \A k \in Loads : loads[k] # NoLoad =>
          Superseded(k).read = loads[k].read
  BY LoadFields DEF Superseded, Load
<1>5. /\ loads' \in [Loads -> Load \cup {NoLoad}]
      /\ loads'[l] = sent
      /\ \A k \in Loads \ {l} : loads'[k] = Superseded(k)
  BY <1>2, <1>3 DEF StartLoad
<1>6. \A k \in Loads : loads'[k] # NoLoad => loads'[k].read <= saves'
  <2>1. sent.read <= saves' BY <1>1 DEF Sent
  <2>2. \A k \in Loads : loads[k] # NoLoad => loads[k].read <= saves BY DEF NoteListInv
  <2>3. \A k \in Loads : loads[k] = NoLoad => Superseded(k) = NoLoad BY DEF Superseded
  <2>4. QED BY <1>4, <1>5, <2>1, <2>2, <2>3
<1>7. IsLatest(l)' /\ \A k \in Loads : IsLatest(k)' => k = l
  <2>1. sent # NoLoad /\ sent.latest BY <1>2, NoLoadIsNone DEF Sent
  <2>2. QED BY <1>3, <1>5, <2>1 DEF IsLatest
<1>8. LatestInv(l)'
  <2>1. /\ sent.from = offset' /\ sent.append = append /\ sent.asked = Searched' /\ sent.read = -1
    BY DEF Sent
  <2>2. append \/ offset' = 0 BY DEF StartLoad
  <2>3. QED BY <1>5, <2>1, <2>2 DEF LatestInv
<1>9. ListInv'
  <2>1. CASE append
    <3>1. ~Reloading BY <2>1 DEF Reloading
    <3>2. UNCHANGED <<saves, told, unsure, missed, typing, listed, offset, more, words, noteFilter>>
      BY <2>1 DEF StartLoad
    <3>3. QED BY <3>1, <3>2 DEF NoteListInv, ListInv, Searched
  <2>2. CASE ~append
    <3>1. sent.append = FALSE BY <2>2 DEF Sent
    <3>2. Reloading' BY <1>5, <1>7, <3>1 DEF Reloading
    <3>3. QED BY <3>2 DEF ListInv
  <2>3. QED BY <2>1, <2>2
<1>10. NoteListTypeOK'
  <2>1. \A k \in Loads : loads'[k] = NoLoad \/ loads'[k] \in Load BY <1>5
  <2>2. told' \in 0 .. saves' BY <1>1
  <2>3. QED BY <1>1, <2>1, <2>2 DEF NoteListInv, NoteListTypeOK
<1>11. QED BY <1>5, <1>6, <1>7, <1>8, <1>9, <1>10 DEF NoteListInv

\* A load that ends, or is read, without touching the list.
LEMMA ListUntouched ==
    ASSUME NoteListInv, UNCHANGED <<saves, told, words, noteFilter, typing, listed, offset, more, unsure>>,
           missed' \in BOOLEAN, missed => missed',
           missed' \/ (Reloading => Reloading'),
           loads' \in [Loads -> Load \cup {NoLoad}],
           \A k \in Loads : loads'[k] # NoLoad =>
              /\ loads[k] # NoLoad
              /\ \E r \in {loads[k].read, saves} : loads'[k] = [loads[k] EXCEPT !.read = r]
    PROVE  NoteListInv'
<1>1. \A k \in Loads : loads'[k] # NoLoad =>
        /\ loads'[k].from = loads[k].from /\ loads'[k].append = loads[k].append
        /\ loads'[k].asked = loads[k].asked /\ loads'[k].latest = loads[k].latest
        /\ loads'[k].read \in {loads[k].read, saves}
  BY LoadFields DEF Load
<1>2. NoteListTypeOK'
  <2>1. \A k \in Loads : loads'[k] = NoLoad \/ loads'[k] \in Load OBVIOUS
  <2>2. Searched' = Searched BY DEF Searched
  <2>3. QED BY <2>1, <2>2 DEF NoteListInv, NoteListTypeOK
<1>3. saves \in Nat /\ told \in Nat /\ told <= saves
  BY NoteListAssumption DEF NoteListInv, NoteListTypeOK
<1>4. \A k \in Loads : loads'[k] # NoLoad => loads'[k].read <= saves'
  BY <1>1, <1>3 DEF NoteListInv
<1>5. \A k \in Loads : IsLatest(k)' => IsLatest(k) /\ loads'[k] # NoLoad
  BY <1>1 DEF IsLatest
<1>6. \A k \in Loads : IsLatest(k)' => LatestInv(k)'
  BY <1>1, <1>3, <1>5 DEF NoteListInv, LatestInv, Searched
<1>7. ListInv' BY DEF NoteListInv, ListInv, Searched
<1>8. QED BY <1>2, <1>4, <1>5, <1>6, <1>7 DEF NoteListInv

\* The page or the server moves on while loads stay.
LEMMA LoadsStay ==
    ASSUME NoteListInv, UNCHANGED <<listed, offset, more, missed, loads>>,
           saves' \in 0 .. MaxSaves, told' \in 0 .. saves', unsure' \in BOOLEAN, typing' \in BOOLEAN,
           Searched' \in Words \X NoteFilters, saves <= saves',
           \/ (UNCHANGED <<saves, told, unsure>> /\ typing')
           \/ UNCHANGED <<words, noteFilter, typing>> /\ (unsure' \/ (UNCHANGED <<told, unsure>> /\ told' # saves'))
           \/ UNCHANGED <<saves, told, unsure, words, noteFilter, typing>>
    PROVE  NoteListInv'
<1>1. saves \in Nat /\ saves' \in Nat BY NoteListAssumption DEF NoteListInv, NoteListTypeOK
<1>2. 0 .. saves \subseteq 0 .. saves' BY <1>1
<1>3. NoteListTypeOK'
  <2>1. listed \in Seq((0 .. saves') \X (Words \X NoteFilters) \X (Nat \ {0}))
    BY <1>2 DEF NoteListInv, NoteListTypeOK
  <2>2. QED BY <2>1 DEF NoteListInv, NoteListTypeOK
<1>4. \A k \in Loads : loads'[k] # NoLoad => loads'[k].read <= saves'
  BY <1>1, LoadFields DEF NoteListInv
<1>5. \A k \in Loads : IsLatest(k)' <=> IsLatest(k) BY DEF IsLatest
<1>6. \A k \in Loads : IsLatest(k)' => LatestInv(k)'
  BY <1>5 DEF NoteListInv, LatestInv, Searched
<1>7. ListInv' BY <1>5 DEF NoteListInv, ListInv, Searched, Reloading
<1>8. QED BY <1>3, <1>4, <1>5, <1>6, <1>7 DEF NoteListInv

\* The answer to the latest load is shown.
LEMMA ShowHeeded ==
    ASSUME NoteListInv, NEW l \in Loads, ShowAnswer(l), Heeded(l)
    PROVE  NoteListInv'
<1> DEFINE q == loads[l]
<1>1. IsLatest(l) /\ q # NoLoad /\ q.read # -1 BY DEF ShowAnswer, Heeded, IsLatest
<1>2. q \in Load /\ q.from \in Nat /\ q.append \in BOOLEAN /\ q.asked \in Words \X NoteFilters /\ q.read \in 0 .. MaxSaves
  BY <1>1, LoadFields
<1>3. PICK n \in Nat :
        /\ PageRows(q) = [i \in 1 .. n |-> <<q.read, q.asked, q.from + i>>]
        /\ q.from <= Matches[q.asked] =>
              /\ q.from + n <= Matches[q.asked]
              /\ q.from + DeskPage < Matches[q.asked] <=> q.from + n < Matches[q.asked]
  BY <1>2, PageRowsFacts
<1>4. /\ q.from = offset
      /\ q.append \/ offset = 0
      /\ q.asked = Searched \/ typing
      /\ unsure \/ q.read >= told
      /\ q.read <= saves
  BY <1>1 DEF NoteListInv, LatestInv
<1> DEFINE Shown == (0 .. saves) \X (Words \X NoteFilters) \X (Nat \ {0})
           base == IF q.append THEN listed ELSE << >>
<1>5. /\ saves \in Nat /\ told \in Nat /\ told <= saves /\ offset \in Nat /\ offset <= Len(listed)
      /\ listed \in Seq(Shown) /\ Len(listed) \in Nat
  <2>1. listed \in Seq(Shown) /\ Len(listed) \in Nat BY DEF NoteListInv, NoteListTypeOK
  <2>2. QED BY <2>1, NoteListAssumption DEF NoteListInv, NoteListTypeOK
<1>6. PageRows(q) \in Seq(Shown) /\ Len(PageRows(q)) = n
  <2>1. \A i \in 1 .. n : <<q.read, q.asked, q.from + i>> \in Shown BY <1>2, <1>4, <1>5
  <2> HIDE DEF Shown
  <2>2. QED BY <1>3, <2>1
<1> HIDE DEF Shown
<1>7. base \in Seq(Shown) /\ Len(base) \in Nat /\ offset <= Len(base) BY <1>2, <1>4, <1>5
<1>8. /\ listed' = base \o PageRows(q) /\ offset' = offset + n
      /\ more' = (q.from + DeskPage < Matches[q.asked])
      /\ missed' = (q.append /\ missed)
      /\ unsure' = (unsure /\ (q.append \/ q.read # saves))
      /\ Len(listed') <= MaxListed
      /\ UNCHANGED <<saves, told, words, noteFilter, typing>>
      /\ loads' = [loads EXCEPT ![l] = NoLoad]
  BY <1>6 DEF ShowAnswer
<1>9. listed' \in Seq(Shown) /\ offset' \in 0 .. Len(listed')
  <2> HIDE DEF base
  <2>1. base \o PageRows(q) \in Seq(Shown) BY <1>6, <1>7
  <2>2. Len(base \o PageRows(q)) = Len(base) + n BY <1>6, <1>7
  <2>3. offset + n \in 0 .. (Len(base) + n) BY <1>5, <1>7
  <2>4. QED BY <1>8, <2>1, <2>2, <2>3
<1>10. /\ loads' \in [Loads -> Load \cup {NoLoad}]
       /\ \A k \in Loads : loads'[k] # NoLoad => k # l /\ loads'[k] = loads[k]
  BY <1>8 DEF NoteListInv
<1>11. \A k \in Loads : ~IsLatest(k)' BY <1>1, <1>10 DEF NoteListInv, IsLatest
<1>12. NoteListTypeOK'
  <2>1. \A k \in Loads : loads'[k] = NoLoad \/ loads'[k] \in Load BY <1>10
  <2>2. Searched' = Searched BY <1>8 DEF Searched
  <2>3. unsure' \in BOOLEAN /\ more' \in BOOLEAN /\ missed' \in BOOLEAN BY <1>8
  <2>4. listed' \in Seq((0 .. saves') \X (Words \X NoteFilters) \X (Nat \ {0}))
    BY <1>8, <1>9 DEF Shown
  <2>5. QED BY <1>8, <1>9, <2>1, <2>2, <2>3, <2>4 DEF NoteListInv, NoteListTypeOK
<1>13. ListInv'
  <2> SUFFICES ASSUME ~typing, told = saves, ~unsure', ~missed'
               PROVE  /\ listed' = [i \in 1 .. offset' |-> <<saves, Searched, i>>]
                      /\ offset' <= Matches[Searched]
                      /\ more' <=> offset' < Matches[Searched]
    BY <1>8 DEF ListInv, Searched
  <2>1. q.asked = Searched /\ q.read = saves
    <3>1. q.asked = Searched BY <1>4
    <3>2. CASE unsure
      <4>1. ~(unsure /\ (q.append \/ q.read # saves)) BY <1>8
      <4>2. QED BY <3>1, <3>2, <4>1
    <3>3. CASE ~unsure
      <4>1. told = saves /\ q.read >= told /\ q.read <= saves BY <1>4, <3>3
      <4>2. q.read \in Int BY <1>2
      <4>3. q.read = saves BY <1>5, <4>1, <4>2
      <4>4. QED BY <3>1, <4>3
    <3>4. QED BY <3>1, <3>2, <3>3
  <2>2. Matches[Searched] \in Nat BY <1>2, <2>1, NoteListAssumption
  <2>3. PageRows(q) = [i \in 1 .. n |-> <<saves, Searched, offset + i>>] BY <1>3, <1>4, <2>1
  <2>4. CASE ~q.append
    <3>1. offset = 0 /\ base = << >> BY <1>4, <2>4
    <3>2. listed' = PageRows(q)
      <4>1. << >> \o PageRows(q) = PageRows(q) BY <1>6
      <4>2. QED BY <1>8, <3>1, <4>1
    <3>3. PageRows(q) = [i \in 1 .. offset' |-> <<saves, Searched, i>>]
      <4>1. offset + n = n /\ \A i \in 1 .. n : offset + i = i BY <1>3, <3>1
      <4>2. QED BY <1>8, <2>3, <4>1
    <3>4. listed' = [i \in 1 .. offset' |-> <<saves, Searched, i>>] BY <3>2, <3>3
    <3>5. offset' <= Matches[Searched]
      <4>1. q.from <= Matches[Searched] BY <1>4, <2>2, <3>1
      <4>2. QED BY <1>3, <1>4, <1>8, <2>1, <4>1
    <3>6. more' <=> offset' < Matches[Searched]
      <4>1. q.from <= Matches[Searched] BY <1>4, <2>2, <3>1
      <4>2. QED BY <1>3, <1>4, <1>8, <2>1, <4>1
    <3>7. QED BY <3>4, <3>5, <3>6
  <2>5. CASE q.append
    <3>1. ~Reloading BY <1>1, <2>5 DEF Reloading, NoteListInv
    <3>2. ~unsure /\ ~missed BY <1>8, <2>5
    <3>3. listed = [i \in 1 .. offset |-> <<saves, Searched, i>>] /\ offset <= Matches[Searched]
      BY <3>1, <3>2 DEF NoteListInv, ListInv
    <3>4. listed' = listed \o PageRows(q) BY <1>8, <2>5
    <3>5. listed \o PageRows(q) = [i \in 1 .. (offset + n) |-> <<saves, Searched, i>>]
      <4>1. Len(listed) = offset BY <1>5, <3>3
      <4>2. Len(listed \o PageRows(q)) = offset + n BY <1>5, <1>6, <4>1
      <4>3. ASSUME NEW i \in 1 .. (offset + n)
            PROVE  (listed \o PageRows(q))[i] = <<saves, Searched, i>>
        <5>1. CASE i <= offset BY <1>5, <1>6, <3>3, <4>1, <5>1
        <5>2. CASE i > offset
          <6>1. i - offset \in 1 .. n /\ offset + (i - offset) = i BY <1>5, <5>2
          <6>2. (listed \o PageRows(q))[i] = PageRows(q)[i - offset] BY <1>5, <1>6, <4>1, <5>2
          <6>3. PageRows(q)[i - offset] = <<saves, Searched, offset + (i - offset)>> BY <2>3, <6>1
          <6>4. QED BY <6>1, <6>2, <6>3
        <5>3. i \in Int /\ offset \in Int BY <1>5
        <5>4. i <= offset \/ i > offset BY <5>3
        <5>5. QED BY <5>1, <5>2, <5>4
      <4>4. listed \o PageRows(q) \in Seq(Shown) BY <1>5, <1>6
      <4> DEFINE both == listed \o PageRows(q)
      <4>5. both = [i \in 1 .. Len(both) |-> both[i]]
        <5> HIDE DEF both
        <5>1. both \in Seq(Shown) BY <4>4 DEF both
        <5>2. QED BY <5>1
      <4>6. QED BY <4>2, <4>3, <4>5
    <3>6. QED BY <1>3, <1>4, <1>8, <2>1, <2>2, <3>3, <3>4, <3>5
  <2>6. QED BY <1>2, <2>4, <2>5
<1>14. \A k \in Loads : loads'[k] # NoLoad => loads'[k].read <= saves' BY <1>8, <1>10 DEF NoteListInv
<1>15. QED BY <1>10, <1>11, <1>12, <1>13, <1>14 DEF NoteListInv

\* Every step keeps the invariant.
LEMMA NoteListStepInv == NoteListInv /\ [NoteListNext]_noteListVars => NoteListInv'
<1> SUFFICES ASSUME NoteListInv, [NoteListNext]_noteListVars PROVE NoteListInv' OBVIOUS
<1>0. /\ saves \in 0 .. MaxSaves /\ told \in 0 .. saves /\ unsure \in BOOLEAN /\ missed \in BOOLEAN
      /\ typing \in BOOLEAN /\ Searched \in Words \X NoteFilters /\ words \in Words /\ noteFilter \in NoteFilters
      /\ loads \in [Loads -> Load \cup {NoLoad}]
  BY DEF NoteListInv, NoteListTypeOK, Searched
<1>1. ASSUME NEW l \in Loads, ReadNotes(l) PROVE NoteListInv'
  <2>1. loads[l] # NoLoad /\ loads[l] \in Load BY <1>1, LoadFields DEF ReadNotes
  <2>2. [loads[l] EXCEPT !.read = saves] \in Load BY <1>0, <2>1 DEF Load
  <2>3. loads' = [loads EXCEPT ![l] = [loads[l] EXCEPT !.read = saves]] BY <1>1 DEF ReadNotes
  <2>4. loads' \in [Loads -> Load \cup {NoLoad}] BY <1>0, <2>2, <2>3
  <2>5. \A k \in Loads : loads[k] # NoLoad => loads[k] = [loads[k] EXCEPT !.read = loads[k].read]
    BY LoadFields DEF Load
  <2>6. \A k \in Loads : loads'[k] # NoLoad =>
          /\ loads[k] # NoLoad
          /\ \E r \in {loads[k].read, saves} : loads'[k] = [loads[k] EXCEPT !.read = r]
    BY <1>0, <2>1, <2>3, <2>5
  <2>7. Reloading => Reloading'
    <3>1. ASSUME NEW k \in Loads, IsLatest(k), ~loads[k].append PROVE IsLatest(k)' /\ ~loads'[k].append
      <4>1. loads[k] # NoLoad /\ loads[k] \in Load BY <3>1, LoadFields DEF IsLatest
      <4>2. loads'[k] \in {loads[k], [loads[k] EXCEPT !.read = saves]} BY <1>0, <2>3
      <4>3. loads'[k] \in Load BY <1>0, <4>1, <4>2 DEF Load
      <4>4. loads'[k] # NoLoad BY <4>3, NoLoadIsNone
      <4>5. loads'[k].latest = loads[k].latest /\ loads'[k].append = loads[k].append BY <4>1, <4>2 DEF Load
      <4>6. QED BY <3>1, <4>4, <4>5 DEF IsLatest
    <3>2. QED BY <3>1 DEF Reloading
  <2>8. UNCHANGED <<saves, told, words, noteFilter, typing, listed, offset, more, unsure, missed>>
    BY <1>1 DEF ReadNotes
  <2>9. QED BY <1>0, <2>4, <2>6, <2>7, <2>8, ListUntouched
<1>2. ASSUME NEW l \in Loads, loads' = [loads EXCEPT ![l] = NoLoad], missed' \in BOOLEAN, missed => missed',
             UNCHANGED <<saves, told, words, noteFilter, typing, listed, offset, more, unsure>>,
             missed' \/ ~IsLatest(l) \/ loads[l].append
      PROVE  NoteListInv'
  <2>1. loads' \in [Loads -> Load \cup {NoLoad}] BY <1>0, <1>2
  <2>2. \A k \in Loads : loads[k] # NoLoad => loads[k] = [loads[k] EXCEPT !.read = loads[k].read]
    BY LoadFields DEF Load
  <2>3. \A k \in Loads : loads'[k] # NoLoad =>
          /\ loads[k] # NoLoad
          /\ \E r \in {loads[k].read, saves} : loads'[k] = [loads[k] EXCEPT !.read = r]
    BY <1>0, <1>2, <2>2
  <2>4. missed' \/ (Reloading => Reloading') BY <1>0, <1>2 DEF Reloading, IsLatest
  <2>5. QED BY <1>2, <2>1, <2>3, <2>4, ListUntouched
<1>3. ASSUME NEW l \in Loads, ShowAnswer(l) PROVE NoteListInv'
  <2>1. CASE Heeded(l) BY <1>3, <2>1, ShowHeeded
  <2>2. CASE ~Heeded(l)
    <3>1. ~IsLatest(l) BY <1>3, <2>2 DEF ShowAnswer, Heeded, IsLatest
    <3>2. loads' = [loads EXCEPT ![l] = NoLoad]
          /\ UNCHANGED <<saves, told, words, noteFilter, typing, listed, offset, more, unsure, missed>>
      BY <1>3, <2>2 DEF ShowAnswer
    <3>3. QED BY <1>0, <1>2, <3>1, <3>2
  <2>3. QED BY <2>1, <2>2
<1>4. ASSUME NEW l \in Loads, FailedLoad(l) PROVE NoteListInv'
  <2>1. missed' = (missed \/ (IsLatest(l) /\ ~loads[l].append)) BY <1>4 DEF FailedLoad
  <2>2. QED BY <1>0, <1>2, <1>4, <2>1 DEF FailedLoad
<1>5. ASSUME NEW l \in Loads, NEW f \in NoteFilters, ClickFilter(l, f) PROVE NoteListInv'
  <2>1. Searched' = <<words, f>> /\ <<words, f>> \in Words \X NoteFilters
    BY <1>0, <1>5 DEF ClickFilter, Searched
  <2>2. QED BY <1>0, <1>5, <2>1, StartLoadInv DEF ClickFilter
<1>6. ASSUME NEW l \in Loads, TypingRests(l) \/ NoteSaved(l) PROVE NoteListInv'
  <2>1. Searched' = Searched BY <1>6 DEF TypingRests, NoteSaved, Searched
  <2>2. StartLoad(l, FALSE, Searched') /\ UNCHANGED <<saves, unsure, listed, more, missed>>
        /\ told' \in {told, saves} /\ typing' \in BOOLEAN
    BY <1>0, <1>6, <2>1 DEF TypingRests, NoteSaved
  <2>3. QED BY <1>0, <2>1, <2>2, StartLoadInv
<1>7. ASSUME NEW l \in Loads, ClickMore(l) PROVE NoteListInv'
  <2>1. Searched' = Searched BY <1>7 DEF ClickMore, Searched
  <2>2. QED BY <1>0, <1>7, <2>1, StartLoadInv DEF ClickMore
<1>8. ASSUME NEW w \in Words, Type(w) PROVE NoteListInv'
  <2>1. Searched' \in Words \X NoteFilters BY <1>0, <1>8 DEF Type, Searched
  <2>2. saves <= saves' BY <1>0, <1>8, NoteListAssumption DEF Type
  <2>3. QED BY <1>0, <1>8, <2>1, <2>2, LoadsStay DEF Type
<1>9. CASE NoteSavedOnServer \/ LoseSaved
  <2>1. Searched' = Searched BY <1>9 DEF NoteSavedOnServer, LoseSaved, Searched
  <2>2. /\ saves' \in 0 .. MaxSaves /\ told' \in 0 .. saves' /\ saves <= saves' /\ unsure' \in BOOLEAN
        /\ UNCHANGED <<words, noteFilter, typing, listed, offset, more, missed, loads>>
        /\ unsure' \/ (UNCHANGED <<told, unsure>> /\ told' # saves')
    <3>1. saves \in Nat /\ told \in Nat /\ told <= saves BY <1>0, NoteListAssumption
    <3>2. CASE NoteSavedOnServer BY <1>0, <3>1, <3>2, NoteListAssumption DEF NoteSavedOnServer
    <3>3. CASE LoseSaved BY <1>0, <3>1, <3>3, NoteListAssumption DEF LoseSaved
    <3>4. QED BY <1>9, <3>2, <3>3
  <2>3. QED BY <1>0, <2>1, <2>2, LoadsStay
<1>10. CASE UNCHANGED noteListVars
  <2>1. Searched' = Searched /\ saves <= saves' BY <1>0, <1>10, NoteListAssumption DEF noteListVars, Searched
  <2>2. QED BY <1>0, <1>10, <2>1, LoadsStay DEF noteListVars
<1>11. QED BY <1>1, <1>3, <1>4, <1>5, <1>6, <1>7, <1>8, <1>9, <1>10 DEF NoteListNext

\* When the page waits for nothing that could still change the list, the list is
\* the first pages of what it asks for, whatever answers came late, in another
\* order or not at all.
THEOREM ListAlwaysShowsTheQuery == NoteListSpec => []ListShowsTheQuery
<1>1. NoteListInv => ListShowsTheQuery
  BY DEF NoteListInv, ListInv, ListShowsTheQuery, Settled, Reloading
<1>2. NoteListSpec => []NoteListInv
  BY NoteListInitInv, NoteListStepInv, PTL DEF NoteListSpec
<1>3. QED BY <1>1, <1>2, PTL

\* Loads, saves and the rows of the list stay of their types.
THEOREM NoteListTypeCorrect == NoteListSpec => []NoteListTypeOK
<1>1. NoteListInv => NoteListTypeOK BY DEF NoteListInv
<1>2. QED BY <1>1, NoteListInitInv, NoteListStepInv, PTL DEF NoteListSpec

----------------------------------------------------------------------------
(* Chips and clouds of tags *)

----------------------------------------------------------------------------
(* Lists and pages *)

\* What a list may offer at most: what everybody may read, and what is one's own.
Offerable(v, n) == ~posts[n].deleted /\ (Writer[n] = v \/ Readable(n))

LEMMA OfferableOpens ==
    ASSUME NEW v, NEW n \in Posts, Offerable(v, n)
    PROVE  Opens(v, n) /\ ShowsImage(v, n)
BY DEF Offerable, Opens, ShowsImage, Readable

LEMMA ListedIsOfferable ==
    ASSUME NEW v \in Viewers, NEW n \in Posts, ListedTo(v, n)
    PROVE  Offerable(v, n)
<1>1. CASE n \in Following(v) \cup Saved(v) \cup Search \cup Palette \cup RandomNote
  BY <1>1 DEF Following, Saved, Search, Palette, RandomNote, MayRecommend, Readable, Offerable
<1>2. CASE n \in Preview \cup Graph \cup ProfileLinks \cup (UNION {TagPage(t) \cup TagFeed(t) : t \in Tags})
  BY <1>2 DEF Preview, Graph, ProfileLinks, TagPage, TagRows, TagFeed, MayRecommend, Readable, Offerable
<1>3. CASE n \in SuggestHeadings(v) \cup SuggestNotes(v) \cup SuggestDeskNotes(v)
  BY <1>3 DEF SuggestHeadings, SuggestNotes, SuggestDeskNotes, ReadableOrOwn, Written, Kept, Readable, Offerable
<1>4. CASE n \in DeskWindows(v) \cup DeskResolve(v) \cup DeskNotes(v) \cup DeskBookmarks(v)
  BY <1>4 DEF DeskWindows, DeskResolve, DeskNotes, DeskBookmarks, ReadableOrOwn, Written, Kept, Readable, Offerable
<1>5. CASE \E m \in Posts : n \in LocalGraph(m) \cup Backlinks(m) \cup Outgoing(m)
  BY <1>5 DEF LocalGraph, Backlinks, Outgoing, Readable, Offerable
<1>6. CASE \E a \in Members : n \in SpaceReading(a) \cup SuggestNotesForUser(v, a) \cup ShowcaseNote(v, a)
                                    \cup ShowcaseTag(a) \cup Pinned(v, a)
  BY <1>6 DEF SpaceReading, SuggestNotesForUser, ShowcaseNote, ShowcaseTag, Pinned, Written, Kept, Readable, Offerable
<1>7. CASE \E a \in Members, tab \in {"", "drafts", "all"}, batch \in BOOLEAN :
               n \in Timeline(v, a, tab, batch)
  BY <1>7 DEF Timeline, Written, Kept, Readable, Offerable
<1> QED
  BY <1>1, <1>2, <1>3, <1>4, <1>5, <1>6, <1>7 DEF ListedTo

LEMMA ListsLeadToOpenPages == ListedOpens
<1>1. ASSUME NEW v \in Viewers, NEW n \in Posts, ~(Opens(v, n) /\ ShowsImage(v, n))
      PROVE  ~ListedTo(v, n)
  BY <1>1, ListedIsOfferable, OfferableOpens
<1>2. \A a \in Members : \A n \in Timeline(Guest, a, "", TRUE) : MayRecommend(n)
  BY DEF Timeline, Kept, MayRecommend, Readable
<1> QED
  BY <1>1, <1>2 DEF ListedOpens, RandomNote, TagFeed

\* Finitely many notes, tags and rows of both, and what their subsets count.
LEMMA RowsAreFinite ==
    /\ \A S \in SUBSET Posts : IsFiniteSet(S)
    /\ \A S \in SUBSET (Posts \X Tags) :
          IsFiniteSet(S) /\ Cardinality(S) \in 0 .. Cardinality(Posts \X Tags)
<1>1. IsFiniteSet(Posts) /\ IsFiniteSet(Posts \X Tags) BY ReadingAssumption, FS_Product
<1>2. ASSUME NEW S \in SUBSET (Posts \X Tags)
      PROVE  IsFiniteSet(S) /\ Cardinality(S) \in 0 .. Cardinality(Posts \X Tags)
  <2>1. IsFiniteSet(S) /\ Cardinality(S) <= Cardinality(Posts \X Tags) BY <1>1, FS_Subset
  <2>2. Cardinality(S) \in Nat /\ Cardinality(Posts \X Tags) \in Nat BY <1>1, <2>1, FS_CardinalityType
  <2>3. QED BY <2>1, <2>2
<1>3. QED BY <1>1, <1>2, FS_Subset

\* What is counted is on the list: no more than the list has, and a count that is
\* shown is of a list with something on it.
LEMMA CountedOfList ==
    ASSUME NEW whole, IsFiniteSet(whole), NEW S \in SUBSET whole, Cardinality(S) > 0
    PROVE  Cardinality(S) \in 1 .. Cardinality(whole) /\ S # {}
<1>1. IsFiniteSet(S) /\ Cardinality(S) <= Cardinality(whole) BY FS_Subset
<1>2. Cardinality(S) \in Nat /\ Cardinality(whole) \in Nat BY <1>1, FS_CardinalityType
<1>3. S # {} BY FS_EmptySet
<1>4. QED BY <1>1, <1>2, <1>3

\* The limited counts are among those counted, and none is zero.
LEMMA MostUsedAreCounted ==
    ASSUME NEW count, NEW limit, NEW t \in DOMAIN MostUsed(count, limit)
    PROVE  t \in DOMAIN count /\ MostUsed(count, limit)[t] = count[t] /\ count[t] > 0
BY DEF MostUsed

\* The page of a tag shows the notes that have it, and lists them finitely.
LEMMA TagPageShows ==
    ASSUME NEW t \in Tags
    PROVE  /\ TagPage(t) \subseteq Posts /\ TagRows(t) \subseteq Posts \X Tags
           /\ \A n \in Posts : t \in posts[n].tags /\ Readable(n) => n \in TagPage(t)
           /\ \A n \in TagPage(t) : Readable(n)
           /\ \A r \in TagRows(t) : r[1] \in TagPage(t)
<1>1. t \in Variants[t] /\ Variants[t] \subseteq Tags BY ReadingAssumption
<1>2. \A r \in TagRows(t) : r \in Posts \X Tags /\ r[1] \in Posts /\ Readable(r[1]) BY <1>1 DEF TagRows
<1>3. ASSUME NEW n \in Posts, t \in posts[n].tags, Readable(n) PROVE n \in TagPage(t)
  <2>1. <<n, t>> \in TagRows(t) BY <1>1, <1>3 DEF TagRows
  <2>2. <<n, t>>[1] = n OBVIOUS
  <2>3. QED BY <2>1, <2>2 DEF TagPage
<1>4. QED BY <1>2, <1>3 DEF TagPage

LEMMA SuggestedTags ==
    ASSUME NEW typed \in SUBSET Tags, NEW t \in DOMAIN TagSuggest(typed)
    PROVE  /\ TagSuggest(typed)[t] = Cardinality({n \in TagPage(t) : t \in posts[n].tags})
           /\ TagSuggest(typed)[t] \in 1 .. Cardinality(TagPage(t))
<1> DEFINE count == [u \in typed |-> Cardinality({n \in Posts : u \in posts[n].tags /\ Readable(n)})]
<1>1. TagSuggest(typed) = MostUsed(count, SuggestLimit) BY DEF TagSuggest
<1>2. t \in DOMAIN count /\ TagSuggest(typed)[t] = count[t] /\ count[t] > 0
  <2> HIDE DEF count
  <2>1. QED BY <1>1, MostUsedAreCounted
<1>3. t \in Tags /\ count[t] = Cardinality({n \in Posts : t \in posts[n].tags /\ Readable(n)}) BY <1>2
<1>4. {n \in Posts : t \in posts[n].tags /\ Readable(n)} = {n \in TagPage(t) : t \in posts[n].tags}
  BY <1>3, TagPageShows
<1>5. IsFiniteSet(TagPage(t)) BY <1>3, TagPageShows, RowsAreFinite
<1>6. QED
  <2> DEFINE S == {n \in TagPage(t) : t \in posts[n].tags}
  <2>1. S \in SUBSET TagPage(t) /\ Cardinality(S) = count[t] BY <1>3, <1>4
  <2> HIDE DEF S, count
  <2>2. Cardinality(S) \in 1 .. Cardinality(TagPage(t)) BY <1>2, <1>5, <2>1, CountedOfList
  <2>3. QED BY <1>2, <2>1, <2>2 DEF S

LEMMA ChipsOfFeed ==
    ASSUME NEW t \in DOMAIN TopTags
    PROVE  /\ TopTags[t] = Cardinality({n \in TagFeed(t) : posts[n].recent})
           /\ TopTags[t] \in 1 .. Cardinality(TagFeed(t))
<1> DEFINE count == [u \in Tags |-> Cardinality({n \in Posts : /\ u \in posts[n].tags
                                                           /\ posts[n].recent /\ MayRecommend(n)})]
<1>1. TopTags = MostUsed(count, ChipLimit) BY DEF TopTags
<1>2. t \in DOMAIN count /\ TopTags[t] = count[t] /\ count[t] > 0
  <2> HIDE DEF count
  <2>1. QED BY <1>1, MostUsedAreCounted
<1> DEFINE S == {n \in TagFeed(t) : posts[n].recent}
<1>3. S = {n \in Posts : t \in posts[n].tags /\ posts[n].recent /\ MayRecommend(n)} BY DEF TagFeed
<1>4. S \in SUBSET TagFeed(t) /\ Cardinality(S) = count[t] BY <1>2, <1>3
<1>5. IsFiniteSet(TagFeed(t)) BY RowsAreFinite DEF TagFeed
<1> HIDE DEF S, count
<1>6. Cardinality(S) \in 1 .. Cardinality(TagFeed(t)) BY <1>2, <1>4, <1>5, CountedOfList
<1>7. QED BY <1>2, <1>4, <1>6 DEF S

LEMMA RelatedOfPage ==
    ASSUME NEW t \in Tags, NEW u \in DOMAIN RelatedTags(t)
    PROVE  /\ RelatedTags(t)[u]
                = Cardinality({r \in TagRows(t) : r[1] \in TagPage(u) /\ u \in posts[r[1]].tags})
           /\ RelatedTags(t)[u] \in 1 .. Cardinality(TagRows(t))
           /\ TagPage(t) \cap TagPage(u) # {}
<1> DEFINE count == [v \in Tags \ Variants[t] |->
                        Cardinality({r \in Posts \X Variants[t] :
                                        {r[2], v} \subseteq posts[r[1]].tags /\ Readable(r[1])})]
<1>1. RelatedTags(t) = MostUsed(count, CloudLimit) BY DEF RelatedTags
<1>2. u \in DOMAIN count /\ RelatedTags(t)[u] = count[u] /\ count[u] > 0
  <2> HIDE DEF count
  <2>1. QED BY <1>1, MostUsedAreCounted
<1>3. u \in Tags BY <1>2
<1> DEFINE S == {r \in TagRows(t) : r[1] \in TagPage(u) /\ u \in posts[r[1]].tags}
<1>4. S = {r \in Posts \X Variants[t] : {r[2], u} \subseteq posts[r[1]].tags /\ Readable(r[1])}
  <2>1. ASSUME NEW r \in Posts \X Variants[t], {r[2], u} \subseteq posts[r[1]].tags, Readable(r[1])
        PROVE  r \in S
    <3>1. r \in TagRows(t) BY <2>1 DEF TagRows
    <3>2. r[1] \in TagPage(u) BY <1>3, <2>1, TagPageShows
    <3>3. QED BY <2>1, <3>1, <3>2
  <2>2. ASSUME NEW r \in S
        PROVE  r \in Posts \X Variants[t] /\ {r[2], u} \subseteq posts[r[1]].tags /\ Readable(r[1])
    BY DEF TagRows
  <2>3. QED BY <2>1, <2>2
<1>5. S \in SUBSET TagRows(t) /\ Cardinality(S) = count[u] BY <1>2, <1>4
<1>6. IsFiniteSet(TagRows(t)) BY TagPageShows, RowsAreFinite
<1>7. \A r \in S : r[1] \in TagPage(t) \cap TagPage(u) BY TagPageShows
<1> HIDE DEF S, count
<1>8. Cardinality(S) \in 1 .. Cardinality(TagRows(t)) /\ S # {} BY <1>2, <1>5, <1>6, CountedOfList
<1>9. QED BY <1>2, <1>5, <1>7, <1>8 DEF S

\* The notes behind a count are those on the list.
LEMMA ListsHoldTheCounted == CountsMatchLists
<1>1. ASSUME NEW a \in Members
      PROVE  {n \in Written(a) : Kept(n) /\ (a # a => posts[n].published)} = Timeline(a, a, "all", FALSE)
  BY DEF Timeline
<1>2. ASSUME NEW a \in Members, NEW v \in Viewers \ {a}
      PROVE  /\ {n \in Written(a) : Readable(n)} = {n \in Written(a) : Kept(n) /\ (v # a => posts[n].published)}
             /\ {n \in Written(a) : Kept(n) /\ (v # a => posts[n].published)} = Timeline(v, a, "", FALSE)
  BY DEF Timeline, Kept, Readable
<1>3. ASSUME NEW a \in Members, a \in {Writer[n] : n \in Upload}
      PROVE  {n \in Upload : MayRecommend(n)} = Timeline(Guest, a, "", TRUE)
  <2>1. Guest # a BY ReadingAssumption
  <2>2. PICK m \in Upload : Writer[m] = a BY <1>3
  <2>3. \A n \in Upload : n \in Posts /\ Writer[n] = a BY <2>2, ReadingAssumption
  <2>4. QED BY <2>1, <2>3 DEF Timeline, Written, Kept, MayRecommend, Readable
<1>4. \A a \in Members :
          /\ NoteCount(a, a) = Cardinality(Timeline(a, a, "all", FALSE))
          /\ \A v \in Viewers \ {a} :
                AuthorNotes(a) = NoteCount(v, a) /\ NoteCount(v, a) = Cardinality(Timeline(v, a, "", FALSE))
  BY <1>1, <1>2 DEF NoteCount, AuthorNotes
<1>5. \A a \in Members : a \in {Writer[n] : n \in Upload} =>
          CardCount = Cardinality(Timeline(Guest, a, "", TRUE))
  BY <1>3 DEF CardCount
<1>6. QED BY <1>4, <1>5, SuggestedTags, ChipsOfFeed, RelatedOfPage DEF CountsMatchLists

----------------------------------------------------------------------------
(* The tag caches *)

\* A refill that no write has overtaken holds what the table holds now.
RefillsAreCurrent ==
    \A q \in TagRequests :
        refills[q] # Chips /\ refills[q].queried /\ ~refills[q].late =>
            refills[q].data = IF refills[q].of = Chips THEN TopTags ELSE RelatedTags(refills[q].of)

TagCacheInv ==
    /\ TagCacheTypeOK
    /\ IsFiniteSet(DOMAIN clouds)
    /\ RefillsAreCurrent
    /\ StaleOnlyByOverlap

\* Counts that are limited are counts still.
LEMMA MostUsedType ==
    ASSUME NEW S \in SUBSET Tags, NEW count \in [S -> 0 .. Cardinality(Posts \X Tags)], NEW limit
    PROVE  MostUsed(count, limit) \in Counts
<1>1. PICK T \in SUBSET S : MostUsed(count, limit) = [t \in T |-> count[t]]
  <2> DEFINE used == {t \in DOMAIN count : count[t] > 0}
             T == {u \in used : Cardinality({v \in used : Before(count, v, u)}) < limit}
  <2>1. T \subseteq S OBVIOUS
  <2>2. MostUsed(count, limit) = [t \in T |-> count[t]] BY DEF MostUsed
  <2> HIDE DEF T
  <2>3. QED BY <2>1, <2>2
<1>2. [t \in T |-> count[t]] \in [T -> 0 .. Cardinality(Posts \X Tags)] OBVIOUS
<1>3. T \in SUBSET Tags OBVIOUS
<1>4. QED BY <1>1, <1>2, <1>3 DEF Counts

\* No row more is counted of one tag than there are rows of all.
LEMMA PostsAreCounted ==
    ASSUME NEW t \in Tags, NEW S \in SUBSET Posts
    PROVE  Cardinality(S) \in 0 .. Cardinality(Posts \X Tags)
<1> DEFINE f == [n \in S |-> <<n, t>>]
<1>1. IsFiniteSet(S) /\ IsFiniteSet(Posts \X Tags) BY RowsAreFinite
<1>2. f \in Injection(S, Posts \X Tags) BY DEF Injection, IsInjective
<1>3. Cardinality(S) <= Cardinality(Posts \X Tags) BY <1>1, <1>2, FS_Injection
<1>4. QED BY <1>1, <1>3, FS_CardinalityType

LEMMA CountsAreCounts ==
    /\ NoCounts \in Counts
    /\ TopTags \in Counts
    /\ \A t \in Tags : RelatedTags(t) \in Counts
<1>1. NoCounts \in Counts
  <2>1. NoCounts \in [{} -> 0 .. Cardinality(Posts \X Tags)] BY DEF NoCounts
  <2>2. {} \in SUBSET Tags OBVIOUS
  <2>3. QED BY <2>1, <2>2 DEF Counts
<1>2. TopTags \in Counts
  <2> DEFINE count == [u \in Tags |-> Cardinality({n \in Posts : /\ u \in posts[n].tags
                                                             /\ posts[n].recent /\ MayRecommend(n)})]
  <2>1. \A u \in Tags : {n \in Posts : u \in posts[n].tags /\ posts[n].recent /\ MayRecommend(n)} \in SUBSET Posts
    OBVIOUS
  <2>2. count \in [Tags -> 0 .. Cardinality(Posts \X Tags)] BY <2>1, PostsAreCounted
  <2>3. TopTags = MostUsed(count, ChipLimit) BY DEF TopTags
  <2>4. Tags \in SUBSET Tags OBVIOUS
  <2> HIDE DEF count
  <2>5. QED BY <2>2, <2>3, <2>4, MostUsedType
<1>3. ASSUME NEW t \in Tags PROVE RelatedTags(t) \in Counts
  <2> DEFINE count == [v \in Tags \ Variants[t] |->
                          Cardinality({r \in Posts \X Variants[t] :
                                          {r[2], v} \subseteq posts[r[1]].tags /\ Readable(r[1])})]
  <2>1. Variants[t] \subseteq Tags BY ReadingAssumption
  <2>2. \A v : {r \in Posts \X Variants[t] : {r[2], v} \subseteq posts[r[1]].tags /\ Readable(r[1])}
                  \in SUBSET (Posts \X Tags)
    BY <2>1
  <2>3. count \in [Tags \ Variants[t] -> 0 .. Cardinality(Posts \X Tags)] BY <2>2, RowsAreFinite
  <2>4. RelatedTags(t) = MostUsed(count, CloudLimit) BY DEF RelatedTags
  <2>5. Tags \ Variants[t] \in SUBSET Tags OBVIOUS
  <2> HIDE DEF count
  <2>6. QED BY <2>3, <2>4, <2>5, MostUsedType
<1>4. QED BY <1>1, <1>2, <1>3

LEMMA UnusedIsEntry == Unused \in Entry /\ ~Unused.fresh
BY CountsAreCounts DEF Unused, Entry

\* A write leaves posts that are posts.
LEMMA RewrittenType ==
    ASSUME TagCacheTypeOK, NEW n \in Posts, NEW p \in Rewritten(n)
    PROVE  p \in Post
<1>1. posts[n] \in Post BY DEF TagCacheTypeOK
<1>2. CASE p \in PublishPost(n) BY <1>2 DEF PublishPost
<1>3. CASE p \in ManagePost(n) BY <1>1, <1>3 DEF ManagePost, Post
<1>4. CASE p \in ModeratePost(n) BY <1>1, <1>4 DEF ModeratePost, Post
<1>5. CASE p \in DeletePost(n) BY <1>1, <1>5 DEF DeletePost, Post
<1>6. QED BY <1>2, <1>3, <1>4, <1>5 DEF Rewritten

\* After a change of what is cached no queried refill of it counts as current.
LEMMA OvertakenType ==
    ASSUME TagCacheTypeOK, NEW caches
    PROVE  /\ Overtaken(caches) \in [TagRequests -> Refill \cup {Chips}]
           /\ \A q \in TagRequests :
                 LET r == Overtaken(caches)[q] IN
                 /\ r # Chips /\ r.queried /\ ~r.late =>
                       r.of \notin caches /\ r = refills[q]
<1>1. ASSUME NEW q \in TagRequests
      PROVE  /\ Overtaken(caches)[q] \in Refill \cup {Chips}
             /\ LET r == Overtaken(caches)[q] IN
                r # Chips /\ r.queried /\ ~r.late => r.of \notin caches /\ r = refills[q]
  <2>1. refills[q] \in Refill \cup {Chips} BY DEF TagCacheTypeOK
  <2>2. CASE refills[q] # Chips /\ refills[q].queried /\ refills[q].of \in caches
    BY <2>1, <2>2 DEF Overtaken, Refill
  <2>3. CASE ~(refills[q] # Chips /\ refills[q].queried /\ refills[q].of \in caches)
    BY <2>1, <2>3 DEF Overtaken
  <2>4. QED BY <2>2, <2>3
<1>2. QED BY <1>1 DEF Overtaken

\* After a write none counts as current.
LEMMA AllOvertaken ==
    ASSUME TagCacheTypeOK
    PROVE  /\ Overtaken(Tags \cup {Chips}) \in [TagRequests -> Refill \cup {Chips}]
           /\ \A q \in TagRequests : LET r == Overtaken(Tags \cup {Chips})[q] IN
                 r # Chips /\ r.queried => r.late
<1>1. \A q \in TagRequests : refills[q] # Chips => refills[q].of \in Tags \cup {Chips}
  BY DEF TagCacheTypeOK, Refill
<1>2. QED BY <1>1, OvertakenType

LEMMA TagCacheInitially == TagCacheInit => TagCacheInv
<1> SUFFICES ASSUME TagCacheInit PROVE TagCacheInv OBVIOUS
<1> USE DEF TagCacheInit
<1>1. posts \in [Posts -> Post] BY ReadingAssumption DEF Post
<1>2. DOMAIN clouds = {} BY DEF NoClouds
<1>3. IsFiniteSet(DOMAIN clouds) /\ Cardinality(DOMAIN clouds) = 0 BY <1>2, FS_EmptySet
<1>4. chips \in Entry /\ ~chips.fresh BY UnusedIsEntry
<1>5. TagCacheTypeOK BY <1>1, <1>2, <1>3, <1>4, TagCacheAssumption DEF TagCacheTypeOK
<1>6. RefillsAreCurrent BY DEF RefillsAreCurrent
<1>7. StaleOnlyByOverlap BY <1>2, <1>4 DEF StaleOnlyByOverlap
<1>8. QED BY <1>3, <1>5, <1>6, <1>7 DEF TagCacheInv

\* What the cache still holds stays true while no post changes and no handler
\* has a cache less to expire.
LEMMA StaleStays ==
    ASSUME StaleOnlyByOverlap, UNCHANGED <<posts, expiring>>,
           chips' = chips \/ ~chips'.fresh,
           DOMAIN clouds' \subseteq DOMAIN clouds,
           \A t \in DOMAIN clouds' : clouds'[t] = clouds[t] \/ ~clouds'[t].fresh
    PROVE  StaleOnlyByOverlap'
<1>1. TopTags' = TopTags BY DEF TopTags, MayRecommend, Readable
<1>2. \A t : RelatedTags(t)' = RelatedTags(t) BY DEF RelatedTags, Readable
<1>3. QED BY <1>1, <1>2 DEF StaleOnlyByOverlap

\* Making room leaves entries that were there, and room for one more.
LEMMA RoomLeavesRoom ==
    ASSUME TagCacheTypeOK, IsFiniteSet(DOMAIN clouds), NEW t, NEW S \in Room(t)
    PROVE  /\ S \subseteq DOMAIN clouds /\ IsFiniteSet(S)
           /\ IsFiniteSet(S \cup {t}) /\ Cardinality(S \cup {t}) <= CloudMax
<1> DEFINE entries == DOMAIN clouds
           live == {u \in entries : clouds[u].fresh}
<1>1. /\ IsFiniteSet(live) /\ Cardinality(live) <= Cardinality(entries)
      /\ Cardinality(entries) \in Nat /\ Cardinality(entries) <= CloudMax
  BY FS_Subset, FS_CardinalityType DEF TagCacheTypeOK
<1>2. CloudMax \in Nat \ {0} BY TagCacheAssumption
<1>3. S \subseteq entries BY DEF Room
<1>4. IsFiniteSet(S) /\ Cardinality(S) \in Nat BY <1>3, FS_Subset, FS_CardinalityType
<1>5. IsFiniteSet(S \cup {t}) /\ Cardinality(S \cup {t}) = IF t \in S THEN Cardinality(S) ELSE Cardinality(S) + 1
  BY <1>4, FS_AddElement
<1>6. (t \in S /\ S = entries) \/ Cardinality(S) < CloudMax
  <2>1. CASE t \in entries \/ Cardinality(entries) < CloudMax
    BY <2>1 DEF Room
  <2>2. CASE ~(t \in entries \/ Cardinality(entries) < CloudMax) /\ Cardinality(live) < CloudMax
    BY <2>2 DEF Room
  <2>3. CASE ~(t \in entries \/ Cardinality(entries) < CloudMax) /\ ~(Cardinality(live) < CloudMax)
    <3>1. Room(t) = {T \in SUBSET live : Cardinality(T) = CloudMax - 1} BY <2>3 DEF Room
    <3>2. QED BY <1>2, <3>1
  <2>4. QED BY <2>1, <2>2, <2>3
<1>7. Cardinality(S \cup {t}) <= CloudMax BY <1>1, <1>2, <1>4, <1>5, <1>6
<1>8. QED BY <1>3, <1>4, <1>5, <1>7

LEMMA TagCacheStep == TagCacheInv /\ [TagCacheNext]_tagVars => TagCacheInv'
<1> SUFFICES ASSUME TagCacheInv, [TagCacheNext]_tagVars PROVE TagCacheInv' OBVIOUS
<1> USE DEF TagCacheInv
<1>a. /\ posts \in [Posts -> Post] /\ chips \in Entry
      /\ DOMAIN clouds \subseteq Tags /\ \A t \in DOMAIN clouds : clouds[t] \in Entry
      /\ refills \in [TagRequests -> Refill \cup {Chips}]
      /\ expiring \in [TagRequests -> SUBSET {"chips", "clouds"}]
  BY DEF TagCacheTypeOK
<1>b. UNCHANGED posts => TopTags' = TopTags /\ \A t : RelatedTags(t)' = RelatedTags(t)
  BY DEF TopTags, RelatedTags, MayRecommend, Readable
<1>1. ASSUME NEW q \in TagRequests, NEW n \in Posts, Write(q, n) PROVE TagCacheInv'
  <2> USE <1>1 DEF Write
  <2>1. PICK p \in Rewritten(n) : posts' = [posts EXCEPT ![n] = p] OBVIOUS
  <2>2. posts' \in [Posts -> Post] BY <1>a, <2>1, RewrittenType
  <2>3. expiring'[q] = {"chips", "clouds"} /\ expiring' \in [TagRequests -> SUBSET {"chips", "clouds"}]
    BY <1>a DEF ToExpire
  <2>4. writes' \in 0 .. MaxWrites BY TagCacheAssumption DEF TagCacheTypeOK
  <2>5. TagCacheTypeOK' BY <2>2, <2>3, <2>4, AllOvertaken DEF TagCacheTypeOK
  <2>6. RefillsAreCurrent' BY AllOvertaken DEF RefillsAreCurrent
  <2>7. StaleOnlyByOverlap' BY <2>3 DEF StaleOnlyByOverlap
  <2>8. QED BY <2>5, <2>6, <2>7
<1>2. ASSUME NEW n \in Posts, LoseCommit(n) PROVE TagCacheInv'
  <2> USE <1>2 DEF LoseCommit
  <2>1. PICK p \in Rewritten(n) : posts' = [posts EXCEPT ![n] = p] OBVIOUS
  <2>2. posts' \in [Posts -> Post] BY <1>a, <2>1, RewrittenType
  <2>3. chips' \in Entry /\ (chips'.fresh => chips'.late) BY <1>a DEF Entry
  <2>4. /\ DOMAIN clouds' = DOMAIN clouds
        /\ \A t \in DOMAIN clouds' : clouds'[t] \in Entry /\ clouds'[t].late
    BY <1>a DEF Entry
  <2>5. writes' \in 0 .. MaxWrites BY TagCacheAssumption DEF TagCacheTypeOK
  <2>6. TagCacheTypeOK' BY <2>2, <2>3, <2>4, <2>5, AllOvertaken DEF TagCacheTypeOK
  <2>7. RefillsAreCurrent' BY AllOvertaken DEF RefillsAreCurrent
  <2>8. StaleOnlyByOverlap' BY <2>3, <2>4 DEF StaleOnlyByOverlap
  <2>9. QED BY <2>4, <2>6, <2>7, <2>8
<1>0. ASSUME NEW n \in Posts, PassMonth(n) PROVE TagCacheInv'
  <2> USE <1>0 DEF PassMonth
  <2>1. posts' \in [Posts -> Post]
    <3>1. posts[n] \in Post BY <1>a
    <3>2. [posts[n] EXCEPT !.recent = FALSE] \in Post BY <3>1 DEF Post
    <3>3. QED BY <1>a, <3>2
  <2>2. chips' \in Entry /\ (chips'.fresh => chips'.late) BY <1>a DEF Entry
  <2>3. writes' \in 0 .. MaxWrites BY TagCacheAssumption DEF TagCacheTypeOK
  <2>4. TagCacheTypeOK' BY <2>1, <2>2, <2>3, OvertakenType DEF TagCacheTypeOK
  <2>5. \A m \in Posts : Readable(m)' = Readable(m) /\ posts'[m].tags = posts[m].tags
    <3>1. \A m \in Posts : posts[m] \in Post BY <1>a
    <3>2. \A m \in Posts : posts'[m] = IF m = n THEN [posts[n] EXCEPT !.recent = FALSE] ELSE posts[m] BY <1>a
    <3>3. QED BY <3>1, <3>2 DEF Readable, Post
  <2>6. \A t \in Tags : RelatedTags(t)' = RelatedTags(t)
    <3>1. TAKE t \in Tags
    <3>2. \A v : {r \in Posts \X Variants[t] : {r[2], v} \subseteq posts[r[1]].tags /\ Readable(r[1])}'
                  = {r \in Posts \X Variants[t] : {r[2], v} \subseteq posts[r[1]].tags /\ Readable(r[1])}
      BY <2>5
    <3>3. QED BY <3>2 DEF RelatedTags
  <2>7. RefillsAreCurrent'
    <3>1. ASSUME NEW q \in TagRequests, refills'[q] # Chips, refills'[q].queried, ~refills'[q].late
          PROVE  refills'[q].of # Chips /\ refills'[q].of \in Tags /\ refills'[q].data = RelatedTags(refills'[q].of)
      <4>1. refills'[q].of # Chips /\ refills'[q] = refills[q] BY <3>1, OvertakenType
      <4>2. refills[q].of \in Tags BY <1>a, <3>1, <4>1 DEF Refill
      <4>3. refills[q].data = RelatedTags(refills[q].of) BY <3>1, <4>1 DEF RefillsAreCurrent
      <4>4. QED BY <4>1, <4>2, <4>3
    <3>2. QED BY <2>6, <3>1 DEF RefillsAreCurrent
  <2>8. StaleOnlyByOverlap' BY <1>a, <2>2, <2>6 DEF StaleOnlyByOverlap
  <2>9. QED BY <2>4, <2>7, <2>8
<1>3. ASSUME NEW q \in TagRequests, ExpireChips(q) PROVE TagCacheInv'
  <2> USE <1>3 DEF ExpireChips
  <2>1. chips' \in Entry /\ ~chips'.fresh BY UnusedIsEntry
  <2>2. expiring' \in [TagRequests -> SUBSET {"chips", "clouds"}] BY <1>a
  <2>3. \A r \in TagRequests : "clouds" \in expiring[r] => "clouds" \in expiring'[r] BY <1>a
  <2>4. TagCacheTypeOK' BY <2>1, <2>2 DEF TagCacheTypeOK
  <2>5. RefillsAreCurrent' BY <1>b DEF RefillsAreCurrent
  <2>6. StaleOnlyByOverlap' BY <1>b, <2>1, <2>3 DEF StaleOnlyByOverlap
  <2>7. QED BY <2>4, <2>5, <2>6
<1>4. ASSUME NEW q \in TagRequests, ExpireClouds(q) PROVE TagCacheInv'
  <2> USE <1>4 DEF ExpireClouds
  <2>1. DOMAIN clouds' = {} BY DEF NoClouds
  <2>2. IsFiniteSet(DOMAIN clouds') /\ Cardinality(DOMAIN clouds') = 0 BY <2>1, FS_EmptySet
  <2>3. expiring' \in [TagRequests -> SUBSET {"chips", "clouds"}] BY <1>a
  <2>4. \A r \in TagRequests : "chips" \in expiring[r] => "chips" \in expiring'[r] BY <1>a
  <2>5. TagCacheTypeOK' BY <2>1, <2>2, <2>3, TagCacheAssumption DEF TagCacheTypeOK
  <2>6. RefillsAreCurrent' BY <1>b DEF RefillsAreCurrent
  <2>7. StaleOnlyByOverlap' BY <1>b, <2>1, <2>4 DEF StaleOnlyByOverlap
  <2>8. QED BY <2>2, <2>5, <2>6, <2>7
<1>5. ASSUME NEW q \in TagRequests, Query(q) PROVE TagCacheInv'
  <2> USE <1>5 DEF Query
  <2> DEFINE now == IF refills[q].of = Chips THEN TopTags ELSE RelatedTags(refills[q].of)
             asked == [refills[q] EXCEPT !.queried = TRUE, !.data = now]
  <2>1. refills[q] \in Refill BY <1>a
  <2>2. refills[q].of \in Tags \cup {Chips} BY <2>1 DEF Refill
  <2>3. now \in Counts BY <2>2, CountsAreCounts
  <2>4. refills' = [refills EXCEPT ![q] = asked] OBVIOUS
  <2> HIDE DEF now
  <2>5. asked \in Refill /\ asked.of = refills[q].of /\ asked.data = now BY <2>1, <2>3 DEF Refill
  <2> HIDE DEF asked
  <2>6. refills' \in [TagRequests -> Refill \cup {Chips}] BY <1>a, <2>4, <2>5
  <2>7. TagCacheTypeOK' BY <2>6 DEF TagCacheTypeOK
  <2>8. ASSUME NEW r \in TagRequests
        PROVE  (refills[r] # Chips /\ refills[r].queried /\ ~refills[r].late =>
                  refills[r].data = IF refills[r].of = Chips THEN TopTags ELSE RelatedTags(refills[r].of))'
    <3>1. CASE r = q BY <1>a, <1>b, <2>4, <2>5, <3>1 DEF now
    <3>2. CASE r # q BY <1>a, <1>b, <2>4, <3>2 DEF RefillsAreCurrent
    <3>3. QED BY <3>1, <3>2
  <2>9. RefillsAreCurrent' BY <2>8 DEF RefillsAreCurrent
  <2>10. StaleOnlyByOverlap' BY StaleStays
  <2>11. QED BY <2>7, <2>9, <2>10
<1>6. ASSUME NEW q \in TagRequests, StoreRefill(q) PROVE TagCacheInv'
  <2> USE <1>6 DEF StoreRefill
  <2> DEFINE r == refills[q]
             entry == [data |-> r.data, fresh |-> TRUE, late |-> r.late]
  <2>1. r \in Refill BY <1>a
  <2>2. /\ entry \in Entry /\ entry.fresh /\ entry.late = r.late /\ entry.data = r.data
        /\ r.of \in Tags \cup {Chips}
    BY <2>1 DEF Refill, Entry
  <2>3. ~r.late => r.data = IF r.of = Chips THEN TopTags ELSE RelatedTags(r.of)
    BY DEF RefillsAreCurrent
  <2>4. refills' \in [TagRequests -> Refill \cup {Chips}] BY <1>a
  <2>5. RefillsAreCurrent' BY <1>a, <1>b DEF RefillsAreCurrent
  <2>6. CASE r.of = Chips
    <3>1. chips' = entry /\ clouds' = clouds BY <2>6
    <3> HIDE DEF entry, r
    <3>2. TagCacheTypeOK' BY <2>2, <2>4, <3>1 DEF TagCacheTypeOK
    <3>3. StaleOnlyByOverlap' BY <1>b, <2>2, <2>3, <2>6, <3>1 DEF StaleOnlyByOverlap
    <3>4. QED BY <2>5, <3>1, <3>2, <3>3
  <2>7. CASE r.of # Chips
    <3>1. PICK S \in Room(r.of) :
             clouds' = [u \in S \cup {r.of} |-> IF u = r.of THEN entry ELSE clouds[u]]
      BY <2>7
    <3>2. chips' = chips BY <2>7
    <3>3. S \subseteq DOMAIN clouds /\ IsFiniteSet(S) /\ Cardinality(S \cup {r.of}) <= CloudMax
          /\ IsFiniteSet(S \cup {r.of})
      BY <3>1, RoomLeavesRoom
    <3>4. DOMAIN clouds' = S \cup {r.of} BY <3>1
    <3> HIDE DEF entry, r
    <3>5. \A t \in DOMAIN clouds' : clouds'[t] = IF t = r.of THEN entry ELSE clouds[t] BY <3>1
    <3>6. TagCacheTypeOK'
      BY <1>a, <2>2, <2>4, <2>7, <3>2, <3>3, <3>4, <3>5 DEF TagCacheTypeOK
    <3>7. StaleOnlyByOverlap'
      BY <1>b, <2>2, <2>3, <2>7, <3>2, <3>3, <3>4, <3>5 DEF StaleOnlyByOverlap
    <3>8. QED BY <2>5, <3>3, <3>4, <3>6, <3>7
  <2>8. QED BY <2>6, <2>7
<1>7. ASSUME NEW q \in TagRequests, FailRefill(q) PROVE TagCacheInv'
  <2> USE <1>7 DEF FailRefill
  <2>1. TagCacheTypeOK' BY <1>a DEF TagCacheTypeOK
  <2>2. RefillsAreCurrent' BY <1>a, <1>b DEF RefillsAreCurrent
  <2>3. StaleOnlyByOverlap' BY StaleStays
  <2>4. QED BY <2>1, <2>2, <2>3
<1>8. ASSUME NEW q \in TagRequests, NEW of \in Tags \cup {Chips}, Look(q, of) PROVE TagCacheInv'
  <2> USE <1>8 DEF Look
  <2>1. [of |-> of, queried |-> FALSE, data |-> NoCounts, late |-> FALSE] \in Refill
    BY CountsAreCounts DEF Refill
  <2>2. TagCacheTypeOK' BY <1>a, <2>1 DEF TagCacheTypeOK
  <2>3. RefillsAreCurrent' BY <1>a, <1>b DEF RefillsAreCurrent
  <2>4. StaleOnlyByOverlap' BY StaleStays
  <2>5. QED BY <2>2, <2>3, <2>4
<1>9. ASSUME NEW of \in Tags \cup {Chips}, Age(of) PROVE TagCacheInv'
  <2> USE <1>9 DEF Age
  <2>1. /\ chips' \in Entry /\ (chips' = chips \/ ~chips'.fresh)
        /\ DOMAIN clouds' = DOMAIN clouds
        /\ \A t \in DOMAIN clouds' : clouds'[t] \in Entry /\ (clouds'[t] = clouds[t] \/ ~clouds'[t].fresh)
    BY <1>a, UnusedIsEntry
  <2>2. TagCacheTypeOK' BY <2>1 DEF TagCacheTypeOK
  <2>3. RefillsAreCurrent' BY <1>b DEF RefillsAreCurrent
  <2>4. StaleOnlyByOverlap' BY <2>1, StaleStays
  <2>5. QED BY <2>1, <2>2, <2>3, <2>4
<1>10. CASE Restart
  <2> USE <1>10 DEF Restart
  <2>1. DOMAIN clouds' = {} BY DEF NoClouds
  <2>2. IsFiniteSet(DOMAIN clouds') /\ Cardinality(DOMAIN clouds') = 0 BY <2>1, FS_EmptySet
  <2>3. chips' \in Entry /\ ~chips'.fresh BY UnusedIsEntry
  <2>4. TagCacheTypeOK' BY <2>1, <2>2, <2>3, TagCacheAssumption DEF TagCacheTypeOK
  <2>5. RefillsAreCurrent' BY DEF RefillsAreCurrent
  <2>6. StaleOnlyByOverlap' BY <2>1, <2>3 DEF StaleOnlyByOverlap
  <2>7. QED BY <2>2, <2>4, <2>5, <2>6
<1>11. CASE UNCHANGED tagVars
  <2> USE <1>11 DEF tagVars
  <2>1. TagCacheTypeOK' BY DEF TagCacheTypeOK
  <2>2. RefillsAreCurrent' BY <1>b DEF RefillsAreCurrent
  <2>3. StaleOnlyByOverlap' BY StaleStays
  <2>4. QED BY <2>1, <2>2, <2>3
<1>12. QED
  BY <1>0, <1>1, <1>2, <1>3, <1>4, <1>5, <1>6, <1>7, <1>8, <1>9, <1>10, <1>11 DEF TagCacheNext

\* The caches hold at most what they may: never more than CloudMax tags.
THEOREM TagCacheTypeCorrect == TagCacheSpec => []TagCacheTypeOK
<1>1. TagCacheInv => TagCacheTypeOK BY DEF TagCacheInv
<1>2. QED BY <1>1, TagCacheInitially, TagCacheStep, PTL DEF TagCacheSpec

\* A fresh entry tells what the table holds, but for the overlaps it names.
THEOREM CachesAreStaleOnlyByOverlap == TagCacheSpec => []StaleOnlyByOverlap
<1>1. TagCacheInv => StaleOnlyByOverlap BY DEF TagCacheInv
<1>2. QED BY <1>1, TagCacheInitially, TagCacheStep, PTL DEF TagCacheSpec

\* Lists lead only to pages that open, whatever the handlers did to the posts.
THEOREM ListsAlwaysLeadToOpenPages == TagCacheSpec => []ListedOpens
BY ListsLeadToOpenPages, PTL

\* Counts are the lengths of the lists behind them.
THEOREM CountsAlwaysMatchLists == TagCacheSpec => []CountsMatchLists
BY ListsHoldTheCounted, PTL

----------------------------------------------------------------------------
(* Embeds *)

\* A nonempty set of naturals has a least element.
LEMMA LeastNatural ==
    ASSUME NEW S \in SUBSET Nat, S # {}
    PROVE  \E m \in S : \A k \in S : m <= k
<1> DEFINE T == {0 .. n : n \in S}
           O == StrictSubsetOrdering(Nat)
<1>1. T \subseteq FiniteSubsetsOf(Nat)
  <2>1. \A n \in Nat : IsFiniteSet(0 .. n) BY FS_Interval
  <2>2. \A n \in Nat : 0 .. n \in SUBSET Nat OBVIOUS
  <2>3. QED BY <2>1, <2>2 DEF FiniteSubsetsOf
<1>2. T # {} OBVIOUS
<1>3. IsWellFoundedOn(O, FiniteSubsetsOf(Nat)) BY FS_StrictSubsetOrderingWellFounded
<1> HIDE DEF T, O
<1>4. PICK I \in T : \A J \in T : ~ (<<J, I>> \in O) BY <1>1, <1>2, <1>3, WFMin
<1>5. PICK m \in S : I = 0 .. m BY DEF T
<1>6. ASSUME NEW k \in S, k < m PROVE FALSE
  <2>1. 0 .. k \in T BY DEF T
  <2>2. 0 .. k \subseteq I /\ 0 .. k # I
    <3>1. m \in 0 .. m /\ m \notin 0 .. k BY <1>6
    <3>2. QED BY <1>5, <1>6, <3>1
  <2>3. <<0 .. k, I>> \in O BY <1>5, <2>2 DEF O, StrictSubsetOrdering
  <2>4. QED BY <1>4, <2>1, <2>3
<1>7. QED BY <1>6

\* Induction, for a set of naturals.
LEMMA NaturalsInSet ==
    ASSUME NEW S, 0 \in S, \A n \in Nat \cap S : n + 1 \in S
    PROVE  Nat \subseteq S
<1> SUFFICES ASSUME Nat \ S # {} PROVE FALSE OBVIOUS
<1>1. PICK m \in Nat \ S : \A k \in Nat \ S : m <= k BY LeastNatural
<1>2. m # 0 OBVIOUS
<1>3. m - 1 \in Nat /\ m - 1 \in S BY <1>1, <1>2
<1>4. QED BY <1>1, <1>3

----------------------------------------------------------------------------
(* Embeds *)

\* f places each note that was asked for at the query that asked for it: the
\* embeds of the page at the first, and those of a note one query after it.
Placed(f) ==
    /\ f \in [queried -> 1 .. level]
    /\ \A m \in root \cap queried : f[m] = 1
    /\ \A n \in DOMAIN found : \A m \in found[n] :
          (m \in queried /\ f[m] <= f[n] + 1) \/ (f[n] = level /\ m \in frontier)

EmbedsInv ==
    /\ EmbedsTypeOK
    /\ level = 0 => frontier = root /\ queried = {}
    /\ level > 0 => root \subseteq queried
    /\ ~appeared => visible \cap queried \subseteq DOMAIN found /\ \E f : Placed(f)

LEMMA EmbedsInitially == EmbedsInit => EmbedsInv
<1> SUFFICES ASSUME EmbedsInit PROVE EmbedsInv OBVIOUS
<1> USE DEF EmbedsInit
<1>1. DOMAIN found = {} OBVIOUS
<1>2. EmbedsTypeOK
  <2>1. root \subseteq Embeddable BY EmbedsAssumption
  <2>2. 0 \in 0 .. EmbedDepth /\ 0 \in 0 .. MaxRewrites BY EmbedsAssumption
  <2>3. QED BY <1>1, <2>1, <2>2 DEF EmbedsTypeOK
<1> DEFINE f == [n \in {} |-> 1]
<1>3. f \in [queried -> 1 .. level] OBVIOUS
<1> HIDE DEF f
<1>4. Placed(f) BY <1>1, <1>3 DEF Placed
<1>5. QED BY <1>1, <1>2, <1>4 DEF EmbedsInv

\* A query places what it asks for behind the notes found before.
LEMMA FetchStep == EmbedsInv /\ FetchLevel => EmbedsInv'
<1> SUFFICES ASSUME EmbedsInv, FetchLevel PROVE EmbedsInv' OBVIOUS
<1> USE DEF EmbedsInv, FetchLevel
<1> DEFINE fetched == Queued \cap visible
<1>1. /\ embeds \in [Embeddable -> EmbedBodies] /\ root \in EmbedBodies /\ frontier \subseteq Embeddable
      /\ DOMAIN found \subseteq queried /\ queried \subseteq Embeddable
      /\ level \in 0 .. EmbedDepth /\ level < EmbedDepth
      /\ \A S \in EmbedBodies : S \subseteq Embeddable
  BY EmbedsAssumption DEF EmbedsTypeOK, Fetching
<1>2. /\ DOMAIN found' = DOMAIN found \cup fetched
      /\ \A n \in DOMAIN found' : found'[n] = IF n \in fetched THEN embeds[n] ELSE found[n]
  OBVIOUS
<1>3. frontier' = UNION {embeds[n] : n \in fetched} OBVIOUS
<1>4. /\ queried' = queried \cup Queued /\ level' = level + 1
      /\ UNCHANGED <<root, embeds, visible, rewrites, appeared>>
  OBVIOUS
<1>5. Queued \subseteq frontier /\ Queued \cap DOMAIN found = {} BY DEF Queued
<1>6. fetched \subseteq Queued /\ Queued \cap visible \subseteq fetched OBVIOUS
<1> HIDE DEF fetched, FetchLevel
<1>7. \A n \in fetched : n \in Embeddable /\ embeds[n] \subseteq Embeddable /\ embeds[n] \in EmbedBodies
  BY <1>1, <1>5, <1>6
<1>8. frontier' \subseteq Embeddable BY <1>3, <1>7
<1>9. level' \in 0 .. EmbedDepth BY <1>1, <1>4, EmbedsAssumption
<1>10. EmbedsTypeOK'
  BY <1>1, <1>2, <1>4, <1>5, <1>6, <1>7, <1>8, <1>9 DEF EmbedsTypeOK
<1>11. root' \subseteq queried'
  <2>1. CASE level = 0 BY <1>4, <2>1, <1>1 DEF Queued
  <2>2. CASE level > 0 BY <1>4, <2>2
  <2>3. QED BY <1>1, <2>1, <2>2
<1>12. ASSUME ~appeared' PROVE visible' \cap queried' \subseteq DOMAIN found' /\ \E f : Placed(f)'
  <2>1. ~appeared /\ visible \cap queried \subseteq DOMAIN found BY <1>4, <1>12
  <2>2. PICK f : Placed(f) BY <2>1
  <2>3. visible' \cap queried' \subseteq DOMAIN found' BY <1>2, <1>4, <1>6, <2>1
  <2>0. PICK g : g = [n \in queried' |-> IF n \in queried THEN f[n] ELSE level + 1] OBVIOUS
  <2>4. f \in [queried -> 1 .. level] BY <2>2 DEF Placed
  <2>5. \A n \in queried' : g[n] = IF n \in queried THEN f[n] ELSE level + 1 BY <2>0
  <2>6. g \in [queried' -> 1 .. level'] BY <1>1, <1>4, <2>0, <2>4
  <2>7. \A m \in root' \cap queried' : g[m] = 1
    <3>1. CASE level = 0 BY <1>1, <1>4, <2>5, <3>1
    <3>2. CASE level > 0 BY <1>4, <2>2, <2>5, <3>2 DEF Placed
    <3>3. QED BY <1>1, <3>1, <3>2
  <2>8. ASSUME NEW n \in DOMAIN found', NEW m \in found'[n]
        PROVE  (m \in queried' /\ g[m] <= g[n] + 1) \/ (g[n] = level' /\ m \in frontier')
    <3>1. CASE n \in fetched
      <4>1. n \notin queried BY <1>5, <1>6, <2>1, <3>1 DEF fetched
      <4>2. g[n] = level' BY <1>2, <1>4, <1>6, <2>5, <3>1, <4>1
      <4>3. m \in frontier' BY <1>2, <1>3, <2>8, <3>1
      <4>4. QED BY <4>2, <4>3
    <3>2. CASE n \notin fetched
      <4>1. n \in DOMAIN found /\ m \in found[n] BY <1>2, <2>8, <3>2
      <4>2. n \in queried /\ g[n] = f[n] /\ f[n] \in 1 .. level BY <1>1, <1>4, <2>4, <2>5, <4>1
      <4>3. CASE m \in queried /\ f[m] <= f[n] + 1 BY <1>4, <2>5, <4>2, <4>3
      <4>4. CASE f[n] = level /\ m \in frontier
        <5>1. m \in queried' BY <1>1, <1>4, <4>4 DEF Queued
        <5>2. g[m] <= level + 1 BY <1>1, <1>4, <2>6, <5>1
        <5>3. QED BY <4>2, <4>4, <5>1, <5>2
      <4>5. QED BY <2>2, <4>1, <4>3, <4>4 DEF Placed
    <3>3. QED BY <3>1, <3>2
  <2>9. Placed(g)' BY <2>6, <2>7, <2>8 DEF Placed
  <2>10. QED BY <2>3, <2>9
<1>13. level' > 0 BY <1>1, <1>4
<1>14. QED BY <1>10, <1>11, <1>12, <1>13

LEMMA EmbedsStep == EmbedsInv /\ [EmbedsNext]_embedsVars => EmbedsInv'
<1> SUFFICES ASSUME EmbedsInv, [EmbedsNext]_embedsVars PROVE EmbedsInv' OBVIOUS
<1> USE DEF EmbedsInv
<1>1. CASE FetchLevel BY <1>1, FetchStep
<1>2. ASSUME UNCHANGED <<root, found, frontier, queried, level>>, EmbedsTypeOK',
             appeared' = appeared, visible' \subseteq visible
      PROVE  EmbedsInv'
  <2>1. \A f : Placed(f)' = Placed(f) BY <1>2 DEF Placed
  <2>2. QED BY <1>2, <2>1
<1>3. ASSUME NEW n \in Embeddable, NEW body \in EmbedBodies, RewriteEmbed(n, body) PROVE EmbedsInv'
  <2>1. EmbedsTypeOK' BY <1>3, EmbedsAssumption DEF RewriteEmbed, EmbedsTypeOK
  <2>2. QED BY <1>2, <1>3, <2>1 DEF RewriteEmbed
<1>4. ASSUME NEW n \in Embeddable, ToggleEmbed(n) PROVE EmbedsInv'
  <2>1. EmbedsTypeOK' BY <1>4, EmbedsAssumption DEF ToggleEmbed, EmbedsTypeOK
  <2>2. CASE n \in visible BY <1>2, <1>4, <2>1, <2>2 DEF ToggleEmbed, EmbedsTypeOK
  <2>3. CASE n \notin visible BY <1>4, <2>1, <2>3 DEF ToggleEmbed
  <2>4. QED BY <2>2, <2>3
<1>5. CASE UNCHANGED embedsVars
  <2>1. EmbedsTypeOK' BY <1>5 DEF embedsVars, EmbedsTypeOK
  <2>2. QED BY <1>2, <1>5, <2>1 DEF embedsVars
<1>6. QED BY <1>1, <1>3, <1>4, <1>5 DEF EmbedsNext

\* A rendering that stops at the depth of the last query asks for nothing else.
LEMMA PlacedIsComplete == EmbedsInv => EmbedsComplete
<1> SUFFICES ASSUME EmbedsInv, ~Fetching, ~appeared,
                    NEW d \in 0 .. EmbedDepth - 1, NEW c \in Nestings(d)
             PROVE  c[d] \in queried
  BY DEF EmbedsComplete, Asked
<1>1. PICK f : Placed(f) BY DEF EmbedsInv
<1>2. /\ f \in [queried -> 1 .. level] /\ DOMAIN found \subseteq queried
      /\ level \in 0 .. EmbedDepth /\ EmbedDepth \in Nat
  BY <1>1, EmbedsAssumption DEF Placed, EmbedsInv, EmbedsTypeOK
<1>3. c[0] \in root /\ \A i \in 1 .. d : c[i - 1] \in DOMAIN found /\ c[i] \in found[c[i - 1]]
  BY DEF Nestings
<1>4. CASE Queued = {}
  <2>1. frontier \subseteq queried BY <1>2, <1>4 DEF Queued
  <2>2. root \subseteq queried BY <1>2, <2>1 DEF EmbedsInv
  <2>3. CASE d = 0 BY <1>3, <2>2, <2>3
  <2>4. CASE d > 0
    <3>1. c[d - 1] \in DOMAIN found /\ c[d] \in found[c[d - 1]] BY <1>3, <2>4
    <3>2. QED BY <1>1, <2>1, <3>1 DEF Placed
  <2>5. QED BY <2>3, <2>4
<1>5. CASE level = EmbedDepth
  <2> DEFINE Late == {i \in 0 .. d : ~(c[i] \in queried /\ f[c[i]] <= i + 1)}
  <2>1. SUFFICES ASSUME Late # {} PROVE FALSE OBVIOUS
  <2>2. PICK i \in Late : \A k \in Late : i <= k
    <3>1. Late \in SUBSET Nat OBVIOUS
    <3> HIDE DEF Late
    <3>2. QED BY <2>1, <3>1, LeastNatural
  <2>3. i \in 0 .. d /\ d < level BY <1>2, <1>5
  <2>4. CASE i = 0
    <3>1. root \subseteq queried BY <1>2, <2>3 DEF EmbedsInv
    <3>2. QED BY <1>1, <1>3, <2>4, <3>1 DEF Placed
  <2>5. CASE i > 0
    <3>1. i - 1 \in 0 .. d /\ i - 1 \notin Late BY <2>2, <2>3, <2>5
    <3>2. c[i - 1] \in queried /\ f[c[i - 1]] <= i BY <3>1
    <3>3. c[i - 1] \in DOMAIN found /\ c[i] \in found[c[i - 1]] BY <1>3, <2>3, <2>5
    <3>4. f[c[i - 1]] \in 1 .. level /\ f[c[i - 1]] # level BY <1>2, <2>3, <3>2
    <3>5. c[i] \in queried /\ f[c[i]] <= f[c[i - 1]] + 1 BY <1>1, <3>3, <3>4 DEF Placed
    <3>6. f[c[i]] <= i + 1 BY <1>2, <2>3, <3>2, <3>4, <3>5
    <3>7. QED BY <3>5, <3>6
  <2>6. QED BY <2>3, <2>4, <2>5
<1>6. QED BY <1>2, <1>4, <1>5 DEF Fetching

\* No more queries than maxEmbedDepth, and each note found was asked for.
THEOREM EmbedsTypeCorrect == EmbedsSpec => []EmbedsTypeOK
<1>1. EmbedsInv => EmbedsTypeOK BY DEF EmbedsInv
<1>2. QED BY <1>1, EmbedsInitially, EmbedsStep, PTL DEF EmbedsSpec

\* Every embed that the rendering shows was fetched before it starts.
THEOREM EmbedsAreComplete == EmbedsSpec => []EmbedsComplete
BY EmbedsInitially, EmbedsStep, PlacedIsComplete, PTL DEF EmbedsSpec

----------------------------------------------------------------------------
(* Paged lists *)

----------------------------------------------------------------------------
(* Lists loaded page by page *)

\* (time, id) is not below the cursor, which there is.
Reaches(time, n) == cursor # << >> /\ (time > cursor[1] \/ (time = cursor[1] /\ n >= cursor[2]))

TimesPast ==
    /\ \A n \in Entries : updated[n] <= clock
    /\ \A n \in Entries : edits[n] >= 0 => updated[n] <= edits[n] /\ edits[n] <= clock
    /\ \A s \in Pressable : since[s] <= clock
    /\ \A c \in Clicks : \A k \in clicks[c] : k.time <= clock

\* The notes on the pages loaded.
Seen == {n \in Entries : \E p \in DOMAIN shown : \E i \in DOMAIN shown[p] : shown[p][i] = n}

\* What was shown is above the cursor, and stays so if it is listed anew, at the
\* time of the clock.
SeenAreAbove ==
    \A n \in Seen \ late :
        /\ Reaches(clock, n)
        /\ TimeOf(n) >= 0 => Reaches(TimeOf(n), n)

OnOnePage ==
    \A p, q \in DOMAIN shown : \A i \in DOMAIN shown[p], j \in DOMAIN shown[q] :
        shown[p][i] = shown[q][j] =>
            \/ p = q /\ (i = j \/ list = "tag")
            \/ shown[p][i] \in late

\* What stood in the list all along was shown or is still to come.
SteadyAreShown ==
    \A n \in steady :
        /\ n \in Listed
        /\ (~listEnded /\ OlderThan(n, cursor)) \/ n \in Seen

PagedInv ==
    /\ PagedTypeOK
    /\ TimesPast
    /\ list # "tag" => \A n \in Entries : spelled[n] <= 1
    /\ SeenAreAbove
    /\ OnOnePage
    /\ SteadyAreShown

LEMMA PagedInitially == PagedInit => PagedInv
<1> SUFFICES ASSUME PagedInit PROVE PagedInv OBVIOUS
<1> USE DEF PagedInit
<1>1. DOMAIN shown = {} OBVIOUS
<1>2. Seen = {} BY <1>1 DEF Seen
<1>a. {0, 1} \subseteq Seconds /\ 0 \in 0 .. MaxChanges /\ clock \in Seconds
  BY PagedListsAssumption DEF Seconds
<1>b. updated \in [Entries -> Seconds] /\ since \in [Pressable -> {-1} \cup Seconds]
  <2>1. \A s \in Pressable : since[s] \in {-1} \cup Seconds BY <1>a
  <2>2. QED BY <1>a, <2>1
<1>c. spelled \in [Entries -> 0 .. Spellings] /\ (list # "tag" => \A n \in Entries : spelled[n] <= 1)
  <2>1. 1 \in 0 .. Spellings BY PagedListsAssumption
  <2>2. CASE list = "tag" BY <2>2
  <2>3. CASE list # "tag" BY <2>1, <2>3
  <2>4. QED BY <2>2, <2>3
<1>d. clicks \in [Clicks -> SUBSET Click] /\ \A c \in Clicks : \A k \in clicks[c] : k.time <= clock
  <2>1. clicks \in [Clicks -> {{}} \cup {{[about |-> n, time |-> 0, met |-> FALSE]} : n \in Entries}]
    BY DEF PagedInit
  <2>2. clock = 1 BY DEF PagedInit
  <2> HIDE DEF PagedInit
  <2>3. \A n \in Entries : [about |-> n, time |-> 0, met |-> FALSE] \in Click
    BY <1>a DEF Click, Pressable
  <2>4. ASSUME NEW c \in Clicks PROVE clicks[c] \subseteq Click /\ \A k \in clicks[c] : k.time <= clock
    <3>1. clicks[c] = {} \/ \E n \in Entries : clicks[c] = {[about |-> n, time |-> 0, met |-> FALSE]}
      BY <2>1
    <3>2. CASE clicks[c] = {} BY <3>2
    <3>3. ASSUME NEW n \in Entries, clicks[c] = {[about |-> n, time |-> 0, met |-> FALSE]}
          PROVE  clicks[c] \subseteq Click /\ \A k \in clicks[c] : k.time <= clock
      BY <2>2, <2>3, <3>3
    <3>4. QED BY <3>1, <3>2, <3>3
  <2>5. QED BY <2>1, <2>4
<1>e. PagedTypeOK
  <2>1. shown \in Seq(Seq(Entries)) /\ cursor \in {<< >>} \cup Seconds \X Entries OBVIOUS
  <2>2. steady \subseteq Entries BY DEF Listed
  <2> HIDE DEF PagedInit
  <2>3. /\ list \in {"saved", "following", "tag", "profile"} /\ listEnded \in BOOLEAN
        /\ withdrawn \subseteq Entries /\ late \subseteq Entries /\ changes = 0
        /\ edits \in [Entries -> {-1} \cup Seconds]
    BY DEF PagedInit
  <2>4. QED BY <1>a, <1>b, <1>c, <1>d, <2>1, <2>2, <2>3 DEF PagedTypeOK
<1>f. TimesPast
  <2>1. clock = 1 /\ \A n \in Entries : edits[n] = -1 /\ updated[n] \in {0, 1} BY DEF PagedInit
  <2>2. \A s \in Pressable : since[s] \in {-1, 0, 1} BY DEF PagedInit
  <2> HIDE DEF PagedInit
  <2>3. QED BY <1>d, <2>1, <2>2 DEF TimesPast
<1>3. SeenAreAbove /\ OnOnePage BY <1>1, <1>2 DEF SeenAreAbove, OnOnePage
<1>4. SteadyAreShown BY DEF SteadyAreShown, OlderThan
<1>5. QED BY <1>c, <1>e, <1>f, <1>3, <1>4 DEF PagedInv

LEMMA PagedTypes ==
    ASSUME PagedTypeOK
    PROVE  /\ Entries \subseteq Nat /\ clock \in Nat
           /\ shown \in Seq(Seq(Entries)) /\ Len(shown) \in Nat /\ DOMAIN shown = 1 .. Len(shown)
           /\ \A p \in DOMAIN shown : \A i \in DOMAIN shown[p] : shown[p][i] \in Entries
           /\ cursor # << >> => cursor[1] \in Nat /\ cursor[2] \in Nat
           /\ \A n \in Entries : TimeOf(n) \in Int
           /\ \A n \in Entries : updated[n] \in Nat /\ edits[n] \in Int
<1> USE DEF PagedTypeOK
<1>1. Entries \subseteq Nat BY PagedListsAssumption
<1>2. shown \in Seq(Seq(Entries)) /\ Len(shown) \in Nat /\ DOMAIN shown = 1 .. Len(shown) OBVIOUS
<1>3. \A p \in DOMAIN shown : \A i \in DOMAIN shown[p] : shown[p][i] \in Entries
  <2>1. SUFFICES ASSUME NEW p \in DOMAIN shown PROVE \A i \in DOMAIN shown[p] : shown[p][i] \in Entries
    OBVIOUS
  <2>2. shown[p] \in Seq(Entries) BY <1>2, ElementOfSeq
  <2>3. DOMAIN shown[p] = 1 .. Len(shown[p]) BY <2>2
  <2>4. QED BY <2>2, <2>3, ElementOfSeq
<1>4. cursor \in Seconds \X Entries => cursor[1] \in Seconds /\ cursor[2] \in Entries OBVIOUS
<1>5. Seconds \subseteq Nat BY DEF Seconds
<1>a. \A n \in Entries : since[n] \in {-1} \cup Seconds /\ updated[n] \in Seconds /\ edits[n] \in {-1} \cup Seconds
  BY DEF Pressable
<1>b. \A x \in {-1} \cup Seconds : x \in Int BY <1>5
<1>c. cursor # << >> => cursor \in Seconds \X Entries OBVIOUS
<1>d. clock \in Seconds OBVIOUS
<1> HIDE DEF PagedTypeOK
<1>6. \A n \in Entries : since[n] \in Int /\ updated[n] \in Nat /\ edits[n] \in Int BY <1>a, <1>b, <1>5
<1>7. \A n \in Entries : TimeOf(n) \in Int BY <1>6 DEF TimeOf
<1>8. cursor # << >> => cursor[1] \in Nat /\ cursor[2] \in Nat BY <1>1, <1>4, <1>5, <1>c
<1>9. QED BY <1>1, <1>2, <1>3, <1>5, <1>6, <1>7, <1>8, <1>d

LEMMA TimeOfListed ==
    ASSUME PagedTypeOK, TimesPast, NEW n \in Listed
    PROVE  n \in Entries /\ n \in Nat /\ TimeOf(n) \in Seconds /\ TimeOf(n) \in Nat /\ TimeOf(n) <= clock
<1>1. n \in Entries /\ n \in Nat /\ Entries \subseteq Pressable
  BY PagedListsAssumption DEF Listed, Pressable
<1>2. updated[n] \in Seconds /\ updated[n] <= clock /\ since[n] \in {-1} \cup Seconds /\ since[n] <= clock
  BY <1>1 DEF PagedTypeOK, TimesPast
<1>3. list = "saved" => since[n] >= 0
  BY DEF Listed, Wanted, Subject
<1>4. Seconds \subseteq Nat
  BY DEF Seconds
<1>5. CASE list = "saved"
  <2>1. since[n] # -1 BY <1>3, <1>5
  <2>2. QED BY <1>1, <1>2, <1>4, <1>5, <2>1 DEF TimeOf
<1>6. CASE list # "saved"
  BY <1>1, <1>2, <1>4, <1>6 DEF TimeOf
<1>7. QED BY <1>5, <1>6

LEMMA LoadPageStep == PagedInv /\ ~listEnded /\ LoadPage => PagedInv'
<1> SUFFICES ASSUME PagedInv, ~listEnded, LoadPage PROVE PagedInv' OBVIOUS
<1> USE DEF PagedInv
<1>0. ListPage \in Nat \ {0} BY PagedListsAssumption
<1>k. PICK k \in 0 .. ListPage : \E page \in [1 .. k -> RowsOlder] :
         /\ IsNextPage(page)
         /\ shown' = Append(shown, [i \in 1 .. k |-> page[i][1]])
         /\ cursor' = IF k = 0 THEN cursor ELSE <<TimeOf(page[k][1]), page[k][1]>>
         /\ listEnded' = IsLastPage(k)
  BY DEF LoadPage
<1>1. PICK page \in [1 .. k -> RowsOlder] :
         /\ IsNextPage(page)
         /\ shown' = Append(shown, [i \in 1 .. k |-> page[i][1]])
         /\ cursor' = IF k = 0 THEN cursor ELSE <<TimeOf(page[k][1]), page[k][1]>>
         /\ listEnded' = IsLastPage(k)
  BY <1>k
<1>2. UNCHANGED <<list, clock, updated, spelled, edits, since, withdrawn, clicks, steady, late, changes>>
  BY DEF LoadPage
<1> DEFINE notes == [i \in 1 .. k |-> page[i][1]]
<1>r. \A r \in RowsOlder : r[1] \in Older /\ r[2] \in 1 .. Spellings /\ r[2] <= spelled[r[1]] /\ r = <<r[1], r[2]>>
  BY DEF RowsOlder
<1>3. /\ Len(page) = k /\ DOMAIN page = 1 .. k /\ k \in Nat
      /\ \A i \in 1 .. k : page[i] \in RowsOlder /\ notes[i] = page[i][1] /\ notes[i] \in Older
      /\ notes \in Seq(Entries) /\ DOMAIN notes = 1 .. k
  <2>1. Older \subseteq Entries BY DEF Older, Listed
  <2>2. k \in Nat BY <1>0
  <2>3. \A i \in 1 .. k : page[i] \in RowsOlder /\ page[i][1] \in Older BY <1>r
  <2>4. notes \in [1 .. k -> Entries] BY <2>1, <2>3
  <2>5. notes \in Seq(Entries) BY <2>2, <2>4
  <2>6. QED BY <2>2, <2>3, <2>5
<1>s. /\ shown' = Append(shown, notes)
      /\ cursor' = IF k = 0 THEN cursor ELSE <<TimeOf(notes[k]), notes[k]>>
  <2>1. k # 0 => notes[k] = page[k][1] BY <1>3
  <2>2. QED BY <1>1, <2>1
<1>4. \A i \in 1 .. k : \A j \in 1 .. k : i < j => page[i] # page[j] /\ (notes[i] = notes[j] \/ Newer(notes[i], notes[j]))
  BY <1>1, <1>3 DEF IsNextPage
<1> HIDE DEF notes
<1>5. /\ shown' \in Seq(Seq(Entries)) /\ DOMAIN shown' = 1 .. (Len(shown) + 1)
      /\ Len(shown) \in Nat /\ DOMAIN shown = 1 .. Len(shown)
      /\ shown'[Len(shown) + 1] = notes
      /\ \A p \in DOMAIN shown : p \in DOMAIN shown' /\ shown'[p] = shown[p]
  <2>1. shown \in Seq(Seq(Entries)) /\ Len(shown) \in Nat /\ DOMAIN shown = 1 .. Len(shown) BY PagedTypes
  <2>2. /\ shown' \in Seq(Seq(Entries)) /\ Len(shown') = Len(shown) + 1
        /\ shown'[Len(shown) + 1] = notes
        /\ \A p \in 1 .. Len(shown) : shown'[p] = shown[p]
    BY <1>3, <1>s, <2>1, AppendProperties
  <2>3. DOMAIN shown' = 1 .. Len(shown') BY <2>2
  <2>4. QED BY <2>1, <2>2, <2>3
<1>6. /\ \A n : TimeOf(n)' = TimeOf(n)
      /\ Listed' = Listed
  BY <1>2 DEF TimeOf, Listed, Wanted, Subject
<1>7. \A n \in Older :
         /\ n \in Listed /\ OlderThan(n, cursor) /\ n \in Nat /\ n \in Entries
         /\ TimeOf(n) \in Seconds /\ TimeOf(n) \in Nat /\ TimeOf(n) <= clock
  BY TimeOfListed DEF Older
<1>8. clock \in Nat /\ (cursor # << >> => cursor[1] \in Nat /\ cursor[2] \in Nat) /\ Entries \subseteq Nat
      /\ \A n \in Entries : TimeOf(n) \in Int
  BY PagedTypes
<1>9. Seen' = Seen \cup {notes[i] : i \in 1 .. k}
  <2>1. ASSUME NEW n \in Seen' PROVE n \in Seen \cup {notes[i] : i \in 1 .. k}
    <3>1. n \in Entries /\ \E p \in DOMAIN shown' : \E i \in DOMAIN shown'[p] : shown'[p][i] = n
      BY <2>1 DEF Seen
    <3>2. PICK p \in DOMAIN shown' : \E i \in DOMAIN shown'[p] : shown'[p][i] = n
      BY <3>1
    <3>3. CASE p = Len(shown) + 1 BY <1>3, <1>5, <3>2, <3>3
    <3>4. CASE p # Len(shown) + 1
      <4>1. p \in DOMAIN shown /\ shown'[p] = shown[p] BY <1>5, <3>4
      <4>2. QED BY <3>1, <3>2, <4>1 DEF Seen
    <3>5. QED BY <3>3, <3>4
  <2>2. ASSUME NEW n \in Seen PROVE n \in Seen'
    <3>1. n \in Entries /\ \E p \in DOMAIN shown : \E i \in DOMAIN shown[p] : shown[p][i] = n
      BY DEF Seen
    <3>2. \E p \in DOMAIN shown' : \E i \in DOMAIN shown'[p] : shown'[p][i] = n
      BY <1>5, <3>1
    <3>3. QED BY <3>1, <3>2 DEF Seen
  <2>3. ASSUME NEW i \in 1 .. k PROVE notes[i] \in Seen'
    <3>1. Len(shown) + 1 \in DOMAIN shown' /\ i \in DOMAIN shown'[Len(shown) + 1] BY <1>3, <1>5
    <3>2. notes[i] \in Entries BY <1>3, <1>7
    <3>3. QED BY <1>5, <3>1, <3>2 DEF Seen
  <2>4. QED BY <2>1, <2>2, <2>3
<1>10. \A i \in 1 .. k : notes[i] = notes[k] \/ Newer(notes[i], notes[k])
  BY <1>3, <1>4
<1>11. PagedTypeOK'
  <2>1. cursor' \in {<< >>} \cup Seconds \X Entries
    <3>1. CASE k = 0 BY <1>s, <3>1 DEF PagedTypeOK
    <3>2. CASE k > 0
      <4>1. k \in 1 .. k BY <1>3, <3>2
      <4>2. notes[k] \in Entries /\ TimeOf(notes[k]) \in Seconds BY <1>3, <1>7, <4>1
      <4>3. cursor' = <<TimeOf(notes[k]), notes[k]>> BY <1>3, <1>s, <3>2
      <4>4. QED BY <4>2, <4>3
    <3>3. QED BY <1>3, <3>1, <3>2
  <2>2. listEnded' \in BOOLEAN
    <3>1. IsLastPage(k) \in BOOLEAN BY DEF IsLastPage
    <3>2. QED BY <1>1, <3>1
  <2>3. QED BY <1>2, <1>5, <2>1, <2>2 DEF PagedTypeOK
<1>12. TimesPast' BY <1>2 DEF TimesPast
<1>13. SeenAreAbove'
  <2>1. ASSUME NEW n \in Seen' \ late
        PROVE  /\ Reaches(clock, n)'
               /\ TimeOf(n) >= 0 => Reaches(TimeOf(n), n)'
    <3>1. CASE k = 0
      <4>1. cursor' = cursor /\ n \in Seen BY <1>9, <1>s, <3>1
      <4>2. QED BY <1>2, <1>6, <2>1, <4>1 DEF SeenAreAbove, Reaches
    <3>2. CASE k > 0
      <4>1. cursor' = <<TimeOf(notes[k]), notes[k]>> BY <1>3, <1>s, <3>2
      <4>2. cursor' # << >> /\ cursor'[1] = TimeOf(notes[k]) /\ cursor'[2] = notes[k] BY <4>1
      <4>3. k \in 1 .. k /\ notes[k] \in Older BY <1>3, <3>2
      <4>4. CASE n \in Seen
        <5>1. Reaches(clock, n) /\ (TimeOf(n) >= 0 => Reaches(TimeOf(n), n))
          BY <2>1, <4>4 DEF SeenAreAbove
        <5>2. n \in Nat /\ TimeOf(n) \in Int BY <1>8, <4>4 DEF Seen
        <5>3. \A time \in Int : Reaches(time, n) =>
                 time > TimeOf(notes[k]) \/ (time = TimeOf(notes[k]) /\ n >= notes[k])
          <6>1. /\ TimeOf(notes[k]) \in Nat /\ notes[k] \in Nat
                /\ OlderThan(notes[k], cursor)
            BY <1>7, <4>3
          <6>2. QED BY <1>8, <5>2, <6>1 DEF Reaches, OlderThan
        <5>4. QED BY <1>2, <1>6, <1>8, <4>2, <5>1, <5>2, <5>3 DEF Reaches
      <4>5. CASE n \notin Seen
        <5>1. PICK i \in 1 .. k : n = notes[i] BY <1>9, <2>1, <4>5
        <5>2. n \in Older /\ (n = notes[k] \/ Newer(n, notes[k])) BY <1>3, <1>10, <5>1
        <5>3. /\ TimeOf(n) \in Nat /\ n \in Nat /\ TimeOf(n) <= clock
              /\ TimeOf(notes[k]) \in Nat /\ notes[k] \in Nat
          BY <1>7, <4>3, <5>2
        <5>4. TimeOf(n) > TimeOf(notes[k]) \/ (TimeOf(n) = TimeOf(notes[k]) /\ n >= notes[k])
          BY <5>2, <5>3 DEF Newer
        <5>5. clock > TimeOf(notes[k]) \/ (clock = TimeOf(notes[k]) /\ n >= notes[k])
          BY <1>8, <5>3, <5>4
        <5>6. QED BY <1>2, <1>6, <4>2, <5>4, <5>5 DEF Reaches
      <4>6. QED BY <4>4, <4>5
    <3>3. QED BY <1>3, <3>1, <3>2
  <2>2. QED BY <1>2, <1>6, <2>1 DEF SeenAreAbove
<1>14. OnOnePage'
  <2>1. ASSUME NEW n \in Seen, n \notin late, NEW j \in 1 .. k PROVE n # notes[j]
    <3>1. SUFFICES ASSUME n = notes[j] PROVE FALSE OBVIOUS
    <3>2. n \in Older BY <1>3, <3>1
    <3>3. TimeOf(n) \in Nat /\ OlderThan(n, cursor) /\ n \in Nat BY <1>7, <3>2
    <3>4. Reaches(TimeOf(n), n) BY <2>1, <3>3 DEF SeenAreAbove
    <3>5. QED BY <1>8, <3>3, <3>4 DEF Reaches, OlderThan
  <2>2. ASSUME NEW i \in 1 .. k, NEW j \in 1 .. k, i < j, notes[i] = notes[j] PROVE list = "tag"
    <3>1. SUFFICES ASSUME list # "tag" PROVE FALSE OBVIOUS
    <3>2. page[i] # page[j] BY <1>4, <2>2
    <3>3. /\ page[i] \in RowsOlder /\ page[j] \in RowsOlder /\ notes[i] = page[i][1] /\ notes[j] = page[j][1]
          /\ notes[i] \in Entries
      BY <1>3, <1>7
    <3>4. /\ page[i][2] \in 1 .. Spellings /\ page[j][2] \in 1 .. Spellings
          /\ page[i][2] <= spelled[notes[i]] /\ page[j][2] <= spelled[notes[i]]
          /\ page[i] = <<page[i][1], page[i][2]>> /\ page[j] = <<page[j][1], page[j][2]>>
      BY <1>r, <2>2, <3>3
    <3>5. spelled[notes[i]] <= 1 /\ spelled[notes[i]] \in Nat
      BY <3>1, <3>3 DEF PagedTypeOK
    <3>6. page[i][2] = page[j][2]
      BY <3>4, <3>5
    <3>7. QED BY <2>2, <3>2, <3>3, <3>4, <3>6
  <2>3. ASSUME NEW p \in DOMAIN shown, NEW i \in DOMAIN shown[p] PROVE shown[p][i] \in Seen
    BY PagedTypes DEF Seen
  <2>4. ASSUME NEW p \in DOMAIN shown', NEW q \in DOMAIN shown',
               NEW i \in DOMAIN shown'[p], NEW j \in DOMAIN shown'[q], shown'[p][i] = shown'[q][j]
        PROVE  \/ p = q /\ (i = j \/ list = "tag")
               \/ shown'[p][i] \in late
    <3>1. p \in DOMAIN shown \/ p = Len(shown) + 1 BY <1>5
    <3>2. q \in DOMAIN shown \/ q = Len(shown) + 1 BY <1>5
    <3>3. CASE p \in DOMAIN shown /\ q \in DOMAIN shown
      <4>1. shown'[p] = shown[p] /\ shown'[q] = shown[q] BY <1>5, <3>3
      <4>2. QED BY <2>4, <3>3, <4>1 DEF OnOnePage
    <3>4. CASE p \in DOMAIN shown /\ q = Len(shown) + 1
      <4>1. shown'[p] = shown[p] /\ shown'[q] = notes BY <1>5, <3>4
      <4>2. shown[p][i] \in Seen /\ j \in 1 .. k /\ shown[p][i] = notes[j] BY <1>3, <2>3, <2>4, <3>4, <4>1
      <4>3. QED BY <2>1, <4>1, <4>2
    <3>5. CASE p = Len(shown) + 1 /\ q \in DOMAIN shown
      <4>1. shown'[p] = notes /\ shown'[q] = shown[q] BY <1>5, <3>5
      <4>2. shown[q][j] \in Seen /\ i \in 1 .. k /\ shown[q][j] = notes[i] BY <1>3, <2>3, <2>4, <3>5, <4>1
      <4>3. QED BY <2>1, <2>4, <4>1, <4>2
    <3>6. CASE p = Len(shown) + 1 /\ q = Len(shown) + 1
      <4>1. i \in 1 .. k /\ j \in 1 .. k /\ notes[i] = notes[j] BY <1>3, <1>5, <2>4, <3>6
      <4>2. i = j \/ i < j \/ j < i BY <1>3, <4>1
      <4>3. i < j \/ j < i => list = "tag" BY <2>2, <4>1
      <4>4. QED BY <3>6, <4>2, <4>3
    <3>7. QED BY <3>1, <3>2, <3>3, <3>4, <3>5, <3>6
  <2>5. QED BY <1>2, <2>4 DEF OnOnePage
<1>15. SteadyAreShown'
  <2>1. ASSUME NEW n \in steady
        PROVE  (~listEnded' /\ OlderThan(n, cursor)') \/ n \in Seen'
    <3>1. CASE n \in Seen BY <1>9, <3>1
    <3>2. CASE OlderThan(n, cursor)
      <4>1. n \in Listed /\ n \in Older BY <3>2 DEF SteadyAreShown, Older
      <4>2. spelled[n] \in Nat /\ spelled[n] > 0
        BY <1>7, <4>1 DEF Listed, Wanted, PagedTypeOK
      <4>3. <<n, 1>> \in RowsOlder
        <5>1. 1 \in 1 .. Spellings BY PagedListsAssumption
        <5>2. QED BY <4>1, <4>2, <5>1 DEF RowsOlder
      <4>4. CASE \E i \in DOMAIN page : page[i] = <<n, 1>>
        <5>1. PICK i \in 1 .. k : page[i] = <<n, 1>> BY <1>3, <4>4
        <5>2. notes[i] = n BY <1>3, <5>1
        <5>3. QED BY <1>9, <5>2
      <4>5. CASE Len(page) = ListPage /\ (page[ListPage][1] = n \/ Newer(page[ListPage][1], n))
        <5>1. k = ListPage /\ k > 0 /\ k \in 1 .. k BY <1>0, <1>3, <4>5
        <5>a. notes[k] = n \/ Newer(notes[k], n) BY <1>3, <4>5, <5>1
        <5>2. cursor' = <<TimeOf(notes[k]), notes[k]>> BY <1>3, <1>s, <5>1
        <5>3. cursor'[1] = TimeOf(notes[k]) /\ cursor'[2] = notes[k] BY <5>2
        <5>4. ~listEnded' 
          <6>1. ~IsLastPage(k) BY <1>0, <1>3, <5>1 DEF IsLastPage
          <6>2. QED BY <1>1, <6>1
        <5>5. CASE notes[k] = n BY <1>9, <5>1, <5>5
        <5>6. CASE Newer(notes[k], n)
          <6>1. TimeOf(notes[k]) \in Nat /\ notes[k] \in Nat /\ TimeOf(n) \in Nat /\ n \in Nat
            BY <1>3, <1>7, <4>1, <5>1
          <6>2. TimeOf(n) < TimeOf(notes[k]) \/ (TimeOf(n) = TimeOf(notes[k]) /\ n < notes[k])
            BY <5>6, <6>1 DEF Newer
          <6>3. OlderThan(n, cursor)' BY <1>6, <5>3, <6>2 DEF OlderThan
          <6>4. QED BY <5>4, <6>3
        <5>7. QED BY <5>a, <5>5, <5>6
      <4>6. (\E i \in DOMAIN page : page[i] = <<n, 1>>)
            \/ (Len(page) = ListPage /\ (page[ListPage][1] = n \/ Newer(page[ListPage][1], n)))
        <5>1. <<n, 1>>[1] = n OBVIOUS
        <5>2. QED BY <1>1, <4>3, <5>1 DEF IsNextPage
      <4>7. QED BY <4>4, <4>5, <4>6
    <3>3. QED BY <3>1, <3>2 DEF SteadyAreShown
  <2>2. QED BY <1>2, <1>6, <2>1 DEF SteadyAreShown
<1>16. QED BY <1>2, <1>11, <1>12, <1>13, <1>14, <1>15

\* While no page is loaded: what was shown stays above the cursor when the time of a
\* note becomes the clock's or a later one than it had, or when the note has none,
\* and what is still steady keeps its time.
LEMMA MeanwhileStep ==
    ASSUME PagedInv, PagedTypeOK', TimesPast', UNCHANGED <<list, shown, cursor, listEnded>>,
           clock' >= clock, late \subseteq late',
           list # "tag" => \A n \in Entries : spelled'[n] <= 1,
           \A n \in Entries \ late' :
               \/ TimeOf(n)' = clock
               \/ TimeOf(n)' < 0
               \/ TimeOf(n)' = TimeOf(n)
               \/ 0 <= TimeOf(n) /\ TimeOf(n) <= TimeOf(n)',
           steady' \subseteq steady,
           \A n \in steady' : TimeOf(n)' = TimeOf(n) /\ (n \in Listed => n \in Listed')
    PROVE  PagedInv'
<1> USE DEF PagedInv
<1>1. /\ clock \in Nat /\ clock' \in Nat /\ Entries \subseteq Nat
      /\ cursor # << >> => cursor[1] \in Nat /\ cursor[2] \in Nat
      /\ \A n \in Entries : TimeOf(n) \in Int
      /\ \A n \in Entries : TimeOf(n)' \in Int
  <2>1. \A n \in Entries : TimeOf(n)' \in Int
    BY DEF PagedTypeOK, Seconds, TimeOf, Pressable
  <2>2. clock' \in Nat BY DEF PagedTypeOK, Seconds
  <2>3. QED BY <2>1, <2>2, PagedTypes
<1>2. Seen' = Seen BY DEF Seen
<1>3. SeenAreAbove'
  <2>1. ASSUME NEW n \in Seen \ late'
        PROVE  /\ Reaches(clock, n)'
               /\ TimeOf(n)' >= 0 => Reaches(TimeOf(n), n)'
    <3>1. n \in Entries /\ n \in Nat /\ n \notin late /\ n \notin late' BY <1>1 DEF Seen
    <3>2. Reaches(clock, n) /\ (TimeOf(n) >= 0 => Reaches(TimeOf(n), n))
      BY <3>1 DEF SeenAreAbove
    <3>3. /\ cursor # << >> /\ cursor[1] \in Nat /\ cursor[2] \in Nat
          /\ clock > cursor[1] \/ (clock = cursor[1] /\ n >= cursor[2])
          /\ TimeOf(n) >= 0 => TimeOf(n) > cursor[1] \/ (TimeOf(n) = cursor[1] /\ n >= cursor[2])
      BY <1>1, <3>2 DEF Reaches
    <3>4. /\ clock' > cursor[1] \/ (clock' = cursor[1] /\ n >= cursor[2])
      BY <1>1, <3>3
    <3>5. TimeOf(n)' >= 0 => TimeOf(n)' > cursor[1] \/ (TimeOf(n)' = cursor[1] /\ n >= cursor[2])
      <4>1. TimeOf(n) \in Int /\ TimeOf(n)' \in Int BY <1>1, <3>1
      <4>2. \/ TimeOf(n)' = clock
            \/ TimeOf(n)' < 0
            \/ TimeOf(n)' = TimeOf(n)
            \/ 0 <= TimeOf(n) /\ TimeOf(n) <= TimeOf(n)'
        BY <3>1
      <4>3. QED BY <1>1, <3>1, <3>3, <4>1, <4>2
    <3>6. QED BY <3>3, <3>4, <3>5 DEF Reaches
  <2>2. QED BY <1>2, <2>1 DEF SeenAreAbove
<1>4. OnOnePage' BY DEF OnOnePage
<1>5. SteadyAreShown' BY <1>2 DEF SteadyAreShown, OlderThan
<1>6. QED BY <1>3, <1>4, <1>5

LEMMA PagedFields ==
    ASSUME PagedTypeOK
    PROVE  /\ list \in {"saved", "following", "tag", "profile"}
           /\ clock \in Seconds /\ clock \in Nat /\ changes \in 0 .. MaxChanges /\ changes \in Nat
           /\ updated \in [Entries -> Seconds] /\ since \in [Pressable -> {-1} \cup Seconds]
           /\ spelled \in [Entries -> 0 .. Spellings] /\ edits \in [Entries -> {-1} \cup Seconds]
           /\ withdrawn \subseteq Entries /\ clicks \in [Clicks -> SUBSET Click]
           /\ steady \subseteq Entries /\ late \subseteq Entries
           /\ MaxChanges \in Nat /\ MaxSeconds \in Nat /\ Spellings \in Nat \ {0}
           /\ Entries \subseteq Nat /\ Everyone \notin Entries /\ Entries \subseteq Pressable
           /\ \A n \in Entries : updated[n] \in Nat /\ edits[n] \in Int
<1>1. /\ list \in {"saved", "following", "tag", "profile"}
      /\ clock \in Seconds /\ changes \in 0 .. MaxChanges
      /\ updated \in [Entries -> Seconds] /\ since \in [Pressable -> {-1} \cup Seconds]
      /\ spelled \in [Entries -> 0 .. Spellings] /\ edits \in [Entries -> {-1} \cup Seconds]
      /\ withdrawn \subseteq Entries /\ clicks \in [Clicks -> SUBSET Click]
      /\ steady \subseteq Entries /\ late \subseteq Entries
  BY DEF PagedTypeOK
<1>2. MaxChanges \in Nat /\ MaxSeconds \in Nat /\ Spellings \in Nat \ {0}
      /\ Entries \subseteq Nat /\ Everyone \notin Entries /\ Entries \subseteq Pressable
  BY PagedListsAssumption DEF Pressable
<1>3. clock \in Nat /\ \A n \in Entries : updated[n] \in Nat /\ edits[n] \in Int
  BY PagedTypes
<1>4. changes \in Nat
  BY <1>1, <1>2
<1>5. QED BY <1>1, <1>2, <1>3, <1>4

LEMMA PressStep ==
    ASSUME PagedInv, NEW c \in Clicks, NEW s \in Pressable, Press(c, s)
    PROVE  PagedInv'
<1> USE DEF PagedInv
<1>1. /\ UNCHANGED <<list, clock, updated, spelled, edits, since, withdrawn, shown, cursor, listEnded, steady, late>>
      /\ changes' \in 0 .. MaxChanges
      /\ clicks' = [clicks EXCEPT ![c] = {[about |-> s, time |-> clock, met |-> FALSE]}]
  BY PagedFields DEF Press, Change
<1>2. [about |-> s, time |-> clock, met |-> FALSE] \in Click
  BY PagedFields DEF Click
<1>3. PagedTypeOK' BY <1>1, <1>2, PagedFields DEF PagedTypeOK
<1>4. \A d \in Clicks : \A k \in clicks'[d] : k.time <= clock
  <2>1. SUFFICES ASSUME NEW d \in Clicks, NEW k \in clicks'[d] PROVE k.time <= clock
    OBVIOUS
  <2>2. CASE d = c BY <1>1, <2>2, PagedFields
  <2>3. CASE d # c
    <3>1. clicks'[d] = clicks[d] BY <1>1, <2>3, PagedFields
    <3>2. QED BY <2>1, <3>1 DEF TimesPast
  <2>4. QED BY <2>2, <2>3
<1>5. TimesPast' BY <1>1, <1>4 DEF TimesPast
<1>6. \A n : TimeOf(n)' = TimeOf(n) /\ (n \in Listed => n \in Listed')
  BY <1>1 DEF TimeOf, Listed, Wanted, Subject
<1>7. QED BY <1>1, <1>3, <1>5, <1>6, PagedFields, MeanwhileStep

\* The fields of a press in flight.
LEMMA ClickFields ==
    ASSUME PagedTypeOK, TimesPast, NEW c \in Clicks, NEW k \in clicks[c]
    PROVE  /\ k \in Click /\ k.about \in Pressable /\ k.time \in Seconds /\ k.time \in Nat /\ k.time <= clock
           /\ [k EXCEPT !.met = TRUE] \in Click
           /\ [k EXCEPT !.met = TRUE].time = k.time
<1>1. k \in Click /\ k.time <= clock BY DEF PagedTypeOK, TimesPast
<1>2. k.about \in Pressable /\ k.time \in Seconds /\ k.time \in Nat BY <1>1 DEF Click, Seconds
<1>3. [k EXCEPT !.met = TRUE] \in Click /\ [k EXCEPT !.met = TRUE].time = k.time
  <2> DEFINE yes == TRUE
  <2>1. yes \in BOOLEAN OBVIOUS
  <2> HIDE DEF yes
  <2>2. [k EXCEPT !.met = yes] \in Click /\ [k EXCEPT !.met = yes].time = k.time
    BY <1>1, <2>1 DEF Click
  <2>3. QED BY <2>2 DEF yes
<1>4. QED BY <1>1, <1>2, <1>3

LEMMA PressInsertStep ==
    ASSUME PagedInv, NEW c \in Clicks, PressInsert(c)
    PROVE  PagedInv'
<1> USE DEF PagedInv
<1>1. UNCHANGED <<list, clock, updated, spelled, edits, withdrawn, shown, cursor, listEnded, changes>>
  BY DEF PressInsert
<1>2. PICK k \in clicks[c] :
          /\ ~k.met
          /\ IF since[k.about] < 0
             THEN /\ since' = [since EXCEPT ![k.about] = k.time]
                  /\ clicks' = [clicks EXCEPT ![c] = {}]
                  /\ Unsettled(About(k.about))
                  /\ late' = late \cup {n \in Entries : n = k.about /\ k.time < clock}
             ELSE /\ clicks' = [clicks EXCEPT ![c] = {[k EXCEPT !.met = TRUE]}]
                  /\ UNCHANGED <<since, steady, late>>
  BY DEF PressInsert
<1>3. /\ k \in Click /\ k.about \in Pressable /\ k.time \in Seconds /\ k.time \in Nat /\ k.time <= clock
      /\ [k EXCEPT !.met = TRUE] \in Click
      /\ [k EXCEPT !.met = TRUE].time = k.time
  BY ClickFields
<1> DEFINE s == k.about
           t == k.time
           met == [k EXCEPT !.met = TRUE]
<1>4. CASE since[s] < 0
  <2>1. /\ since' = [since EXCEPT ![s] = t]
        /\ clicks' = [clicks EXCEPT ![c] = {}]
        /\ steady' = steady \ About(s)
        /\ late' = late \cup {n \in Entries : n = s /\ t < clock}
    BY <1>2, <1>4 DEF Unsettled
  <2>2. s \in Pressable /\ t \in Seconds /\ t \in Nat /\ t <= clock
    BY <1>3
  <2> HIDE DEF s, t, met
  <2>3. PagedTypeOK' BY <1>1, <2>1, <2>2, PagedFields DEF PagedTypeOK
  <2>4. TimesPast'
    <3>1. \A d \in Clicks : \A x \in clicks'[d] : x.time <= clock
      <4>1. SUFFICES ASSUME NEW d \in Clicks, NEW x \in clicks'[d] PROVE x.time <= clock OBVIOUS
      <4>2. x \in clicks[d] BY <2>1, PagedFields
      <4>3. QED BY <4>2 DEF TimesPast
    <3>2. \A x \in Pressable : since'[x] <= clock
      BY <2>1, <2>2, PagedFields DEF TimesPast
    <3>3. QED BY <1>1, <3>1, <3>2 DEF TimesPast
  <2>5. CASE list = "saved"
    <3>1. \A n \in Entries : n # s => TimeOf(n)' = TimeOf(n)
      BY <1>1, <2>1, <2>5, PagedFields DEF TimeOf
    <3>2. \A n \in Entries \ late' : n = s => TimeOf(n)' = clock
      <4>1. SUFFICES ASSUME NEW n \in Entries \ late', n = s PROVE TimeOf(n)' = clock OBVIOUS
      <4>2. TimeOf(n)' = t BY <1>1, <2>1, <2>2, <2>5, <4>1, PagedFields DEF TimeOf
      <4>3. ~(t < clock) BY <2>1, <4>1
      <4>4. QED BY <2>2, <4>2, <4>3, PagedFields
    <3>3. \A n \in steady' : n \in Entries /\ n # s
      BY <2>1, <2>5, PagedFields DEF About, Subject
    <3>4. \A n \in steady' : TimeOf(n)' = TimeOf(n) /\ (n \in Listed => n \in Listed')
      BY <1>1, <2>1, <2>5, <3>1, <3>3, PagedFields DEF Listed, Wanted, Subject
    <3>5. QED BY <1>1, <2>1, <2>3, <2>4, <2>5, <3>1, <3>2, <3>4, PagedFields, MeanwhileStep
  <2>6. CASE list # "saved"
    <3>1. \A n : TimeOf(n)' = TimeOf(n) BY <1>1, <2>6 DEF TimeOf
    <3>2. \A n \in steady' : n \in Entries /\ Subject(n) # s BY <2>1, PagedFields DEF About
    <3>3. \A n \in steady' : n \in Listed => n \in Listed'
      BY <1>1, <2>1, <3>2, <2>6, PagedFields DEF Listed, Wanted, Subject
    <3>4. QED BY <1>1, <2>1, <2>3, <2>4, <2>6, <3>1, <3>3, PagedFields, MeanwhileStep
  <2>7. QED BY <2>5, <2>6
<1>5. CASE ~(since[s] < 0)
  <2>1. clicks' = [clicks EXCEPT ![c] = {met}] /\ UNCHANGED <<since, steady, late>>
    BY <1>2, <1>5
  <2>2. met \in Click /\ met.time = t /\ t <= clock
    BY <1>3
  <2> HIDE DEF s, t, met
  <2>3. PagedTypeOK' BY <1>1, <2>1, <2>2, PagedFields DEF PagedTypeOK
  <2>4. \A d \in Clicks : \A x \in clicks'[d] : x.time <= clock
    <3>1. SUFFICES ASSUME NEW d \in Clicks, NEW x \in clicks'[d] PROVE x.time <= clock OBVIOUS
    <3>2. x = met \/ x \in clicks[d] BY <2>1, PagedFields
    <3>3. QED BY <2>2, <3>2 DEF TimesPast
  <2>5. TimesPast' BY <1>1, <2>1, <2>4 DEF TimesPast
  <2>6. \A n : TimeOf(n)' = TimeOf(n) /\ (n \in Listed => n \in Listed')
    BY <1>1, <2>1 DEF TimeOf, Listed, Wanted, Subject
  <2>7. QED BY <1>1, <2>1, <2>3, <2>5, <2>6, PagedFields, MeanwhileStep
<1>6. QED BY <1>4, <1>5

LEMMA PressDeleteStep ==
    ASSUME PagedInv, NEW c \in Clicks, PressDelete(c)
    PROVE  PagedInv'
<1> USE DEF PagedInv
<1>1. /\ UNCHANGED <<list, clock, updated, spelled, edits, withdrawn, shown, cursor, listEnded, late, changes>>
      /\ clicks' = [clicks EXCEPT ![c] = {}]
  BY DEF PressDelete
<1>2. PICK k \in clicks[c] : since' = [since EXCEPT ![k.about] = -1] /\ steady' = steady \ About(k.about)
  BY DEF PressDelete, Unsettled
<1>3. k.about \in Pressable BY ClickFields
<1> DEFINE s == k.about
<1>4. since' = [since EXCEPT ![s] = -1] /\ steady' = steady \ About(s) /\ s \in Pressable
  BY <1>2, <1>3
<1> HIDE DEF s
<1>5. PagedTypeOK' BY <1>1, <1>4, PagedFields DEF PagedTypeOK
<1>6. TimesPast'
  <2>1. \A d \in Clicks : \A x \in clicks'[d] : x.time <= clock
    <3>1. SUFFICES ASSUME NEW d \in Clicks, NEW x \in clicks'[d] PROVE x.time <= clock OBVIOUS
    <3>2. x \in clicks[d] BY <1>1, PagedFields
    <3>3. QED BY <3>2 DEF TimesPast
  <2>2. \A x \in Pressable : since'[x] <= clock
    BY <1>4, PagedFields DEF TimesPast
  <2>3. QED BY <1>1, <2>1, <2>2 DEF TimesPast
<1>7. \A n \in Entries : TimeOf(n)' = TimeOf(n) \/ TimeOf(n)' < 0
  BY <1>1, <1>4, PagedFields DEF TimeOf
<1>8. \A n \in steady' : n \in Entries /\ Subject(n) # s
  BY <1>4, PagedFields DEF About
<1>9. \A n \in steady' : TimeOf(n)' = TimeOf(n) /\ (n \in Listed => n \in Listed')
  BY <1>1, <1>4, <1>8, PagedFields DEF TimeOf, Listed, Wanted, Subject
<1>10. QED BY <1>1, <1>4, <1>5, <1>6, <1>7, <1>9, PagedFields, MeanwhileStep

LEMMA CommitEditStep ==
    ASSUME PagedInv, NEW n \in Entries, CommitEdit(n)
    PROVE  PagedInv'
<1> USE DEF PagedInv
<1>1. /\ UNCHANGED <<list, clock, since, withdrawn, clicks, shown, cursor, listEnded, late, changes>>
      /\ edits[n] >= 0
      /\ updated' = [updated EXCEPT ![n] = edits[n]]
      /\ edits' = [edits EXCEPT ![n] = -1]
      /\ steady' = steady \ {n}
  BY DEF CommitEdit, Unsettled
<1>2. PICK k \in IF list = "tag" THEN 0 .. Spellings ELSE {1} : spelled' = [spelled EXCEPT ![n] = k]
  BY DEF CommitEdit
<1>3. k \in 0 .. Spellings /\ (list # "tag" => k = 1)
  BY <1>2, PagedFields
<1>4. edits[n] \in Seconds /\ edits[n] \in Nat /\ updated[n] <= edits[n] /\ edits[n] <= clock
  BY <1>1, PagedFields DEF TimesPast, Seconds
<1>5. PagedTypeOK' BY <1>1, <1>2, <1>3, <1>4, PagedFields DEF PagedTypeOK
<1>6. TimesPast' BY <1>1, <1>4, PagedFields DEF TimesPast
<1>7. list # "tag" => \A m \in Entries : spelled'[m] <= 1
  BY <1>2, <1>3, PagedFields
<1>8. \A m \in Entries : \/ TimeOf(m)' = TimeOf(m)
                         \/ 0 <= TimeOf(m) /\ TimeOf(m) <= TimeOf(m)'
  BY <1>1, <1>4, PagedFields DEF TimeOf
<1>9. \A m \in steady' : TimeOf(m)' = TimeOf(m) /\ (m \in Listed => m \in Listed')
  BY <1>1, <1>2, PagedFields DEF TimeOf, Listed, Wanted, Subject
<1>10. QED BY <1>1, <1>5, <1>6, <1>7, <1>8, <1>9, PagedFields, MeanwhileStep

LEMMA PagedStep == PagedInv /\ [PagedNext]_pagedVars => PagedInv'
<1> SUFFICES ASSUME PagedInv, [PagedNext]_pagedVars PROVE PagedInv' OBVIOUS
<1> USE DEF PagedInv
<1>1. CASE ~listEnded /\ LoadPage BY <1>1, LoadPageStep
<1>2. ASSUME NEW c \in Clicks, NEW s \in Pressable, Press(c, s) PROVE PagedInv'
  BY <1>2, PressStep
<1>3. ASSUME NEW c \in Clicks, PressInsert(c) PROVE PagedInv'
  BY <1>3, PressInsertStep
<1>4. ASSUME NEW c \in Clicks, PressDelete(c) PROVE PagedInv'
  BY <1>4, PressDeleteStep
<1>5. ASSUME NEW c \in Clicks, PressFails(c) PROVE PagedInv'
  <2> USE <1>5 DEF PressFails
  <2>1. PagedTypeOK' BY PagedFields DEF PagedTypeOK
  <2>2. TimesPast'
    <3>1. \A d \in Clicks : \A x \in clicks'[d] : x.time <= clock
      <4>1. SUFFICES ASSUME NEW d \in Clicks, NEW x \in clicks'[d] PROVE x.time <= clock OBVIOUS
      <4>2. x \in clicks[d] BY PagedFields
      <4>3. QED BY <4>2 DEF TimesPast
    <3>2. QED BY <3>1 DEF TimesPast
  <2>3. \A n : TimeOf(n)' = TimeOf(n) /\ (n \in Listed => n \in Listed')
    BY DEF TimeOf, Listed, Wanted, Subject
  <2>4. QED BY <2>1, <2>2, <2>3, PagedFields, MeanwhileStep
<1>6. ASSUME NEW n \in Entries, BeginEdit(n) PROVE PagedInv'
  <2> USE <1>6 DEF BeginEdit, Change
  <2>1. PagedTypeOK' BY PagedFields DEF PagedTypeOK
  <2>2. TimesPast' BY PagedFields DEF TimesPast
  <2>3. \A m : TimeOf(m)' = TimeOf(m) /\ (m \in Listed => m \in Listed')
    BY DEF TimeOf, Listed, Wanted, Subject
  <2>4. QED BY <2>1, <2>2, <2>3, PagedFields, MeanwhileStep
<1>7. ASSUME NEW n \in Entries, CommitEdit(n) PROVE PagedInv'
  BY <1>7, CommitEditStep
<1>8. ASSUME NEW n \in Entries, RollBackEdit(n) PROVE PagedInv'
  <2> USE <1>8 DEF RollBackEdit
  <2>1. PagedTypeOK' BY PagedFields DEF PagedTypeOK
  <2>2. TimesPast' BY PagedFields DEF TimesPast
  <2>3. \A m : TimeOf(m)' = TimeOf(m) /\ (m \in Listed => m \in Listed')
    BY DEF TimeOf, Listed, Wanted, Subject
  <2>4. QED BY <2>1, <2>2, <2>3, PagedFields, MeanwhileStep
<1>9. ASSUME NEW n \in Entries, Withdraw(n) PROVE PagedInv'
  <2> USE <1>9 DEF Withdraw, Change, Unsettled
  <2>1. PagedTypeOK' BY PagedFields DEF PagedTypeOK
  <2>2. TimesPast' BY DEF TimesPast
  <2>3. \A m \in Entries : TimeOf(m)' = TimeOf(m) BY DEF TimeOf
  <2>4. \A m \in steady' : TimeOf(m)' = TimeOf(m) /\ (m \in Listed => m \in Listed')
    BY DEF TimeOf, Listed, Wanted, Subject
  <2>5. QED BY <2>1, <2>2, <2>3, <2>4, PagedFields, MeanwhileStep
<1>10. CASE NextSecond
  <2> USE <1>10 DEF NextSecond
  <2>1. PagedTypeOK' BY PagedFields DEF PagedTypeOK, Seconds
  <2>2. clock' = clock + 1 /\ clock \in Nat BY PagedFields
  <2>a. \A c \in Clicks : \A k \in clicks[c] : k.time \in Nat /\ k.time <= clock BY ClickFields
  <2>b. \A s \in Pressable : since[s] \in Int /\ since[s] <= clock
    BY PagedFields DEF TimesPast, Seconds
  <2>c. \A n \in Entries : /\ updated[n] \in Nat /\ edits[n] \in Int /\ updated[n] <= clock
                           /\ edits[n] >= 0 => updated[n] <= edits[n] /\ edits[n] <= clock
    BY PagedFields DEF TimesPast
  <2>3. TimesPast' BY <2>2, <2>a, <2>b, <2>c DEF TimesPast
  <2>4. \A n : TimeOf(n)' = TimeOf(n) /\ (n \in Listed => n \in Listed')
    BY DEF TimeOf, Listed, Wanted, Subject
  <2>5. QED BY <2>1, <2>2, <2>3, <2>4, PagedFields, MeanwhileStep
<1>11. CASE UNCHANGED pagedVars
  <2> USE <1>11 DEF pagedVars
  <2>1. PagedTypeOK' BY DEF PagedTypeOK
  <2>2. TimesPast' BY DEF TimesPast
  <2>3. \A n : TimeOf(n)' = TimeOf(n) /\ (n \in Listed => n \in Listed')
    BY DEF TimeOf, Listed, Wanted, Subject
  <2>4. QED BY <2>1, <2>2, <2>3, PagedFields, MeanwhileStep
<1>12. QED BY <1>1, <1>2, <1>3, <1>4, <1>5, <1>6, <1>7, <1>8, <1>9, <1>10, <1>11 DEF PagedNext

\* No gap and no repeat over the pages of a list, whatever happens between them.
THEOREM PagedListsHaveNoGaps == PagedSpec => []PagesHaveNoGaps
<1>1. PagedInv => PagesHaveNoGaps
  BY DEF PagedInv, OnOnePage, SteadyAreShown, Seen, PagesHaveNoGaps
<1>2. QED BY <1>1, PagedInitially, PagedStep, PTL DEF PagedSpec

\* The list, the pages shown and the cursor stay of their types.
THEOREM PagedTypeCorrect == PagedSpec => []PagedTypeOK
<1>1. PagedInv => PagedTypeOK BY DEF PagedInv
<1>2. QED BY <1>1, PagedInitially, PagedStep, PTL DEF PagedSpec

----------------------------------------------------------------------------
(* The links of a vault *)

\* A finite nonempty set of naturals has a greatest element: the one with the
\* fewest above it.
LEMMA GreatestNatural ==
    ASSUME NEW S \in SUBSET Nat, IsFiniteSet(S), S # {}
    PROVE  \E m \in S : \A k \in S : k <= m
<1> DEFINE Over(x) == {y \in S : x < y}
           Sizes == {Cardinality(Over(x)) : x \in S}
<1>1. \A x \in S : IsFiniteSet(Over(x)) /\ Cardinality(Over(x)) \in Nat
  <2>1. \A x \in S : Over(x) \in SUBSET S OBVIOUS
  <2>2. QED BY <2>1, FS_Subset, FS_CardinalityType
<1>2. Sizes \in SUBSET Nat /\ Sizes # {} BY <1>1
<1>3. PICK c \in Sizes : \A d \in Sizes : c <= d
  <2> HIDE DEF Sizes
  <2>1. QED BY <1>2, LeastNatural
<1>4. PICK m \in S : c = Cardinality(Over(m)) OBVIOUS
<1>5. ASSUME NEW k \in S, m < k PROVE FALSE
  <2>1. Over(k) \subseteq Over(m) /\ Over(k) # Over(m)
    <3>1. \A z \in S : k < z => m < z BY <1>5
    <3>2. k \in Over(m) /\ k \notin Over(k) BY <1>5
    <3>3. QED BY <3>1, <3>2
  <2>2. Cardinality(Over(k)) < Cardinality(Over(m))
    <3> HIDE DEF Over
    <3>1. Cardinality(Over(k)) <= Cardinality(Over(m)) /\ Cardinality(Over(k)) # Cardinality(Over(m))
      BY <1>1, <2>1, FS_Subset
    <3>2. QED BY <1>1, <1>5, <3>1
  <2>3. c <= Cardinality(Over(k)) BY <1>3
  <2>4. QED BY <1>1, <1>4, <2>2, <2>3
<1>6. QED BY <1>5

LEMMA NumberedIsSlug ==
    ASSUME NEW slug \in VaultSlugs, NEW i \in Nat
    PROVE  /\ Numbered(slug, i) \in VaultSlugs
           /\ \A j \in Nat : Numbered(slug, i) = Numbered(slug, j) => i = j
<1>1. slug.numbers \in Seq(Nat)
  BY DEF VaultSlugs
<1>2. \A n \in Nat : /\ Append(slug.numbers, n) \in Seq(Nat)
                     /\ Append(slug.numbers, n)[Len(slug.numbers) + 1] = n
  BY <1>1, AppendProperties
<1>3. Numbered(slug, i) \in VaultSlugs
  BY <1>1, <1>2 DEF Numbered, VaultSlugs
<1>4. ASSUME NEW j \in Nat, Numbered(slug, i) = Numbered(slug, j) PROVE i = j
  <2>1. Append(slug.numbers, i) = Append(slug.numbers, j)
    BY <1>4, <1>1 DEF Numbered, VaultSlugs
  <2>2. QED BY <2>1, <1>2
<1>5. QED BY <1>3, <1>4

\* The numbers tried are one more than the slugs that could be in the way, so
\* one of them is free.
LEMMA FreeSlugIsFree ==
    ASSUME NEW slug \in VaultSlugs, NEW used, IsFiniteSet(used)
    PROVE  FreeSlug(slug, used) \in VaultSlugs \ used
<1> DEFINE Last == 2 + Cardinality(used)
           Free == {i \in 2 .. Last : Numbered(slug, i) \notin used}
<1>1. CASE slug \notin used
  BY <1>1 DEF FreeSlug
<1>2. CASE slug \in used
  <2>0. Cardinality(used) \in Nat /\ Last \in Nat /\ 2 .. Last \subseteq Nat
    BY FS_CardinalityType
  <2>1. Free # {}
    <3>1. SUFFICES ASSUME \A i \in 2 .. Last : Numbered(slug, i) \in used PROVE FALSE
      OBVIOUS
    <3>2. PICK number : number = [i \in 2 .. Last |-> Numbered(slug, i)]
      OBVIOUS
    <3>3. number \in Injection(2 .. Last, used)
      <4>1. number \in [2 .. Last -> used]
        BY <3>1, <3>2
      <4>2. \A i, j \in 2 .. Last : number[i] = number[j] => i = j
        BY <3>2, <2>0, NumberedIsSlug
      <4>3. QED BY <4>1, <4>2 DEF Injection, IsInjective
    <3>4. Cardinality(2 .. Last) <= Cardinality(used)
      BY <3>3, FS_Injection
    <3>5. Cardinality(2 .. Last) = Cardinality(used) + 1
      BY <2>0, FS_Interval
    <3>6. QED BY <3>4, <3>5, <2>0
  <2>2. Free \subseteq Nat
    BY <2>0
  <2>3. \E i \in Free : \A j \in Free : i <= j
    BY <2>1, <2>2, LeastNatural
  <2>4. PICK i \in Free : FreeSlug(slug, used) = Numbered(slug, i)
    BY <1>2, <2>3 DEF FreeSlug
  <2>5. QED BY <2>2, <2>4, NumberedIsSlug
<1>3. QED BY <1>1, <1>2

\* What was written for a link is what its resolution among the files gives.
WrittenAsResolved ==
    link # NoLink =>
        /\ DOMAIN slugs = files
        /\ link.from \in files
        /\ LET hits == Resolve(link.from, link.typed)
           IN /\ link.how = IF hits = {} THEN "typed"
                            ELSE IF Cardinality(hits) > 1 THEN "missing" ELSE "slug"
              /\ link.to = IF Cardinality(hits) = 1 THEN slugs[CHOOSE f \in hits : TRUE] ELSE NoLink

\* No two files share a slug, and none has one of an older note.
SlugsAreOwn ==
    /\ \A f, g \in DOMAIN slugs : slugs[f] = slugs[g] => f = g
    /\ \A f \in DOMAIN slugs : slugs[f] \notin taken

VaultLinksInv ==
    /\ VaultLinksTypeOK
    /\ reading # "imported" => DOMAIN slugs = {} /\ link = NoLink
    /\ SlugsAreOwn
    /\ WrittenAsResolved

LEMMA VaultLinksInitially == VaultLinksInit => VaultLinksInv
BY DEF VaultLinksInit, VaultLinksInv, VaultLinksTypeOK, SlugsAreOwn, WrittenAsResolved

LEMMA UsedIsFinite ==
    ASSUME VaultLinksTypeOK
    PROVE  IsFiniteSet(files) /\ IsFiniteSet(Used)
<1>1. IsFiniteSet(files)
  BY VaultLinksAssumption, FS_Subset DEF VaultLinksTypeOK
<1>2. IsFiniteSet(DOMAIN slugs)
  BY <1>1, FS_Subset DEF VaultLinksTypeOK
<1>3. IsFiniteSet({slugs[f] : f \in DOMAIN slugs})
  <2>1. slugs \in Surjection(DOMAIN slugs, {slugs[f] : f \in DOMAIN slugs})
    BY DEF VaultLinksTypeOK, Surjection
  <2>2. QED BY <1>2, <2>1, FS_Surjection
<1>4. IsFiniteSet(taken)
  BY VaultLinksAssumption, FS_Subset DEF VaultLinksTypeOK
<1>5. QED BY <1>1, <1>3, <1>4, FS_Union DEF Used

\* A file gets a slug that neither an older note nor another file has.
LEMMA NameFileStep ==
    ASSUME VaultLinksInv, NEW f \in VaultFiles, NameFile(f)
    PROVE  VaultLinksInv'
<1> DEFINE slug == FreeSlug(KebabSlug[Paths[f].name], Used)
<1>1. slug \in VaultSlugs \ Used
  <2>1. KebabSlug[Paths[f].name] \in VaultSlugs
    BY VaultLinksAssumption DEF Path
  <2>2. QED BY <2>1, UsedIsFinite, FreeSlugIsFree DEF VaultLinksInv
<1> HIDE DEF slug
<1>2. /\ f \in files /\ f \notin DOMAIN slugs
      /\ DOMAIN slugs' = DOMAIN slugs \cup {f}
      /\ \A g \in DOMAIN slugs' : slugs'[g] = IF g = f THEN slug ELSE slugs[g]
      /\ reading = "imported"
      /\ UNCHANGED <<reading, files, taken, link>>
  BY DEF NameFile, slug
<1>3. \A g \in DOMAIN slugs : slugs[g] \in VaultSlugs
  BY DEF VaultLinksInv, VaultLinksTypeOK
<1>4. VaultLinksTypeOK'
  <2>1. slugs' = [g \in DOMAIN slugs' |-> slugs'[g]]
    BY DEF NameFile
  <2>2. slugs' \in [DOMAIN slugs' -> VaultSlugs]
    BY <2>1, <1>1, <1>2, <1>3
  <2>3. QED BY <1>2, <2>2 DEF VaultLinksInv, VaultLinksTypeOK
<1>5. SlugsAreOwn'
  BY <1>1, <1>2 DEF VaultLinksInv, SlugsAreOwn, Used
<1>6. link = NoLink
  BY <1>2 DEF VaultLinksInv, WrittenAsResolved
<1>7. QED BY <1>2, <1>4, <1>5, <1>6 DEF VaultLinksInv, WrittenAsResolved

LEMMA ResolveFindsFiles ==
    ASSUME NEW f \in files, NEW l \in Typed
    PROVE  Resolve(f, l) \subseteq files
BY DEF Resolve, ByPath, ByName

LEMMA ResolveIsOfFiles ==
    ASSUME NEW f, NEW l, files' = files
    PROVE  Resolve(f, l)' = Resolve(f, l)
BY DEF Resolve, ByPath, ByName

LEMMA RewriteStep ==
    ASSUME VaultLinksInv, NEW source \in VaultFiles, NEW l \in Typed, RewriteVaultLink(source, l)
    PROVE  VaultLinksInv'
<1> DEFINE hits == Resolve(source, l)
<1>1. hits \subseteq files /\ IsFiniteSet(hits) /\ hits' = hits
  BY ResolveFindsFiles, ResolveIsOfFiles, UsedIsFinite, FS_Subset DEF RewriteVaultLink, VaultLinksInv
<1>2. Cardinality(hits) = 1 => (CHOOSE f \in hits : TRUE) \in files
  BY <1>1, FS_EmptySet
<1>3. /\ link' = [from |-> source, typed |-> l,
                 how |-> IF hits = {} THEN "typed"
                         ELSE IF Cardinality(hits) > 1 THEN "missing" ELSE "slug",
                 to |-> IF Cardinality(hits) = 1 THEN slugs[CHOOSE f \in hits : TRUE] ELSE NoLink]
      /\ reading = "imported" /\ source \in files /\ DOMAIN slugs = files
      /\ UNCHANGED <<reading, files, taken, slugs>>
  BY DEF RewriteVaultLink
<1>4. Resolve(source, l)' = hits
  BY <1>1
<1> HIDE DEF hits
<1>5. link' \in WrittenLinks
  <2>1. Cardinality(hits) = 1 => slugs[CHOOSE f \in hits : TRUE] \in VaultSlugs
    BY <1>2, <1>3 DEF VaultLinksInv, VaultLinksTypeOK
  <2>2. QED BY <2>1, <1>3 DEF WrittenLinks
<1>6. VaultLinksTypeOK' /\ SlugsAreOwn'
  BY <1>3, <1>5 DEF VaultLinksInv, VaultLinksTypeOK, SlugsAreOwn
<1>7. WrittenAsResolved'
  <2>1. link'.from = source /\ link'.typed = l
    BY <1>3
  <2>2. Resolve(link.from, link.typed)' = hits
    BY <1>4, <2>1 DEF Resolve, ByPath, ByName, Joined
  <2>3. QED BY <1>3, <2>1, <2>2 DEF WrittenAsResolved
<1>8. QED BY <1>3, <1>6, <1>7 DEF VaultLinksInv

LEMMA VaultLinksStep == VaultLinksInv /\ [VaultLinksNext]_vaultLinksVars => VaultLinksInv'
<1> SUFFICES ASSUME VaultLinksInv, [VaultLinksNext]_vaultLinksVars PROVE VaultLinksInv'
  OBVIOUS
<1>1. ASSUME NEW f \in VaultFiles, ReadPart(f) PROVE VaultLinksInv'
  BY <1>1 DEF ReadPart, VaultLinksInv, VaultLinksTypeOK, SlugsAreOwn, WrittenAsResolved
<1>2. CASE Reject \/ BeginImport
  BY <1>2 DEF Reject, BeginImport, VaultLinksInv, VaultLinksTypeOK, SlugsAreOwn, WrittenAsResolved
<1>3. CASE UNCHANGED vaultLinksVars
  <2>1. UNCHANGED <<reading, files, taken, slugs, link>>
    BY <1>3 DEF vaultLinksVars
  <2>2. Resolve(link.from, link.typed)' = Resolve(link.from, link.typed)
    BY <2>1 DEF Resolve, ByPath, ByName, Joined
  <2>3. VaultLinksTypeOK' /\ SlugsAreOwn'
    BY <2>1 DEF VaultLinksInv, VaultLinksTypeOK, SlugsAreOwn
  <2>4. WrittenAsResolved'
    BY <2>1, <2>2 DEF VaultLinksInv, WrittenAsResolved
  <2>5. QED BY <2>1, <2>3, <2>4 DEF VaultLinksInv
<1>4. QED BY <1>1, <1>2, <1>3, NameFileStep, RewriteStep DEF VaultLinksNext

\* Of the files with one path but for the casing of the extension, the later one.
LEMMA ByPathIsOne ==
    ASSUME VaultLinksTypeOK, NEW dir, NEW name,
           {f \in ByName(name) : Paths[f].dir = dir} # {}
    PROVE  \E f \in ByName(name) : Paths[f].dir = dir /\ ByPath(dir, name) = {f}
<1> DEFINE In == {f \in ByName(name) : Paths[f].dir = dir}
<1>1. In \subseteq files /\ In \subseteq Nat /\ IsFiniteSet(In)
  BY VaultLinksAssumption, UsedIsFinite, FS_Subset DEF ByName, VaultLinksTypeOK
<1>2. PICK f \in In : \A g \in In : g <= f
  BY <1>1, GreatestNatural
<1>3. ByPath(dir, name) = {f}
  BY <1>1, <1>2 DEF ByPath
<1>4. QED BY <1>2, <1>3

\* A file's slug opens that file alone.
LEMMA SlugOpensFile ==
    ASSUME VaultLinksInv, link # NoLink, NEW f \in files,
           Resolve(link.from, link.typed) = {f}
    PROVE  Opened = {f}
<1>1. Cardinality({f}) = 1 /\ (CHOOSE g \in {f} : TRUE) = f
  BY FS_Singleton
<1>2. link.how = "slug" /\ link.to = slugs[f] /\ DOMAIN slugs = files
  BY <1>1 DEF VaultLinksInv, WrittenAsResolved
<1>3. QED BY <1>2 DEF Opened, VaultLinksInv, SlugsAreOwn

LEMMA OpensWhatItMeant == VaultLinksInv => LinkOpensItsFile
<1> SUFFICES ASSUME VaultLinksInv, link # NoLink, Meant # {}
             PROVE  \/ /\ \A f, g \in Meant : Paths[f].dir = Paths[g].dir
                       /\ \E f \in Meant : Opened = {f}
                    \/ link.typed.kind = "bare" /\ Cardinality(Meant) > 1 /\ Opened = {}
  BY DEF LinkOpensItsFile
<1> DEFINE l == link.typed
           In(dir) == {f \in ByName(l.name) : Paths[f].dir = dir}
<1>1. l.kind \in {"relative", "rooted", "bare", "markdown"}
  BY VaultLinksAssumption DEF VaultLinksInv, VaultLinksTypeOK, WrittenLinks, TypedLink
<1>2. ASSUME NEW dir, Meant = In(dir), Resolve(link.from, l) = ByPath(dir, l.name)
      PROVE  /\ \A f, g \in Meant : Paths[f].dir = Paths[g].dir
             /\ \E f \in Meant : Opened = {f}
  <2>1. PICK f \in ByName(l.name) : Paths[f].dir = dir /\ ByPath(dir, l.name) = {f}
    BY <1>2, ByPathIsOne DEF VaultLinksInv
  <2>2. Opened = {f}
    BY <1>2, <2>1, SlugOpensFile DEF ByName
  <2>3. QED BY <1>2, <2>1, <2>2
<1>3. CASE l.kind \in {"relative", "markdown"}
  <2>1. Meant = In(Joined(link.from, l)) /\ Resolve(link.from, l) = ByPath(Joined(link.from, l), l.name)
    BY <1>3 DEF Meant, Resolve
  <2>2. QED BY <1>2, <2>1
<1>4. CASE l.kind = "rooted"
  <2>1. Meant = In(l.dir) /\ Resolve(link.from, l) = ByPath(l.dir, l.name)
    BY <1>4 DEF Meant, Resolve
  <2>2. QED BY <1>2, <2>1
<1>5. CASE l.kind = "bare" /\ In(Paths[link.from].dir) # {}
  <2>1. ByPath(Paths[link.from].dir, l.name) # {}
    <3>1. VaultLinksTypeOK /\ In(Paths[link.from].dir) # {}
      BY <1>5 DEF VaultLinksInv
    <3>2. QED BY <3>1, ByPathIsOne
  <2>2. /\ Meant = In(Paths[link.from].dir)
        /\ Resolve(link.from, l) = ByPath(Paths[link.from].dir, l.name)
    BY <1>5, <2>1 DEF Meant, Resolve
  <2>3. QED BY <1>2, <2>2
<1>6. CASE l.kind = "bare" /\ In(Paths[link.from].dir) = {}
  <2>1. ByPath(Paths[link.from].dir, l.name) = {}
    BY <1>6 DEF ByPath
  <2>2. Meant = ByName(l.name) /\ Resolve(link.from, l) = ByName(l.name)
    BY <1>6, <2>1 DEF Meant, Resolve
  <2>3. IsFiniteSet(Meant) /\ Meant \subseteq files
    BY <2>2, UsedIsFinite, FS_Subset DEF ByName, VaultLinksInv
  <2>4. CASE Cardinality(Meant) > 1
    <3>1. link.how = "missing"
      BY <2>2, <2>4 DEF VaultLinksInv, WrittenAsResolved
    <3>2. QED BY <1>6, <2>4, <3>1 DEF Opened
  <2>5. CASE ~(Cardinality(Meant) > 1)
    <3>1. Cardinality(Meant) = 1
      BY <2>3, <2>5, FS_CardinalityType, FS_EmptySet
    <3>2. PICK f : Meant = {f}
      BY <2>3, <3>1, FS_Singleton
    <3>3. QED BY <2>2, <2>3, <3>2, SlugOpensFile
  <2>6. QED BY <2>4, <2>5
<1>7. QED BY <1>1, <1>3, <1>4, <1>5, <1>6

\* The types of VaultLinks, whatever the folder and the older notes.
THEOREM VaultLinksTypeCorrect == VaultLinksSpec => []VaultLinksTypeOK
<1>1. VaultLinksInv => VaultLinksTypeOK
  BY DEF VaultLinksInv
<1>2. QED BY VaultLinksInitially, VaultLinksStep, <1>1, PTL DEF VaultLinksSpec

\* Whatever the folders, names and older notes, a link between two files of a
\* vault opens the file it meant, or nothing when several have the name
\* (importVault, resolve, rewriteVaultLinks).
THEOREM LinksOpenTheirFiles == VaultLinksSpec => []LinkOpensItsFile
BY VaultLinksInitially, VaultLinksStep, OpensWhatItMeant, PTL DEF VaultLinksSpec

----------------------------------------------------------------------------
(* Links to a section *)

\* Part k of the anchor is what HeadingSubpath leaves of the heading chosen.
AnchorNames ==
    \A k \in DOMAIN named : anchor[k] = HeadingSubpath(outline[named[k]].text)

\* Of a link with one part: nothing looked at before the match has its name.
FirstOfItsName ==
    Len(named) = 1 =>
        /\ matched = << >> => \A j \in 1 .. lookedAt : ~SameName(j, named[1])
        /\ matched # << >> => /\ SameName(matched[1], named[1])
                              /\ \A j \in 1 .. matched[1] - 1 : ~SameName(j, named[1])

\* On a way down, what is matched is a beginning of it, and the rest is ahead.
DownSoFar ==
    WayDown =>
        /\ \A k \in 1 .. Len(matched) : matched[k] = named[k]
        /\ Len(matched) < Len(named) => named[Len(matched) + 1] > lookedAt

SectionsInv ==
    /\ SectionsTypeOK
    /\ AnchorNames
    /\ lookedAt = 0 => matched = << >>
    /\ FirstOfItsName
    /\ DownSoFar

LEMMA SectionsTypes ==
    ASSUME SectionsTypeOK
    PROVE  /\ Len(outline) \in Nat /\ DOMAIN outline = 1 .. Len(outline)
           /\ Len(named) \in Nat /\ DOMAIN named = 1 .. Len(named)
           /\ Len(matched) \in Nat /\ DOMAIN matched = 1 .. Len(matched)
           /\ lookedAt \in Nat /\ lookedAt <= Len(outline)
           /\ \A i \in 1 .. Len(outline) :
                  /\ outline[i].level \in 1 .. 6
                  /\ outline[i].text \in HeadingTexts
           /\ \A k \in 1 .. Len(named) : named[k] \in 1 .. Len(outline)
           /\ \A k \in 1 .. Len(matched) : matched[k] \in 1 .. lookedAt
           /\ \A k \in 1 .. Len(matched) : matched[k] \in 1 .. Len(outline)
<1>1. outline \in Seq(Heading) /\ named \in Seq(1 .. Len(outline)) /\ matched \in Seq(1 .. lookedAt)
      /\ lookedAt \in 0 .. Len(outline)
  BY DEF SectionsTypeOK
<1>2. Len(outline) \in Nat /\ DOMAIN outline = 1 .. Len(outline)
  BY <1>1
<1>3. \A i \in 1 .. Len(outline) : outline[i] \in Heading
  BY <1>1
<1>4. \A h \in Heading : h.level \in 1 .. 6 /\ h.text \in HeadingTexts
  BY SectionsAssumption DEF Heading
<1>5. \A k \in 1 .. Len(named) : named[k] \in 1 .. Len(outline)
  BY <1>1
<1>6. \A k \in 1 .. Len(matched) : matched[k] \in 1 .. lookedAt
  BY <1>1
<1>7. QED BY <1>1, <1>2, <1>3, <1>4, <1>5, <1>6

\* The breaks up to a syllable are counted one by one.
LEMMA BreaksAreCounted ==
    ASSUME NEW t, Text(t)
    PROVE  /\ Cardinality({j \in Breaks(t) : j <= 1}) = 0
           /\ \A k \in 1 .. Len(t.syllables) : Cardinality({j \in Breaks(t) : j <= k}) \in Nat
           /\ \A k \in 2 .. Len(t.syllables) :
                  Cardinality({j \in Breaks(t) : j <= k}) =
                      Cardinality({j \in Breaks(t) : j <= k - 1}) + (IF k \in Breaks(t) THEN 1 ELSE 0)
<1> DEFINE n == Len(t.syllables)
           UpTo(k) == {j \in Breaks(t) : j <= k}
<1>1. n \in Nat /\ Breaks(t) \subseteq 2 .. n
  BY DEF Text, Breaks
<1> HIDE DEF n
<1>2. UpTo(1) = {}
  BY <1>1
<1>3. \A k \in 1 .. n : IsFiniteSet(UpTo(k))
  <2>1. IsFiniteSet(2 .. n)
    BY <1>1, FS_Interval
  <2>2. \A k \in 1 .. n : UpTo(k) \subseteq 2 .. n
    BY <1>1
  <2>3. QED BY <2>1, <2>2, FS_Subset
<1>4. ASSUME NEW k \in 2 .. n
      PROVE  Cardinality(UpTo(k)) = Cardinality(UpTo(k - 1)) + (IF k \in Breaks(t) THEN 1 ELSE 0)
  <2>1. IsFiniteSet(UpTo(k - 1)) /\ k \notin UpTo(k - 1)
    <3>1. k - 1 \in 1 .. n /\ ~(k <= k - 1) BY <1>1
    <3>2. QED BY <1>3, <3>1
  <2>2. CASE k \in Breaks(t)
    <3>1. UpTo(k) = UpTo(k - 1) \cup {k}
      BY <1>1, <2>2
    <3> HIDE DEF UpTo
    <3>2. Cardinality(UpTo(k - 1) \cup {k}) = Cardinality(UpTo(k - 1)) + 1
      BY <2>1, FS_AddElement
    <3>3. QED BY <2>2, <3>1, <3>2
  <2>3. CASE k \notin Breaks(t)
    <3>1. UpTo(k) = UpTo(k - 1)
      BY <1>1, <2>3
    <3> HIDE DEF UpTo
    <3>2. Cardinality(UpTo(k - 1)) \in Nat
      BY <2>1, FS_CardinalityType
    <3>3. QED BY <2>3, <3>1, <3>2
  <2>4. QED BY <2>2, <2>3
<1>5. \A k \in 1 .. n : Cardinality(UpTo(k)) \in Nat
  <2> HIDE DEF UpTo
  <2>1. QED BY <1>3, FS_CardinalityType
<1>6. Cardinality(UpTo(1)) = 0
  <2> HIDE DEF UpTo
  <2>1. QED BY <1>2, FS_EmptySet
<1>7. QED BY <1>4, <1>5, <1>6 DEF n

LEMMA SubpathFields ==
    ASSUME NEW t, Text(t)
    PROVE  LET s == HeadingSubpath(t)
           IN /\ s.syllables = t.syllables
              /\ DOMAIN s.spaces = DOMAIN t.syllables
              /\ \A k \in DOMAIN t.syllables :
                     /\ s.spaces[k] = Cardinality({j \in Breaks(t) : j <= k})
                     /\ s.colons[k] = 0
BY DEF HeadingSubpath, Text

\* A subpath still matches its heading (subpath.go:64).
LEMMA SubpathMatches ==
    ASSUME NEW t \in HeadingTexts
    PROVE  NormalizeHeading(HeadingSubpath(t)) = NormalizeHeading(t)
<1> DEFINE s == HeadingSubpath(t)
           n == Len(t.syllables)
           C(k) == Cardinality({j \in Breaks(t) : j <= k})
<1>1. Text(t)
  BY SectionsAssumption
<1>2. n \in Nat /\ DOMAIN t.syllables = 1 .. n
  BY <1>1 DEF Text
<1>3. s.syllables = t.syllables /\ \A k \in 1 .. n : s.spaces[k] = C(k) /\ s.colons[k] = 0
  BY <1>1, <1>2, SubpathFields
<1>4. /\ \A k \in 1 .. n : C(k) \in Nat
      /\ \A k \in 2 .. n : C(k) = C(k - 1) + (IF k \in Breaks(t) THEN 1 ELSE 0)
  BY <1>1, BreaksAreCounted
<1> HIDE DEF s, C
<1>5. \A k \in 2 .. n : s.spaces[k] + s.colons[k] > s.spaces[k - 1] + s.colons[k - 1] <=> k \in Breaks(t)
  <2>1. SUFFICES ASSUME NEW k \in 2 .. n
                 PROVE s.spaces[k] + s.colons[k] > s.spaces[k - 1] + s.colons[k - 1] <=> k \in Breaks(t)
    OBVIOUS
  <2>2. k \in 1 .. n /\ k - 1 \in 1 .. n
    BY <1>2
  <2>3. /\ s.spaces[k] = C(k) /\ s.colons[k] = 0 /\ s.spaces[k - 1] = C(k - 1) /\ s.colons[k - 1] = 0
        /\ C(k) \in Nat /\ C(k - 1) \in Nat
        /\ C(k) = C(k - 1) + (IF k \in Breaks(t) THEN 1 ELSE 0)
    BY <1>3, <1>4, <2>2
  <2>4. QED BY <2>3
<1>6. Breaks(s) = {k \in 2 .. n : s.spaces[k] + s.colons[k] > s.spaces[k - 1] + s.colons[k - 1]}
  BY <1>3 DEF Breaks
<1>7. Breaks(t) \subseteq 2 .. n
  BY DEF Breaks
<1>8. Breaks(s) = Breaks(t)
  BY <1>5, <1>6, <1>7
<1>9. QED BY <1>3, <1>8 DEF NormalizeHeading, s

LEMMA SectionsInitially == SectionsInit => SectionsInv
<1> SUFFICES ASSUME SectionsInit PROVE SectionsInv
  OBVIOUS
<1>1. PICK n \in 0 .. MaxHeadings : outline \in [1 .. n -> Heading]
  BY DEF SectionsInit
<1>2. outline \in Seq(Heading) /\ Len(outline) = n
  BY <1>1, SectionsAssumption
<1>3. named = << >> /\ anchor = << >> /\ lookedAt = 0 /\ matched = << >>
  BY DEF SectionsInit
<1>4. SectionsTypeOK
  BY <1>1, <1>2, <1>3, SectionsAssumption DEF SectionsTypeOK
<1>5. AnchorNames /\ FirstOfItsName /\ DownSoFar
  BY <1>3 DEF AnchorNames, FirstOfItsName, DownSoFar
<1>6. QED BY <1>3, <1>4, <1>5 DEF SectionsInv

LEMMA ChooseStep ==
    ASSUME SectionsInv, NEW i \in 1 .. MaxHeadings, ChooseHeading(i)
    PROVE  SectionsInv'
<1> USE SectionsTypes DEF SectionsInv
<1>1. /\ i \in 1 .. Len(outline) /\ lookedAt = 0 /\ matched = << >>
      /\ UNCHANGED <<outline, lookedAt, matched>>
  BY DEF ChooseHeading
<1>2. /\ named' \in Seq(DOMAIN outline) /\ Len(named') = Len(named) + 1
      /\ \A k \in 1 .. Len(named) : named'[k] = named[k]
      /\ named'[Len(named) + 1] = i
      /\ Len(named) < MaxParts
  BY <1>1 DEF ChooseHeading, SectionsTypeOK
<1>3. DOMAIN anchor' = DOMAIN named'
  BY <1>1 DEF ChooseHeading, SectionsTypeOK
<1>4. \A k \in 1 .. Len(named) : anchor'[k] = anchor[k]
  BY DEF ChooseHeading, SectionsTypeOK
<1>5. anchor'[Len(named) + 1] = HeadingSubpath(outline[i].text)
  BY DEF ChooseHeading, SectionsTypeOK
<1>6. SectionsTypeOK'
  BY <1>1, <1>2, <1>3, SectionsAssumption DEF SectionsTypeOK
<1>7. QED
  BY <1>1, <1>2, <1>4, <1>5, <1>6 DEF AnchorNames, FirstOfItsName, DownSoFar

LEMMA MatchStep == SectionsInv /\ MatchHeading => SectionsInv'
<1> SUFFICES ASSUME SectionsInv, MatchHeading PROVE SectionsInv'
  OBVIOUS
<1> DEFINE h == lookedAt + 1
           m == Len(matched)
           part == anchor[m + 1]
           fits == Fits(outline[h], LevelMatched, part)
<1>1. SectionsTypeOK
  BY DEF SectionsInv
<1>2. /\ Len(outline) \in Nat /\ DOMAIN outline = 1 .. Len(outline)
      /\ Len(named) \in Nat /\ DOMAIN named = 1 .. Len(named)
      /\ m \in Nat /\ lookedAt \in Nat /\ h \in 1 .. Len(outline)
      /\ m < Len(named)
  <2>1. Len(anchor) = Len(named)
    BY <1>1, SectionsTypes DEF SectionsTypeOK
  <2>2. QED BY <1>1, <2>1, SectionsTypes DEF MatchHeading
<1>3. /\ UNCHANGED <<outline, named, anchor>>
      /\ lookedAt' = h
      /\ matched' = IF fits THEN Append(matched, h) ELSE matched
  BY DEF MatchHeading
<1>4. /\ named[m + 1] \in 1 .. Len(outline)
      /\ part = HeadingSubpath(outline[named[m + 1]].text)
      /\ outline[named[m + 1]].text \in HeadingTexts
  <2>1. m + 1 \in 1 .. Len(named)
    BY <1>2
  <2>2. named[m + 1] \in 1 .. Len(outline)
    BY <1>1, <2>1, SectionsTypes
  <2>3. outline[named[m + 1]].text \in HeadingTexts
    BY <1>1, <2>2, SectionsTypes
  <2>4. part = HeadingSubpath(outline[named[m + 1]].text)
    BY <1>2, <2>1 DEF SectionsInv, AnchorNames
  <2>5. QED BY <2>2, <2>3, <2>4
<1>5. fits <=> outline[h].level > LevelMatched /\ SameName(h, named[m + 1])
  BY <1>4, SubpathMatches DEF Fits, SameName
<1>6. /\ outline[h].level \in 1 .. 6
      /\ matched # << >> => /\ m \in 1 .. m /\ matched[m] \in 1 .. Len(outline)
                            /\ LevelMatched = outline[matched[m]].level
      /\ matched = << >> => LevelMatched = 0 /\ m = 0
  <2>1. matched # << >> => m \in 1 .. m
    BY <1>1, <1>2, EmptySeq DEF SectionsTypeOK
  <2>2. QED BY <1>1, <1>2, <2>1, SectionsTypes DEF LevelMatched
<1> HIDE DEF fits, part
<1>a. matched \in Seq(1 .. h) /\ h \in 1 .. h
  <2>1. matched \in Seq(1 .. lookedAt)
    BY <1>1 DEF SectionsTypeOK
  <2>2. 1 .. lookedAt \subseteq 1 .. h /\ h \in 1 .. h
    BY <1>2
  <2>3. QED BY <2>1, <2>2, SeqMonotonic
<1>7. fits => /\ matched' \in Seq(1 .. h) /\ Len(matched') = m + 1
              /\ matched'[m + 1] = h /\ \A k \in 1 .. m : matched'[k] = matched[k]
  BY <1>2, <1>3, <1>a, AppendProperties
<1>8. ~fits => matched' = matched /\ matched' \in Seq(1 .. h)
  BY <1>3, <1>a
<1>9. SectionsTypeOK'
  BY <1>1, <1>2, <1>3, <1>7, <1>8 DEF SectionsTypeOK
<1>10. \A i, j : SameName(i, j)' <=> SameName(i, j)
  BY <1>3 DEF SameName
<1>11. FirstOfItsName'
  <2>1. SUFFICES ASSUME Len(named) = 1
                 PROVE  /\ matched' = << >> => \A j \in 1 .. h : ~SameName(j, named[1])
                        /\ matched' # << >> => /\ SameName(matched'[1], named[1])
                                               /\ \A j \in 1 .. matched'[1] - 1 : ~SameName(j, named[1])
    BY <1>3, <1>10 DEF FirstOfItsName
  <2>2. m = 0 /\ matched = << >>
    BY <1>1, <1>2, <2>1, EmptySeq DEF SectionsTypeOK
  <2>3. \A j \in 1 .. lookedAt : ~SameName(j, named[1])
    BY <2>1, <2>2 DEF SectionsInv, FirstOfItsName
  <2>4. fits <=> SameName(h, named[1])
    BY <1>5, <1>6, <2>2
  <2>5. CASE fits
    <3>1. Len(matched') = 1 /\ matched'[1] = h BY <1>7, <2>2, <2>5
    <3>3. matched' # << >> BY <3>1
    <3>2. QED BY <1>2, <2>3, <2>4, <2>5, <3>1, <3>3
  <2>6. CASE ~fits
    BY <1>2, <1>8, <2>2, <2>3, <2>4, <2>6
  <2>7. QED BY <2>5, <2>6
<1>12. DownSoFar'
  <2>1. SUFFICES ASSUME WayDown
                 PROVE  /\ \A k \in 1 .. Len(matched') : matched'[k] = named[k]
                        /\ Len(matched') < Len(named) => named[Len(matched') + 1] > h
    BY <1>3, <1>10 DEF DownSoFar, WayDown
  <2>2. /\ \A k \in 1 .. m : matched[k] = named[k]
        /\ named[m + 1] > lookedAt
    BY <1>2, <2>1 DEF SectionsInv, DownSoFar
  <2>3. fits <=> h = named[m + 1]
    <3>1. fits => h = named[m + 1]
      <4>1. SameName(h, named[m + 1]) <=> SameName(named[m + 1], h) BY DEF SameName
      <4>2. m + 1 \in DOMAIN named /\ h \in DOMAIN outline BY <1>2
      <4>3. QED BY <1>5, <2>1, <4>1, <4>2 DEF WayDown
    <3>2. ASSUME h = named[m + 1] PROVE fits
      <4>1. SameName(h, named[m + 1]) BY <3>2 DEF SameName
      <4>2. outline[h].level > LevelMatched
        <5>1. CASE matched = << >>
          BY <1>6, <5>1
        <5>2. CASE matched # << >>
          <6>1. LevelMatched = outline[named[m]].level /\ m \in 1 .. m BY <1>6, <2>2, <5>2
          <6>2. m \in DOMAIN named /\ m + 1 \in DOMAIN named /\ m < m + 1 BY <1>2, <6>1
          <6>3. outline[named[m]].level < outline[named[m + 1]].level
            BY <2>1, <6>2 DEF WayDown
          <6>4. named[m] \in 1 .. Len(outline) BY <1>1, <1>2, <6>2, SectionsTypes
          <6>5. outline[named[m]].level \in 1 .. 6 BY <1>1, <6>4, SectionsTypes
          <6>6. QED BY <1>6, <3>2, <6>1, <6>3, <6>5
        <5>3. QED BY <5>1, <5>2
      <4>3. QED BY <1>5, <4>1, <4>2
    <3>3. QED BY <3>1, <3>2
  <2>4. CASE fits
    <3>1. \A k \in 1 .. m + 1 : matched'[k] = named[k]
      BY <1>2, <1>7, <2>2, <2>3, <2>4
    <3>2. m + 1 < Len(named) => named[m + 2] > h
      <4>1. SUFFICES ASSUME m + 1 < Len(named) PROVE named[m + 2] > h
        OBVIOUS
      <4>2. m + 1 \in DOMAIN named /\ m + 2 \in DOMAIN named /\ m + 1 < m + 2
        BY <1>2, <4>1
      <4>3. named[m + 1] < named[m + 2]
        BY <2>1, <4>2 DEF WayDown
      <4>4. named[m + 2] \in Nat /\ h \in Nat
        BY <1>1, <1>2, <4>2, SectionsTypes
      <4>5. QED BY <2>3, <2>4, <4>3, <4>4
    <3>3. QED BY <1>2, <1>7, <2>4, <3>1, <3>2
  <2>5. CASE ~fits
    BY <1>2, <1>4, <1>8, <2>2, <2>3, <2>5
  <2>6. QED BY <2>4, <2>5
<1>13. AnchorNames' /\ lookedAt' # 0
  BY <1>2, <1>3 DEF SectionsInv, AnchorNames
<1>14. QED BY <1>9, <1>11, <1>12, <1>13 DEF SectionsInv

LEMMA SectionsStep == SectionsInv /\ [SectionsNext]_sectionsVars => SectionsInv'
<1>1. SectionsInv /\ UNCHANGED sectionsVars => SectionsInv'
  BY DEF SectionsInv, SectionsTypeOK, AnchorNames, FirstOfItsName, DownSoFar, WayDown, SameName,
         sectionsVars
<1>2. QED BY <1>1, ChooseStep, MatchStep DEF SectionsNext

\* A section ends where the first heading follows that is not under its own.
LEMMA SectionIsWhatIsUnder ==
    ASSUME SectionsTypeOK, NEW i \in 1 .. Len(outline), NEW j \in i + 1 .. Len(outline)
    PROVE  j < SectionEnd(i) <=> Under(i, j)
<1> DEFINE Ends == {k \in DOMAIN outline : k > i /\ outline[k].level <= outline[i].level}
           end == SectionEnd(i)
<1>1. /\ Len(outline) \in Nat /\ DOMAIN outline = 1 .. Len(outline)
      /\ \A k \in 1 .. Len(outline) : outline[k].level \in 1 .. 6
  BY SectionsTypes
<1>2. CASE Ends = {}
  <2>1. end = Len(outline) + 1
    BY <1>2 DEF SectionEnd
  <2>2. \A k \in i + 1 .. j : k \in 1 .. Len(outline) /\ k > i /\ k \notin Ends
    BY <1>1, <1>2
  <2>3. \A k \in i + 1 .. j : outline[i].level < outline[k].level
    BY <1>1, <2>2
  <2>4. QED BY <1>1, <2>1, <2>3 DEF Under
<1>3. CASE Ends # {}
  <2>1. Ends \in SUBSET Nat
    BY <1>1
  <2>2. end \in Ends /\ \A k \in Ends : end <= k
    <3>1. \E e \in Ends : \A k \in Ends : e <= k
      BY <1>3, <2>1, LeastNatural
    <3>2. end = CHOOSE e \in Ends : \A k \in Ends : e <= k
      BY <1>3 DEF SectionEnd
    <3>3. QED BY <3>1, <3>2
  <2>3. end \in i + 1 .. Len(outline) /\ outline[end].level <= outline[i].level
    BY <1>1, <2>2
  <2>4. ASSUME j < end PROVE Under(i, j)
    <3>1. \A k \in i + 1 .. j : k \in 1 .. Len(outline) /\ k > i /\ k \notin Ends
      <4> HIDE DEF Ends, end
      <4>1. \A k \in i + 1 .. j : k \in 1 .. Len(outline) /\ k > i /\ ~(end <= k)
        BY <1>1, <2>3, <2>4
      <4>2. QED BY <2>2, <4>1
    <3>2. \A k \in i + 1 .. j : outline[i].level < outline[k].level
      BY <1>1, <3>1
    <3>3. QED BY <1>1, <3>2 DEF Under
  <2>5. ASSUME Under(i, j) PROVE j < end
    <3> HIDE DEF end
    <3>1. \A k \in i + 1 .. j : outline[i].level < outline[k].level
      BY <2>5 DEF Under
    <3>2. outline[end].level \in 1 .. 6 /\ outline[i].level \in 1 .. 6
      BY <1>1, <2>3
    <3>3. end \notin i + 1 .. j
      BY <2>3, <3>1, <3>2
    <3>4. QED BY <1>1, <2>3, <3>3
  <2>6. QED BY <2>4, <2>5
<1>4. QED BY <1>2, <1>3

\* Without links, everything is kept.
LEMMA IdOfPlain ==
    ASSUME NEW t, Text(t), t.links = {}
    PROVE  Id(t) = HeadingAnchor(t)
<1> DEFINE n == Len(t.syllables)
           kept == DOMAIN t.syllables \ t.links
           place == [i \in 1 .. Cardinality(kept) |->
                        CHOOSE k \in kept : Cardinality({j \in kept : j <= k}) = i]
<1>1. n \in Nat \ {0} /\ DOMAIN t.syllables = 1 .. n
  BY EmptySeq DEF Text
<1>2. kept = 1 .. n
  BY <1>1
<1> HIDE DEF n, kept
<1>3. Cardinality(kept) = n
  <2>1. Cardinality(1 .. n) = n
    BY <1>1, FS_Interval
  <2>2. QED BY <1>2, <2>1
<1>4. \A k \in 1 .. n : Cardinality({j \in kept : j <= k}) = k
  <2>1. SUFFICES ASSUME NEW k \in 1 .. n PROVE Cardinality({j \in kept : j <= k}) = k
    OBVIOUS
  <2>2. {j \in kept : j <= k} = 1 .. k
    BY <1>1, <1>2
  <2>3. Cardinality(1 .. k) = k
    BY <1>1, FS_Interval
  <2>4. QED BY <2>2, <2>3
<1>5. \A i \in 1 .. n : place[i] = i
  <2>1. SUFFICES ASSUME NEW i \in 1 .. n PROVE place[i] = i
    OBVIOUS
  <2>2. place[i] = CHOOSE k \in 1 .. n : Cardinality({j \in kept : j <= k}) = i
    BY <1>2, <1>3
  <2>3. \A k \in 1 .. n : Cardinality({j \in kept : j <= k}) = i <=> k = i
    BY <1>4
  <2>4. QED BY <2>2, <2>3
<1>6. DOMAIN place = 1 .. n
  BY <1>3
<1>c. CollectText(t) = [syllables |-> [i \in DOMAIN place |-> t.syllables[place[i]]],
                        spaces |-> [i \in DOMAIN place |-> t.spaces[place[i]]],
                        colons |-> [i \in DOMAIN place |-> t.colons[place[i]]],
                        links |-> {}]
  BY DEF CollectText, kept
<1> HIDE DEF place
<1>7. /\ CollectText(t).syllables = [i \in 1 .. n |-> t.syllables[i]]
      /\ CollectText(t).spaces = [i \in 1 .. n |-> t.spaces[i]]
  BY <1>5, <1>6, <1>c
<1>8. CollectText(t).syllables = t.syllables /\ CollectText(t).spaces = t.spaces
  <2>1. [i \in 1 .. n |-> t.spaces[i]] = t.spaces
    BY <1>1 DEF Text
  <2>2. [i \in 1 .. n |-> t.syllables[i]] = t.syllables
    BY <1>1 DEF Text
  <2>3. QED BY <1>7, <2>1, <2>2
<1>9. HeadingAnchor(CollectText(t)) = HeadingAnchor(t)
  BY <1>8 DEF HeadingAnchor
<1>10. DOMAIN t.syllables # t.links
  <2>1. 1 \in DOMAIN t.syllables
    BY <1>1
  <2>2. QED BY <2>1
<1>11. QED BY <1>9, <1>10 DEF Id

\* Between the words of a plain heading there is one space.
LEMMA SpacesOfPlain ==
    ASSUME NEW t, Text(t), PlainHeading(t)
    PROVE  /\ \A k \in 2 .. Len(t.syllables) : k \in Breaks(t) <=> t.spaces[k] > t.spaces[k - 1]
           /\ \A k \in 1 .. Len(t.syllables) :
                  t.spaces[k] - t.spaces[1] = Cardinality({j \in Breaks(t) : j <= k})
<1> DEFINE n == Len(t.syllables)
           C(k) == Cardinality({j \in Breaks(t) : j <= k})
           Bad == {k \in 1 .. n : t.spaces[k] - t.spaces[1] # C(k)}
<1>1. /\ n \in Nat \ {0}
      /\ \A k \in 1 .. n : t.spaces[k] \in Nat /\ t.colons[k] \in Nat
      /\ \A k \in 2 .. n : t.spaces[k - 1] <= t.spaces[k] /\ t.colons[k - 1] <= t.colons[k]
  BY EmptySeq DEF Text
<1>2. /\ C(1) = 0
      /\ \A k \in 1 .. n : C(k) \in Nat
      /\ \A k \in 2 .. n : C(k) = C(k - 1) + (IF k \in Breaks(t) THEN 1 ELSE 0)
  BY BreaksAreCounted
<1>3. \A k \in 2 .. n :
          k \in Breaks(t) <=> t.spaces[k] + t.colons[k] > t.spaces[k - 1] + t.colons[k - 1]
  BY DEF Breaks
<1>4. \A k \in 2 .. n : k \in Breaks(t) => t.spaces[k] = t.spaces[k - 1] + 1
  BY DEF PlainHeading
<1> HIDE DEF C, n
<1>5. ASSUME NEW k \in 2 .. n
      PROVE  /\ k \in Breaks(t) <=> t.spaces[k] > t.spaces[k - 1]
             /\ t.spaces[k] = t.spaces[k - 1] + (IF k \in Breaks(t) THEN 1 ELSE 0)
  <2>1. /\ k \in 1 .. n /\ k - 1 \in 1 .. n
    BY <1>1
  <2>2. /\ t.spaces[k] \in Nat /\ t.colons[k] \in Nat /\ t.spaces[k - 1] \in Nat /\ t.colons[k - 1] \in Nat
        /\ t.spaces[k - 1] <= t.spaces[k] /\ t.colons[k - 1] <= t.colons[k]
    BY <1>1, <2>1
  <2>3. CASE k \in Breaks(t)
    BY <1>4, <2>2, <2>3
  <2>4. CASE k \notin Breaks(t)
    <3>1. ~(t.spaces[k] + t.colons[k] > t.spaces[k - 1] + t.colons[k - 1])
      BY <1>3, <2>4
    <3>2. QED BY <2>2, <2>4, <3>1
  <2>5. QED BY <2>3, <2>4
<1>6. Bad = {}
  <2>1. SUFFICES ASSUME Bad # {} PROVE FALSE
    OBVIOUS
  <2>2. Bad \in SUBSET Nat
    BY <1>1
  <2>3. PICK k \in Bad : \A j \in Bad : k <= j
    <3> HIDE DEF Bad
    <3>1. QED BY <2>1, <2>2, LeastNatural
  <2>4. k \in 1 .. n /\ t.spaces[k] - t.spaces[1] # C(k)
    OBVIOUS
  <2>5. k # 1
    BY <1>1, <1>2, <2>4
  <2>6. k \in 2 .. n /\ k - 1 \in 1 .. n /\ k - 1 \notin Bad
    <3>1. k \in 2 .. n /\ k - 1 \in 1 .. n /\ ~(k <= k - 1)
      BY <1>1, <2>4, <2>5
    <3> HIDE DEF Bad
    <3>2. QED BY <2>3, <3>1
  <2>7. t.spaces[k - 1] - t.spaces[1] = C(k - 1)
    BY <2>6
  <2>8. /\ t.spaces[k] = t.spaces[k - 1] + (IF k \in Breaks(t) THEN 1 ELSE 0)
        /\ C(k) = C(k - 1) + (IF k \in Breaks(t) THEN 1 ELSE 0)
        /\ t.spaces[k - 1] \in Nat /\ t.spaces[1] \in Nat /\ C(k - 1) \in Nat
    <3>1. 1 \in 1 .. n
      BY <1>1
    <3>2. QED BY <1>1, <1>2, <1>5, <2>6, <3>1
  <2>9. QED BY <2>4, <2>7, <2>8
<1>7. \A k \in 1 .. n : t.spaces[k] - t.spaces[1] = C(k)
  BY <1>6
<1>8. QED BY <1>5, <1>7 DEF n, C

\* A plain heading and its subpath have one id.
LEMMA AnchorOfSubpath ==
    ASSUME NEW t, Text(t), PlainHeading(t)
    PROVE  HeadingAnchor(HeadingSubpath(t)) = HeadingAnchor(t)
<1> DEFINE n == Len(t.syllables)
           s == HeadingSubpath(t)
           C(k) == Cardinality({j \in Breaks(t) : j <= k})
<1>1. n \in Nat \ {0} /\ DOMAIN t.syllables = 1 .. n
  BY EmptySeq DEF Text
<1>2. s.syllables = t.syllables /\ \A k \in 1 .. n : s.spaces[k] = C(k)
  BY <1>1, SubpathFields
<1>3. C(1) = 0 /\ \A k \in 1 .. n : C(k) \in Nat
  BY BreaksAreCounted
<1>4. \A k \in 1 .. n : t.spaces[k] - t.spaces[1] = C(k)
  BY SpacesOfPlain
<1> HIDE DEF n, s, C
<1>5. \A k \in 1 .. n : s.spaces[k] - s.spaces[1] = t.spaces[k] - t.spaces[1]
  <2>1. 1 \in 1 .. n
    BY <1>1
  <2>2. QED BY <1>2, <1>3, <1>4, <2>1
<1>6. [k \in DOMAIN s.syllables |-> s.spaces[k] - s.spaces[1]]
          = [k \in DOMAIN t.syllables |-> t.spaces[k] - t.spaces[1]]
  BY <1>1, <1>2, <1>5
<1>7. QED BY <1>2, <1>6 DEF HeadingAnchor, s

\* A plain heading has the id that its link names, and a plain heading with that
\* id has its name.
LEMMA ClickLands ==
    ASSUME SectionsInv, NEW i \in 1 .. Len(outline), PlainHeading(outline[i].text)
    PROVE  LET part == HeadingSubpath(outline[i].text)
           IN /\ i \in Landing(part)
              /\ \A j \in Landing(part) : SameName(j, i) \/ ~PlainHeading(outline[j].text)
<1> DEFINE t == outline[i].text
           part == HeadingSubpath(t)
<1>1. /\ Len(outline) \in Nat /\ DOMAIN outline = 1 .. Len(outline)
      /\ \A k \in 1 .. Len(outline) : Text(outline[k].text)
  BY SectionsTypes, SectionsAssumption DEF SectionsInv
<1>2. \A k \in 1 .. Len(outline) :
          PlainHeading(outline[k].text) => Id(outline[k].text) = HeadingAnchor(outline[k].text)
  BY <1>1, IdOfPlain DEF PlainHeading
<1>3. HeadingAnchor(part) = HeadingAnchor(t)
  BY <1>1, AnchorOfSubpath
<1>4. i \in Landing(part)
  BY <1>1, <1>2, <1>3 DEF Landing
<1>5. ASSUME NEW j \in Landing(part), PlainHeading(outline[j].text) PROVE SameName(j, i)
  <2> DEFINE u == outline[j].text
  <2>1. j \in 1 .. Len(outline) /\ Id(u) = HeadingAnchor(part)
    BY <1>1 DEF Landing
  <2>2. HeadingAnchor(u) = HeadingAnchor(t)
    BY <1>2, <1>3, <1>5, <2>1
  <2>3. Text(u) /\ Text(t) /\ PlainHeading(u) /\ PlainHeading(t)
    BY <1>1, <1>5, <2>1
  <2> HIDE DEF u, t, part
  <2>4. u.syllables = t.syllables
    BY <2>2 DEF HeadingAnchor
  <2> DEFINE n == Len(t.syllables)
  <2>5. n \in Nat \ {0} /\ DOMAIN t.syllables = 1 .. n
    BY <2>3, EmptySeq DEF Text
  <2>6. \A k \in 1 .. n : u.spaces[k] - u.spaces[1] = t.spaces[k] - t.spaces[1]
    <3>1. [k \in 1 .. n |-> u.spaces[k] - u.spaces[1]] = [k \in 1 .. n |-> t.spaces[k] - t.spaces[1]]
      BY <2>2, <2>4, <2>5 DEF HeadingAnchor
    <3>2. QED BY <3>1
  <2>7. \A k \in 1 .. n : u.spaces[k] \in Nat /\ t.spaces[k] \in Nat
    BY <2>3, <2>4 DEF Text
  <2>8. /\ \A k \in 2 .. n : k \in Breaks(u) <=> u.spaces[k] > u.spaces[k - 1]
        /\ \A k \in 2 .. n : k \in Breaks(t) <=> t.spaces[k] > t.spaces[k - 1]
    BY <2>3, <2>4, SpacesOfPlain
  <2>9. \A k \in 2 .. n : k \in Breaks(u) <=> k \in Breaks(t)
    <3> HIDE DEF n
    <3>1. SUFFICES ASSUME NEW k \in 2 .. n PROVE k \in Breaks(u) <=> k \in Breaks(t)
      OBVIOUS
    <3>2. k \in 1 .. n /\ k - 1 \in 1 .. n /\ 1 \in 1 .. n
      BY <2>5
    <3>3. /\ u.spaces[k] - u.spaces[1] = t.spaces[k] - t.spaces[1]
          /\ u.spaces[k - 1] - u.spaces[1] = t.spaces[k - 1] - t.spaces[1]
          /\ u.spaces[k] \in Nat /\ t.spaces[k] \in Nat /\ u.spaces[k - 1] \in Nat /\ t.spaces[k - 1] \in Nat
          /\ u.spaces[1] \in Nat /\ t.spaces[1] \in Nat
      BY <2>6, <2>7, <3>2
    <3>4. u.spaces[k] > u.spaces[k - 1] <=> t.spaces[k] > t.spaces[k - 1]
      <4> DEFINE a == u.spaces[k]
                 b == u.spaces[k - 1]
                 c == t.spaces[k]
                 d == t.spaces[k - 1]
                 e == u.spaces[1]
                 f == t.spaces[1]
      <4>1. a - e = c - f /\ b - e = d - f /\ \A x \in {a, b, c, d, e, f} : x \in Nat
        BY <3>3
      <4> HIDE DEF a, b, c, d, e, f
      <4>2. a > b <=> c > d
        BY <4>1
      <4>3. QED BY <4>2 DEF a, b, c, d
    <3>5. QED BY <2>8, <3>4
  <2>10. Breaks(u) = Breaks(t)
    <3>1. Breaks(u) \subseteq 2 .. n /\ Breaks(t) \subseteq 2 .. n
      BY <2>4 DEF Breaks
    <3>2. QED BY <2>9, <3>1
  <2>11. QED BY <2>4, <2>10 DEF SameName, NormalizeHeading, u, t
<1>6. QED BY <1>4, <1>5

LEMMA OfferedIsFound == SectionsInv => OfferedHeadingIsFound
<1> SUFFICES ASSUME SectionsInv, named # << >>
             PROVE  LET last == matched[Len(matched)]
                        chosen == named[Len(named)]
                        landing == Landing(anchor[Len(anchor)])
                    IN /\ Len(matched) = Len(anchor) \/ lookedAt = Len(outline) =>
                              /\ WayDown => matched = named
                              /\ Len(named) = 1 => /\ Len(matched) = 1
                                                   /\ SameName(last, chosen)
                                                   /\ \A j \in 1 .. last - 1 : ~SameName(j, chosen)
                              /\ matched # << >> =>
                                     \A j \in last + 1 .. Len(outline) : j < SectionEnd(last) <=> Under(last, j)
                       /\ PlainHeading(outline[chosen].text) =>
                              /\ chosen \in landing
                              /\ \A j \in landing : SameName(j, chosen) \/ ~PlainHeading(outline[j].text)
  BY DEF OfferedHeadingIsFound
<1> DEFINE n == Len(named)
           m == Len(matched)
           last == matched[m]
           chosen == named[n]
<1>1. SectionsTypeOK
  BY DEF SectionsInv
<1>2. /\ Len(outline) \in Nat /\ n \in Nat /\ m \in Nat /\ lookedAt \in Nat
      /\ n >= 1 /\ m <= n /\ Len(anchor) = n
      /\ matched # << >> => m >= 1
      /\ lookedAt <= Len(outline)
  <2>1. n >= 1 /\ Len(anchor) = n /\ (matched # << >> => m >= 1) /\ m <= n
    BY <1>1, EmptySeq DEF SectionsTypeOK
  <2>2. QED BY <1>1, <2>1, SectionsTypes
<1>3. /\ \A k \in 1 .. n : named[k] \in 1 .. Len(outline)
      /\ \A k \in 1 .. m : matched[k] \in 1 .. Len(outline) /\ matched[k] <= lookedAt
  BY <1>1, SectionsTypes
<1>4. chosen \in 1 .. Len(outline) /\ (matched # << >> => last \in 1 .. Len(outline))
  BY <1>2, <1>3
<1>5. ASSUME m = n \/ lookedAt = Len(outline), WayDown PROVE matched = named
  <2>1. /\ \A k \in 1 .. m : matched[k] = named[k]
        /\ m < n => named[m + 1] > lookedAt
    BY <1>5 DEF SectionsInv, DownSoFar
  <2>2. ~(m < n)
    <3>1. SUFFICES ASSUME m < n PROVE FALSE
      OBVIOUS
    <3>2. m + 1 \in 1 .. n
      BY <1>2, <3>1
    <3>3. named[m + 1] \in 1 .. Len(outline)
      BY <1>3, <3>2
    <3>4. QED BY <1>2, <1>5, <2>1, <3>1, <3>3
  <2>3. m = n
    BY <1>2, <2>2
  <2>4. matched \in Seq(1 .. lookedAt) /\ named \in Seq(1 .. Len(outline))
    BY <1>1, SectionsTypes DEF SectionsTypeOK
  <2>5. 1 .. lookedAt \subseteq Nat /\ 1 .. Len(outline) \subseteq Nat
    BY <1>2
  <2>6. matched \in Seq(Nat) /\ named \in Seq(Nat)
    BY <2>4, <2>5, SeqMonotonic
  <2>7. Len(matched) = Len(named) /\ \A k \in 1 .. Len(matched) : matched[k] = named[k]
    BY <2>1, <2>3
  <2>8. QED BY <2>6, <2>7, SeqEqual
<1>6. ASSUME m = n \/ lookedAt = Len(outline), n = 1
      PROVE  m = 1 /\ SameName(last, chosen) /\ \A j \in 1 .. last - 1 : ~SameName(j, chosen)
  <2>1. matched # << >>
    <3>1. SUFFICES ASSUME matched = << >> PROVE FALSE
      OBVIOUS
    <3>2. \A j \in 1 .. lookedAt : ~SameName(j, chosen)
      BY <1>6, <3>1 DEF SectionsInv, FirstOfItsName
    <3>3. lookedAt = Len(outline)
      BY <1>2, <1>6, <3>1
    <3>4. SameName(chosen, chosen)
      BY DEF SameName
    <3>5. QED BY <1>4, <3>2, <3>3, <3>4
  <2>2. m = 1
    BY <1>2, <1>6, <2>1
  <2>3. QED BY <1>6, <2>1, <2>2 DEF SectionsInv, FirstOfItsName
<1>7. ASSUME matched # << >>, NEW j \in last + 1 .. Len(outline)
      PROVE  j < SectionEnd(last) <=> Under(last, j)
  BY <1>1, <1>4, <1>7, SectionIsWhatIsUnder
<1>8. anchor[Len(anchor)] = HeadingSubpath(outline[chosen].text)
  <2>1. n \in DOMAIN named
    BY <1>1, <1>2, SectionsTypes
  <2>2. QED BY <1>2, <2>1 DEF SectionsInv, AnchorNames
<1>9. ASSUME PlainHeading(outline[chosen].text)
      PROVE  /\ chosen \in Landing(anchor[Len(anchor)])
             /\ \A j \in Landing(anchor[Len(anchor)]) :
                    SameName(j, chosen) \/ ~PlainHeading(outline[j].text)
  BY <1>4, <1>8, <1>9, ClickLands
<1> HIDE DEF n, m
<1>10. QED BY <1>2, <1>5, <1>6, <1>7, <1>9 DEF n, m

\* The headings matched are headings looked at, no more than the link has parts.
THEOREM SectionsTypeCorrect == SectionsSpec => []SectionsTypeOK
<1>1. SectionsInv => SectionsTypeOK
  BY DEF SectionsInv
<1>2. QED BY SectionsInitially, SectionsStep, <1>1, PTL DEF SectionsSpec

\* Whatever headings a note has, a link to an offered one leads to its section, and a
\* click on the link of a plain heading to a heading of its name (suggestHeadings,
\* HeadingSubpath, Section, headingAnchor, headingIDTransformer).
THEOREM OfferedHeadingsAreFound == SectionsSpec => []OfferedHeadingIsFound
BY SectionsInitially, SectionsStep, OfferedIsFound, PTL DEF SectionsSpec
=============================================================================
