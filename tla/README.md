# Commonplace in TLA+

Commonplace (`commaplace`) is a Go server over PostgreSQL on which people write
markdown notes, publish them, and read each other's. This directory holds a
formal model of it: modules that follow the handlers and the browser code
statement by statement where they change state, TLC configurations that check
them on small instances, and TLAPS proofs for every instance.

`PROJECT.json` says for each definition which lines it models, for each run what
it checks, and for each property a mutant of the code that breaks it.

    tlc -workers 2 -config MCNotes.cfg MCNotes       # model-check
    tlapm NotesProofs.tla                            # check the proofs

## The system

PostgreSQL runs every transaction at READ COMMITTED; handlers serialise on row
locks (`SELECT ... FOR UPDATE`), on a per-author advisory lock
(`feedrank.LockAuthor`), on unique indexes, and on revision numbers compared
under a lock. The browser keeps unsaved text, a revision, and one local copy of
the text per note.

| Part | State | Operations | Talks to | What is hard |
|---|---|---|---|---|
| Notes (`notes.go`, `note_manager.go`, `admin.go`) | `notes` rows: public text, draft columns, `published_at`, `hidden_at`, `deleted_at`, `edit_version`, slug, rank; `note_tags`, `links` | create, autosave, publish, manage (publish, hide, delete), delete, moderate, sweep | all | a slug decided before the row is locked; five statements per publish; many paths to "public" |
| Editor page (`cmeditor.js`) | text, revision, save in flight, timer, publish phase, local copy | type, choose reach, save, poll, publish, recover, discard | PatchNote, PublishNote | lost and late requests, two tabs, saves that chain, edits during a publish |
| My space (`spaces.go`, `space-editor.js`) | `user_spaces`: private document, public document, revision | load, save, publish | Notes | publishes several notes at once; reach and text change separately |
| Feed (`feedrank.go`, `feed.go`) | `feed_rank`, `first_published_at`, `import_batch_id` | rank at first publish, page by cursor | Notes, imports | pages cut while notes are published; window functions that must agree with one-by-one ranking |
| Wiki links (`links.go`, `wiki.go`) | `links` rows, resolved or stubs | recompute, back-fill | Notes, imports, rename | link and target made by two transactions |
| Vault import (`vault_import.go`, `vault_links.go`) | receipts, two slots | import a zip | Notes, links, feed | retry after a lost answer; paths to slugs |
| Tag caches (`render.go`, `feed.go`, `tags.go`) | chips and clouds with a deadline | get, refill, expire | Notes | a refill that overlaps a write |
| Accounts (`auth/`, `handlers/auth.go`, `settings.go`) | users, tokens, sessions | sign in, rename | Notes, links | one token twice, first sign-in twice |
| Onboarding (`onboarding.go`, `seed/tour.go`) | the user's mark, copies of the tour | fork, skip | Notes, links | a fork that commits and a mark that fails |
| Embeds, sections (`links.go`, `notes.go`, `markdown/`) | none; queries level by level | render | Notes | a note changes between two levels |
| Lists (`profile.go`, `search.go`, `graph.go`, `saves.go`, `follow.go`, `calendar.go`) | none; cursors | page | Notes, likes, saves, follows | rows toggled or edited between two pages; counts that disagree with lists |
| Article list (`private-desk.js`), preview card (`linkpreview.js`) | rows shown, loads and timers under way | search, load more, hover | desk and preview endpoints | answers out of order |
| Migrations (`db.go`) | `schema_migrations` | migrate at start | - | two servers starting, crashes |
| Reports, rendering, avatars, rate limit, seed | none, or one statement | - | Notes | - |

## Modules

| Module | Models | State and actions |
|---|---|---|
| `NoteRow` | one row of `notes` | an operator per thing a handler does to the row it holds locked: `Autosaved`, `PublishedRow`, `Managed`, `Orphan`, `PatchSlug` |
| `Notes` | the table of one author | one action per handler; PatchNote is `PatchRead` and `Autosave`, because it reads `slug` and `published_at` before its transaction (notes.go:476) and locks the row later (notes.go:556) |
| `Publication` | what notes promise, abstractly | a front (what readers get) and a back (what the author sees) per note; `Notes` implements it |
| `SpacePublication` | what my space promises, abstractly, on top of `Publication` | a save changes nothing that others see; a publish publishes drafts whole, gives public children another reach, and touches no others; `Space` implements it |
| `Editor` | cmeditor.js in any number of tabs on one note | `tab`, requests in `net`, the shared local `copy`; `SaveAnswered`, `SaveFailed`, `Poll`, `PollPublish` are its callbacks; the network loses and delays |
| `Space` | `user_spaces`, its pages and the children it lists | PutSpace is two actions (it counts children before it writes, and locks none), PublishSpace is one |
| `Links` | `links` under overlapping saves, renames and the sweep | a save is one action per statement |
| `FeedRank`, `Feed` | `assignSQL` and `recommendedSQL` clause by clause; readers who scroll | `Assign`, `RankOne` (what feedrank.go:43 promises for one note), `Page` |
| `VaultImport` | the page that sends an import, slots, lock, receipt | extends `Feed`; adds `Send`, `TakeLock`, `Commit`, `Fail`, `LoseAnswer` |
| `VaultLinks`, `Sections` | slugs and links of an imported folder; links to a heading | `VaultLinks`: an upload is read part by part, its files get their slugs one by one, then a link is rewritten. `Sections`: headings are chosen for the parts of an anchor, one `MatchHeading` per round of the loop in `Section` |
| `Reading`, `TagCache` | the condition of every query that lists, counts or suggests; the caches over two of them | `TagCache` adds look-up, query, store and expiry as separate steps |
| `Embeds` | embeds queried level by level | rewrites and hidings between the levels |
| `PagedLists` | the save and follow toggles and lists read by (updated_at, id); a tag has a row per spelling on a note | a toggle reads the clock and the note (`Press`), then inserts (`PressInsert`), and deletes if the row was there (`PressDelete`) |
| `Accounts` | links, Google, first account, renames | one action per statement of `findOrCreateUser`; the COMMIT and the session cookie are two, and either may be the last |
| `Tour` | the first choice of a new user | the copies one by one with the links they fill, the pin, the mark; `SaveDraft` is an autosave, which recomputes the links of the copy it saves |
| `Migrate` | servers of two versions on one database | start, body, record, commit, crash |
| `LockOrder` | every lock of the transactions that take more than one | a transaction is a sequence of statements; waits and circles |
| `NoteList`, `LinkPreview` | the list beside the editor; the preview card | timers, requests, answers |
| `MC*` | small instances of these | |
| `*Proofs` | theorems about the module of the same name; `FeedProofs` about `VaultImport`, `PageProofs` about what pages show, `ServerProofs` about `Migrate`, `Accounts`, `Tour` and `LockOrder`; `NoteRowProofs` holds the lemmas that `Notes`, `Editor` and `Space` share | |

A text is a title and a body from small sets; a slug is one of the forms the code
builds (random draft, fallback, kebab form of a title); times are numbers, or
only whether they are set; `note_tags` and `links` of a note are the body they
were computed from, except in `Links`, where they are rows.

## Runs

| Run | Instance | Shows |
|---|---|---|
| `notes` | 1 note, 2 PATCHes in flight, 2 titles, 2 bodies, `edit_version` to 2 | public notes are complete, their index follows their text, their URL is permanent; moderated notes are frozen; edits are versioned; the table implements `Publication` |
| `notes_sweep` | 1 PATCH in flight | **violated**: the sweep deletes a note that was public once |
| `notes_reach` | 1 PATCH in flight | **violated**: the manager publishes with a reach that was replaced |
| `editor` | 2 tabs, 2 edits, 2 openings, 1 late request, `edit_version` to 2 | no blind overwrite; a publish publishes what its tab showed; "saved" means saved; nothing unsaved is forgotten |
| `editor_publish` | 1 tab, `edit_version` to 3 | the publish button comes back (liveness) |
| `editor_copy` | 1 tab | **violated**: a save drops the local copy that is being offered for recovery |
| `editor_conflict` | 1 tab | **violated**: the only editor is told another editor updated the note |
| `space` | 1 child, 2 pages, one publish of the space | unticked drafts and unfinished text stay private, and a removed child is neither changed nor listed; the reach asked for is given; no document is overwritten unseen |
| `links` | 3 notes in 2 vaults, 2 saves in flight, a spare handle | a link stays in its vault, shows and opens its target, is never captured, and leaves no stub behind |
| `links_rename` | 1 save | **violated**: a link whose vault was renamed is lost when its source is saved again |
| `site` | 13 parts, below | 20 properties, one or more per part |
| `reading_calendar` | 2 posts | **violated**: the calendar lists a note that a moderator has hidden |

`site` runs parts that share no state, one per behaviour, while the others rest:
`feed` and `imports` (3 notes, times 0 and 1, pages of 1 card, 2 files, 2 slots, an
import of 2 is a card; first with a scrolling reader, then with lost answers and
failures), `accounts` (2 addresses, 2 links, 2 requests, old rows that differ in
casing), `tags` (1 post, since every condition is about one post; 3 tags, 2
members, 2 refills, a map of 1; the post may be older than 30 days or become so, 2 tags are variants of each other, and lists are cut to 2 and 1), `embeds` (3 notes, depth 2), `migrate` (an old and
a new server), `preview` (2 links), `locks` (2 transactions of any kind on 4 notes of
2 authors), `list` (2 words, 2 loads, pages of 1), `vault` (6 paths in 3
folders, 10 typed links), `sections` (up to 3 headings, with and without links and odd spaces,
anchors of 2 parts),
`pages` (3 notes, 2 spellings, pages of 2, 2 presses, 3 seconds) and `tour` (2 notes that
link each other, 2 requests, 2 new slugs, 1 own note, 2 handles).

*Bounds.* `MaxVersion`, `MaxRevision`, `MaxEdits`, `MaxOpens`, `MaxHides`,
`MaxWrites`, `MaxRewrites`, `MaxChanges`, `MaxStarts`, `MaxUsers` and the like bound
counters that only grow; `MaxLate` and `MaxLost` the requests that outlive their
client. One note is enough for the properties of `Notes`, which speak of one row
at a time; notes meet only in the unique slug, and the proofs cover that. With
`edit_version` up to 2 a note is saved, published, hidden, republished through the
manager and saved again while a PATCH that read the first state is in flight. Two
tabs and two edits are the least in which a tab's save or publish is overtaken by
another's; a third version between a publish and the tab it came from is left to the
proof. Two saves, two requests, two refills, two servers and two transactions
are the least that race; each of these properties is also proved for any number,
with the exceptions named below. Deadlock is not checked where a model stops at
its bounds.

*Symmetry* is used over tabs, notes, requests, slots and sign-in links, in runs with safety
properties only.

*Fairness* (in `Editor` alone): a browser runs an armed timer and a poll, and a fetch
ends in an answer or an error, hence weak fairness of `Autosave`, `SaveSettles`,
`PublishSettles` and `Poll`. `PollPublish` is strongly fair: its 50 ms interval runs
between the end of one save and the 800 ms debounce or the next click that can
start another. Nothing is assumed of the writer, the network or the server, so
`PublishReturns` holds although no request ever succeeds. It does rely on a writer
who edits finitely often during one publish (`MaxEdits`): the page is read-only
then, but image uploads and imports still change it, and each chains a save.

## Disagreements found

Each of these is a run in which TLC finds the violation.

- `sweepOrphanDrafts` says it deletes notes "never written to or published"; it tests
  `published_at IS NULL`, which hiding a note restores (`notes_sweep`).
- The note manager publishes with `published_at` alone; a pending
  `draft_distribution` is left behind and the note appears with its old reach
  (`notes_reach`).
- `cmeditor.js` says the local copy stays until the server has acknowledged the
  text; a save of the text on display removes a copy with other text (`editor_copy`).
- A lost response leaves the page with an old revision for good, and each later save
  fails with "another editor has updated this note" (`editor_conflict`).
- `settings.go` says links survive a rename because edges resolve by id; a save of the
  linking note looks the old handle up again and loses them (`links_rename`).
- The calendar of a profile shows a moderated note to everybody, against the rule of
  `readableNote` (`reading_calendar`).

Seen while modelling, and left as remarks:

- *Feed.* `AssignUnranked` ranks notes with different `published_at` in one call. A
  large import on both sides of a later note's window weighs on its earliest note in
  the span of the call, which may lie outside that window: an exception to
  feedrank.go:43-45, and why `RanksAsIfOneByOne` speaks of one `published_at`. feed.go:187
  says that nothing is dropped or repeated and that notes published during a scroll
  rank above the cursor. An import that grows to a card during a scroll replaces its
  notes by the card, behind the cursor or before it, and a new note of an author in a
  burst may rank below the cursor; `ScrollIsComplete` speaks of what is listed all
  along.
- *Sign-in.* Two overlapping requests with one link both sign in, though ratelimit.go:27
  speaks of single-use tokens. A request that ends between the COMMIT of auth.go:198 and the
  cookie, or whose COMMIT applies without an answer, spends its link and signs nobody in;
  `SpentLinkHasAccount` says what is left then: the account, to which another link leads. A mailed link and the Google callback carry no `next`.
  `reservedHandles` misses several routes (`graph`, `import`, `edit`, `assets`, `u`,
  `preview`, `delete`).
- *Wiki links.* A page keeps the links of its note in a map by the name typed, an absent
  handle read as the author's present one (links.go:152-158, 220, 242). When alice is renamed to
  bob, whose handle was free again, a note of hers with `[[foo]]` and an old `[[@bob/foo]]` has
  two edges under one name: one link shows the other's target, a stub shows it too.
  `LinksOpenTheirTarget` says that only this can happen, and that every URL shown still opens
  the note it was built for.
- *Tour.* A copy that is renamed keeps the links to it; the next autosave of the copy that
  links to it looks the old slug up again and leaves a stub (notes.go:573-599). `TourIsWhole`
  says that nothing short of that loses a link, and keeps in `adrift` which ones it was.
  When the copies commit and the mark does not, each retry fails on the unique
  slugs of the copies, and only `skip=1` gets the user on.
- *Caches.* A refill that read before a write and stores after it undoes the expiry at
  render.go:66; a handler whose COMMIT went through with its answer lost does not
  expire at all. `StaleOnlyByOverlap` says that nothing else makes an entry stale.
- *Embeds.* A note that becomes readable between two levels shows without its own
  embeds.
- *Preview card.* Coming back to a link within 200 ms does not cancel the hiding that
  leaving it began, so the card closes under the pointer;
  `scheduleHide` overwrites the id of a timer that still runs; a failed request is cached
  as an empty preview.
- *Article list.* After a failed reload the offset is 0 while old rows are shown, and
  "more" appends the first page again; typing and then "more" mixes two queries
  (`ListShowsTheQuery` names these as `missed` and `typing`). `palette.js` has no guard
  against late answers.
- *Space.* The publish dialog shows each draft as it was when the page was loaded
  (space-editor.js:90), and PublishSpace takes no `edit_version` of the children.
- *Vault.* A path to a file that is not in the upload is left as typed, and its last
  segment then opens any note with that slug; a bare `[[a-2]]` may open a file whose
  slug was numbered; `a.md` and `a.MD` share a key. The two functions that skip
  comments treat `%%` differently.
- *Sections.* The id of a heading is made from its rendered text, without wiki links, tags and
  highlights, and the fragment of an offered link from the source (render.go:657, 666-677, against
  render.go:638-640): "See [[foo]]" has the id "see" and its link ends in "see-foo". The id of
  "A:B" is "ab", its link's fragment "a-b", and "A : B" has "a--b" for "a-b". What
  `OfferedHeadingIsFound` says of sections holds of every heading; of clicks it speaks when the
  heading is a `PlainHeading`, without any of this.
  Headings of one text share an id; a way down is matched greedily and can miss a section that
  exists;
  suggestions after `A#` are not restricted to what is below A.
- *Lists.* A tag page joins `note_tags` without DISTINCT, so a note that carries one
  tag in two casings or scripts has two rows on it; a page that ends between them drops the
  second. Chips and suggestions count each spelling alone, and chips only what was
  updated within 30 days, so a count may be less than the list it leads to, never more
  (`CountsMatchLists`). A press reads the clock before its INSERT: a late one stores a time
  that a reader has passed, and a note removed and saved again that way is listed twice in
  one reading (`late`). A toggle whose answer was lost is undone by the retry.
- *Locks.* Deadlocks outside the ranking transactions (two autosaves that link each
  other, for example) are ended by PostgreSQL and answered with 500.

## Proofs

Every theorem holds for all values of the constants that satisfy the assumptions of
its modules. These say that bounds are natural numbers, that ids are numbers where
the code orders by id, that `Null` and its like are none of the values they stand
beside, and what a constant function maps (`Kebab`, `Author`, `FirstHandle`,
`TourNotes`). The runs evaluate each of them.

| Module | Proved | Inductive invariant, and why it is needed |
|---|---|---|
| `NotesProofs` | the six properties of `notes`, that it implements `Publication` among them, and two more: public text and reach change only in a publish, and the sweep spares pending text | `IInv`: `PublishedIsComplete` is not inductive, since a late autosave writes a slug computed from an older row and the manager publishes what has a title. `PatchInv` says what a request in flight still knows, `RowInv` what each row keeps |
| `EditorProofs` | the four properties of `editor` | `EditorInv`: no page is ahead of the server, and whoever has the current revision knows the current text; likewise each request and each answer on its way |
| `SpaceProofs` | the five properties of `space`, and that `Space` implements `SpacePublication` | `PageInv`: a page with the current revision has the current document |
| `LinksProofs` | the four properties of `links` | `LinksInv`: names are unique, stored edges sound, stubs come last, and each save in flight is right about the owners and notes it has read |
| `FeedProofs` | `RanksAsIfOneByOne`, `BatchSharesRank`, `PageIsTopOfFeed`, `ScrollIsComplete`, `ImportedOnce`; the rank of a note that is ranked alone | `VaultInv`: ranks are sound and imports ranked whole (`Settled`); each scroll has seen what is above its cursor (`ScrollsOnTrack`); requests and receipts agree with the rows |
| `PageProofs` | `PreviewFollowsPointer`, `ListShowsTheQuery`, `StaleOnlyByOverlap`, `ListedOpens`, `CountsMatchLists`, `EmbedsComplete`, `PagesHaveNoGaps`, `LinkOpensItsFile`, `OfferedHeadingIsFound` | what each load, refill or query in flight knows: `NoteListInv`, `TagCacheInv`, `EmbedsInv`, `PagedInv`. `VaultLinksInv`: no two files of an import have one slug, nor one that was taken, and the link is the one `Resolve` gives. `SectionsInv`: on a way down the headings matched so far are the ones chosen and the next is still ahead; before the match of a single part nothing has its name |
| `ServerProofs` | `MigratedOnce`, `SameEmailSameAccount`, `SpentLinkHasAccount`, `TourIsWhole`, `RankingNeverDeadlocks` | `MigrateInv`, `AccountsInv`, `TourInv`, `LockInv`: what each server, request, fork or transaction relies on between two of its statements |

The type invariant of every module is proved with them; `SiteTypeOK` of the run `site`
asks each of the part that runs.

*Notes.* Row by row, lemmas show that each update of `NoteRow` keeps `RowInv`; one lemma
per action lifts them to the table. `RowsChange` lists the few ways in which a step
can change a row, `NextRowsChange` shows that every step is among them, and each
action property then follows for one row at a time. `May` does the same for the
refinement; what a sweep left behind is settled by `AbsentInv`.

*Feed.* A page is two queries with limits. `PageIsTop` shows that what they cut off
cannot be among the first of the union: whatever the note arm drops is below
`PageSize` items, and an import that the batch arm does not meet is below them too.
`ScrollsOnTrack` then says that all that was listed from the start and lies above the
cursor has been seen, once. Publishing changes no rank that is stored, so a cursor
keeps its place; `AssignRanks` shows this of the window functions. `NotesRankedAlone`
shows that they give a note that a step ranks alone the rank feedrank.go:43 promises:
the earliest note of each large import stands for its card, which is a bijection
from the rows counted to the cards. `NotesRankedAsIfOneByOne` goes on to several notes of one `published_at`: `RankNext`
shows that ranking a set of them is ranking all but the greatest id and then that one,
because what they weigh on each other through the targets' window (`tw`) is what the
earlier ones weigh through the stored ranks (`pw`) afterwards. `OneByOneIs` carries this
through the whole set, by the least set for which it would fail. It needs that no
import among the targets has a rank already; an import is ranked whole (`Settled`), and
a note that joins one later is ranked alone.

*Space.* The updates of one row are shown once, in `NoteRowProofs`, to be steps of
`Publication`, and serve `Notes` and `Space` alike. Publishing the space splits by child:
a draft is the publication of the row with the reach asked for pending, a public child
is relabelled or kept. The refinement holds for every number of pages and children; it
is not in the run `space`, whose time it would double, and a space that publishes
public children whole (`ListedPublished`) violates it at once.

*Vault links.* `FreeSlugIsFree` shows that among as many numbers as there are slugs and
one more, one is free, by counting: else the numbered slugs would be that many. With
slugs that are files' own, a rewritten link opens the file it resolved to and no other.

*Sections.* When the chosen headings lead down (`WayDown`), the greedy match can
neither pass one of them nor stop at another, for no other heading has its name.

*Locks.* A transaction that ranks takes author locks first, in ascending order, and
its other statements lock only what belongs to its authors (`AuthorsFirst`, `Fits`).
In a circle of waits through a ranking transaction everyone would wait for an author
greater than those it holds; `LeastNatural` ends that.

*Numbers and sequences.* The library's induction theorems cannot be instantiated here,
so what needs induction is argued by a least or greatest element: the relation `<` on
naturals and strict inclusion of finite sets are well-founded, and `WFMin` takes no
operator.

*Only model-checked.* `PublishReturns`, which is liveness: the prover has no ENABLED.
Everything else that a passing run checks is a theorem.

## Not modelled, and why

Parsing and HTML, layout of search, graph, profile and calendar, export: functions
without state. Avatars, images, mail, OAuth's own protocol: I/O and formats. The
moderation queue: one INSERT and one UPDATE. The old desk's tabs and canvas: no longer
loaded. Rate limiting: one function of the request, counted by a library. Generated
templ pages and seed data are more than a third of the repository's Go and hold no
state. Failures of single SQL statements roll their transaction back and are no more
than a request that did nothing; where two transactions make one operation, the
failure between them is modelled. `PROJECT.json` lists each component and hazard with
its status.

## What is left

1. A refinement of `Editor` to the edits of `Publication`: what a tab shows as saved, as
   the abstract back of a note.
2. What `Assign` gives notes of different `published_at` (feedrank.go:136): how far the
   exception under *Feed* reaches.
3. `Reading` as one relation from which each query's condition is derived.
