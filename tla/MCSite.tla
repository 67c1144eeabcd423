------------------------------- MODULE MCSite -------------------------------
(* Components of the server and its pages that share no state with each    *)
(* other, on small instances, in one run: each behaviour is one of the     *)
(* parts, while the others rest.  The feed is in two: it is scrolled while *)
(* imports go through, and imports fail, lose their answers and are sent   *)
(* again while nobody scrolls or hides anything.                           *)
EXTENDS VaultImport, Accounts, TagCache, Embeds, Migrate, LinkPreview, LockOrder, NoteList,
    VaultLinks, Sections, PagedLists, Tour, TLC

CONSTANTS alice, ann, anna, ben, m1, m2, m3, old, new, few, many, d, e

VARIABLE part

\* Parts of the vault: what an upload becomes, and how its pages are reached.
vaultVars == <<vaultLinksVars, sectionsVars, pagedVars, tourVars>>

siteVars == <<vars, accountsVars, tagVars, embedsVars, migrateVars, previewVars, tx, noteListVars,
              vaultVars, part>>

mcAuthor == [n \in Notes |-> alice]

\* Both addresses have one local part, and two old rows differ in casing alone.
mcBase == [a \in Addresses |-> ann]
mcLegacy ==
    {<< >>, <<[email |-> <<ann, "mixed">>, handle |-> <<ann, 1>>],
              [email |-> <<ann, "lower">>, handle |-> <<ann, 2>>]>>}

\* The first two tags are one word in both scripts.
mcVariants == [t \in Tags |-> IF t = 3 THEN {3} ELSE {1, 2}]
mcTagSets == {{}, {1, 2, 3}}

mcWriter == [n \in Posts |-> ann]
mcFollows == Members \X Members
mcSaves == Members \X Posts
mcEdges == Posts \X Posts
mcChapters == [a \in Members |-> Posts]

\* Two notes of an author link each other, and she is about to insert a third
\* that one of them already names.
mcRowAuthor == [n \in Rows \cup NewRows |-> IF n = 3 THEN 2 ELSE 1]
mcCites == {<<1, 2>>, <<2, 1>>, <<4, 1>>, <<2, 4>>}
mcStubs == {<<2, 4>>}

mcMatches == [q \in Words \X NoteFilters |-> IF q[1] = many THEN 2 ELSE 1]

\* Two files that differ in casing alone, one whose name is the slug of another
\* with a number, and folders up and down from each other.
In(dir, name, ext) == [dir |-> dir, name |-> name, ext |-> ext]
mcPaths ==
    <<In(<< >>, "A-2", "md"), In(<< >>, "A", "md"), In(<<"d">>, "A", "MD"), In(<<"d">>, "A", "md"),
      In(<<"d">>, "B", "md"), In(<<"d", "e">>, "A", "md")>>
Slugged(stem, numbers) == [stem |-> stem, numbers |-> numbers]
mcKebabSlug == [n \in {"A", "A-2", "B"} |->
    CASE n = "A" -> Slugged("a", << >>) [] n = "A-2" -> Slugged("a", <<2>>) [] n = "B" -> Slugged("b", << >>)]
To(kind, up, dir, name) == [kind |-> kind, up |-> up, dir |-> dir, name |-> name]
mcTyped ==
    {To("bare", 0, << >>, n) : n \in {"A", "A-2", "B"}} \cup
    {To("rooted", 0, <<"d">>, "A"), To("rooted", 0, <<"d", "e">>, "A"),
     To("relative", 1, << >>, "A"), To("relative", 0, <<"e">>, "A"), To("relative", 0, <<"d">>, "B"),
     To("markdown", 0, << >>, "A"), To("markdown", 1, <<"d">>, "B")}
mcTakenSlugs == {Slugged("a", << >>), Slugged("a", <<3>>)}

\* "AB", "A B", "A:B", "A : B" and "A [[B]]".
Parted(spaces, colons, inLink) ==
    [syllables |-> <<"a", "b">>, spaces |-> <<0, spaces>>, colons |-> <<0, colons>>, links |-> inLink]
mcHeadingTexts ==
    {Parted(0, 0, {}), Parted(1, 0, {}), Parted(0, 1, {}), Parted(2, 1, {}), Parted(1, 2, {2})}

\* A link to a note that is copied later, and one back.
mcTourNotes == <<"hello", "links">>
mcTourLinks == [s \in {"hello", "links"} |-> {"hello", "links"} \ {s}]

mcBodies == {{}, {m1}, {m2}, {m3}, {m1, m2}}
mcKnows == [s \in Servers |-> IF s = old THEN 2 ELSE 3]

\* The requests of every part have the same names.
Symmetry == Permutations(Slots) \cup Permutations(Links)

SiteInit ==
    /\ part \in {"feed", "imports", "accounts", "tags", "embeds", "migrate", "preview",
                "locks", "list", "vault", "sections", "pages", "tour"}
    /\ part # "accounts" => users = << >>
    /\ part # "embeds" => root = {} /\ visible = {} /\ embeds = [n \in Embeddable |-> {}]
    /\ part # "vault" => taken = {}
    /\ Init /\ AccountsInit /\ TagCacheInit /\ EmbedsInit /\ MigrateInit /\ PreviewInit /\ LockInit
    /\ IF part = "list" THEN NoteListInit
       ELSE NoteListPage /\ words = few /\ loads = [l \in Loads |-> NoLoad]
    /\ VaultLinksInit /\ TourInit
    /\ IF part = "sections" THEN SectionsInit
       ELSE outline = << >> /\ named = << >> /\ anchor = << >> /\ lookedAt = 0 /\ matched = << >>
    /\ IF part = "pages" THEN PagedInit
       ELSE /\ list = "tag" /\ clock = 0 /\ updated = << >> /\ spelled = << >> /\ edits = << >>
            /\ since = << >> /\ withdrawn = {} /\ clicks = << >> /\ shown = << >> /\ cursor = << >>
            /\ listEnded = TRUE /\ steady = {} /\ late = {} /\ changes = 0

Others(vs) == UNCHANGED <<part, vs>>

\* Each import goes through while somebody scrolls, and its answer arrives.
ImportsArrive ==
    \A w \in Slots :
        /\ imports'[w] # imports[w] => \A r \in Readers : scroll[r] # Null
        /\ IF imports'[w] # Null THEN imports'[w].heard
           ELSE imports[w] # Null => imports[w].batch \in receipts'

\* Nothing is hidden while notes of an old server wait for their ranks.
AllRanked == \A n \in Notes : notes[n] # Null => notes[n].rank # Null
RankedOrKept == hides' > 0 => AllRanked'

SiteNext ==
    \/ /\ \/ part = "feed" /\ Next /\ ImportsArrive /\ RankedOrKept
          \/ part = "imports" /\ Next /\ UNCHANGED <<scroll, hides>>
       /\ Others(<<accountsVars, tagVars, embedsVars, migrateVars, previewVars, tx, noteListVars, vaultVars>>)
    \/ /\ part = "accounts" /\ AccountsNext
       /\ Others(<<vars, tagVars, embedsVars, migrateVars, previewVars, tx, noteListVars, vaultVars>>)
    \/ /\ part = "tags" /\ TagCacheNext
       /\ Others(<<vars, accountsVars, embedsVars, migrateVars, previewVars, tx, noteListVars, vaultVars>>)
    \/ /\ part = "embeds" /\ EmbedsNext
       /\ Others(<<vars, accountsVars, tagVars, migrateVars, previewVars, tx, noteListVars, vaultVars>>)
    \/ /\ part = "migrate" /\ MigrateNext
       /\ Others(<<vars, accountsVars, tagVars, embedsVars, previewVars, tx, noteListVars, vaultVars>>)
    \/ /\ part = "preview" /\ PreviewNext
       /\ Others(<<vars, accountsVars, tagVars, embedsVars, migrateVars, tx, noteListVars, vaultVars>>)
    \/ /\ part = "locks" /\ LockNext
       /\ Others(<<vars, accountsVars, tagVars, embedsVars, migrateVars, previewVars, noteListVars, vaultVars>>)
    \/ /\ part = "list" /\ NoteListNext
       /\ Others(<<vars, accountsVars, tagVars, embedsVars, migrateVars, previewVars, tx, vaultVars>>)
    \/ /\ \/ part = "vault" /\ VaultLinksNext /\ UNCHANGED <<sectionsVars, pagedVars, tourVars>>
          \/ part = "sections" /\ SectionsNext /\ UNCHANGED <<vaultLinksVars, pagedVars, tourVars>>
          \/ part = "pages" /\ PagedNext /\ UNCHANGED <<vaultLinksVars, sectionsVars, tourVars>>
          \/ part = "tour" /\ TourNext /\ UNCHANGED <<vaultLinksVars, sectionsVars, pagedVars>>
       /\ Others(<<vars, accountsVars, tagVars, embedsVars, migrateVars, previewVars, tx,
                   noteListVars>>)

SiteSpec == SiteInit /\ [][SiteNext]_siteVars

\* What rests keeps the type its initial state gives it.
SiteTypeOK ==
    /\ part \in {"feed", "imports"} => TypeOK
    /\ part = "accounts" => AccountsTypeOK
    /\ part = "tags" => TagCacheTypeOK
    /\ part = "embeds" => EmbedsTypeOK
    /\ part = "migrate" => MigrateTypeOK
    /\ part = "preview" => PreviewTypeOK
    /\ part = "locks" => LockTypeOK
    /\ part = "list" => NoteListTypeOK
    /\ part = "vault" => VaultLinksTypeOK
    /\ part = "sections" => SectionsTypeOK
    /\ part = "pages" => PagedTypeOK
    /\ part = "tour" => TourTypeOK
=============================================================================
