----------------------------- MODULE VaultLinks -----------------------------
(***************************************************************************)
(* A folder of notes becomes a flat vault (vault_import.go, vault_links.go):*)
(* the parts of the upload are read one by one, every file gets a slug that *)
(* no other note of its author has, and the links between the files, typed *)
(* as paths or names, are rewritten to slugs.                              *)
(***************************************************************************)
EXTENDS Integers, Sequences, FiniteSets

CONSTANTS
    Paths,       \* files as the page may name them, in the order of their names
    Stems,       \* slugs without a number at the end
    KebabSlug,   \* name of a file -> slug
    Typed,       \* links as they are typed in the files
    TakenSlugs,  \* slugs that the author's older notes may have
    MaxVaultFiles,
    NoLink

\* A slug and the numbers at its end: a-2-2 is [stem |-> "a", numbers |-> <<2, 2>>].
VaultSlugs == [stem : Stems, numbers : Seq(Nat)]

\* A file is its place in the order, and a folder the sequence of names that leads to it.
VaultFiles == DOMAIN Paths

Path(p) == DOMAIN p = {"dir", "name", "ext"} /\ p.ext \in {"md", "MD"} /\ p.name \in DOMAIN KebabSlug

TypedLink(l) ==
    /\ DOMAIN l = {"kind", "up", "dir", "name"}
    /\ l.kind \in {"relative", "rooted", "bare", "markdown"}
    /\ l.up \in Nat
    /\ l.kind = "rooted" => l.up = 0 /\ l.dir # << >>
    /\ l.kind = "bare" => l.up = 0 /\ l.dir = << >>

ASSUME VaultLinksAssumption ==
    /\ IsFiniteSet(VaultFiles) /\ VaultFiles \subseteq Nat \ {0}
    /\ \A f \in VaultFiles : Path(Paths[f])
    /\ \A f, g \in VaultFiles : Paths[f] = Paths[g] => f = g
    /\ \A name \in DOMAIN KebabSlug : KebabSlug[name] \in VaultSlugs
    /\ \A l \in Typed : TypedLink(l)
    /\ IsFiniteSet(TakenSlugs) /\ TakenSlugs \subseteq VaultSlugs
    /\ MaxVaultFiles \in Nat

VARIABLES
    reading,   \* parts are still coming; imported when the transaction has begun
    files,     \* files read
    taken,     \* slugs of the older notes
    slugs,     \* per file that has one
    link       \* the link looked at: its file, as typed and as written

vaultLinksVars == <<reading, files, taken, slugs, link>>

WrittenLinks ==
    [from : VaultFiles, typed : Typed, how : {"typed", "missing", "slug"}, to : VaultSlugs \cup {NoLink}]
ASSUME NoLinkIsApart == NoLink \notin WrittenLinks

VaultLinksTypeOK ==
    /\ reading \in {"parts", "rejected", "imported"}
    /\ files \in SUBSET VaultFiles
    /\ taken \in SUBSET TakenSlugs
    /\ DOMAIN slugs \subseteq files
    /\ slugs \in [DOMAIN slugs -> VaultSlugs]
    /\ link \in WrittenLinks \cup {NoLink}

VaultLinksInit ==
    /\ reading = "parts"
    /\ files = {}
    /\ taken \in SUBSET TakenSlugs
    /\ slugs = << >>
    /\ link = NoLink

----------------------------------------------------------------------------
(* Reading the upload *)

ReadPart(f) ==
    /\ reading = "parts"
    /\ f \notin files
    /\ Cardinality(files) < MaxVaultFiles
    /\ files' = files \cup {f}
    /\ UNCHANGED <<reading, taken, slugs, link>>

\* A path that is not one of a Markdown file, one that came before, one too many,
\* a bad encoding, a broken connection, or no file at all.
Reject ==
    /\ reading = "parts"
    /\ reading' = "rejected"
    /\ files' = {}
    /\ UNCHANGED <<taken, slugs, link>>

BeginImport ==
    /\ reading = "parts"
    /\ files # {}
    /\ reading' = "imported"
    /\ UNCHANGED <<files, taken, slugs, link>>

----------------------------------------------------------------------------
(* Slugs *)

Numbered(slug, i) == [slug EXCEPT !.numbers = Append(@, i)]

\* The slug itself, or with the first number from 2 that makes it free.
FreeSlug(slug, used) ==
    IF slug \notin used THEN slug
    ELSE LET Free == {i \in 2 .. 2 + Cardinality(used) : Numbered(slug, i) \notin used}
         IN Numbered(slug, CHOOSE i \in Free : \A j \in Free : i <= j)

Used == taken \cup {slugs[f] : f \in DOMAIN slugs}

\* One round of importVault's first loop.
NameFile(f) ==
    /\ reading = "imported"
    /\ f \in files \ DOMAIN slugs
    /\ \A g \in files \ DOMAIN slugs : f <= g
    /\ slugs' = [g \in DOMAIN slugs \cup {f} |->
                    IF g = f THEN FreeSlug(KebabSlug[Paths[f].name], Used) ELSE slugs[g]]
    /\ UNCHANGED <<reading, files, taken, link>>

----------------------------------------------------------------------------
(* Rewriting a link *)

ByName(name) == {f \in files : Paths[f].name = name}

\* vaultKey leaves the extension out, so two files may have one key; the later
\* one has it in vaultIndex.paths.
ByPath(dir, name) ==
    LET At == {f \in ByName(name) : Paths[f].dir = dir}
    IN {f \in At : \A g \in At : g <= f}

\* path.Clean(path.Join(path.Dir(source), k)); above the root there is no file.
Joined(source, l) ==
    LET dir == Paths[source].dir
    IN IF l.up > Len(dir) THEN <<"..">> ELSE SubSeq(dir, 1, Len(dir) - l.up) \o l.dir

\* Mutant of Resolve: of several files with the name, the first.
ResolveFirstOfName(source, l) ==
    CASE l.kind \in {"relative", "markdown"} -> ByPath(Joined(source, l), l.name)
      [] l.kind = "rooted" -> ByPath(l.dir, l.name)
      [] OTHER -> IF ByPath(Paths[source].dir, l.name) # {} THEN ByPath(Paths[source].dir, l.name)
                  ELSE {f \in ByName(l.name) : \A g \in ByName(l.name) : f <= g}

\* vaultIndex.resolve: the file, none, or several that it cannot tell apart.
Resolve(source, l) ==
    CASE l.kind \in {"relative", "markdown"} -> ByPath(Joined(source, l), l.name)
      [] l.kind = "rooted" -> ByPath(l.dir, l.name)
      [] OTHER -> IF ByPath(Paths[source].dir, l.name) # {} THEN ByPath(Paths[source].dir, l.name)
                  ELSE ByName(l.name)

\* rewriteVaultLinks, for a link that it does not skip.
RewriteVaultLink(source, l) ==
    /\ reading = "imported"
    /\ source \in files
    /\ DOMAIN slugs = files
    /\ LET found == Resolve(source, l)
       IN link' = [from |-> source, typed |-> l,
                   how |-> IF found = {} THEN "typed"
                           ELSE IF Cardinality(found) > 1 THEN "missing" ELSE "slug",
                   to |-> IF Cardinality(found) = 1 THEN slugs[CHOOSE f \in found : TRUE] ELSE NoLink]
    /\ UNCHANGED <<reading, files, taken, slugs>>

VaultLinksNext ==
    \/ \E f \in VaultFiles : ReadPart(f) \/ NameFile(f)
    \/ Reject
    \/ BeginImport
    \/ \E source \in VaultFiles, l \in Typed : RewriteVaultLink(source, l)

VaultLinksSpec == VaultLinksInit /\ [][VaultLinksNext]_vaultLinksVars

----------------------------------------------------------------------------
(* What must hold *)

\* The notes that answer to the written link: a wiki link is looked up by its
\* slug among all notes of the author; a Markdown link left as typed is none.
OlderNote == 0
Opened ==
    LET slug == IF link.how = "typed" THEN KebabSlug[link.typed.name] ELSE link.to
    IN IF link.how = "missing" \/ (link.how = "typed" /\ link.typed.kind = "markdown") THEN {}
       ELSE {f \in files : slugs[f] = slug} \cup (IF slug \in taken THEN {OlderNote} ELSE {})

\* Files that the folder has under the name, where the link says, as documented.
Meant ==
    LET l == link.typed
        In(dir) == {f \in ByName(l.name) : Paths[f].dir = dir}
        here == Paths[link.from].dir
    IN CASE l.kind = "rooted" -> In(l.dir)
         [] l.kind \in {"relative", "markdown"} -> In(Joined(link.from, l))
         [] OTHER -> IF In(here) # {} THEN In(here) ELSE ByName(l.name)

\* docs/BETA-vault-import.md, on the order of resolution: a link between two files
\* opens, in the flat vault, the one file it names (a relative path, a path
\* from the root, a name in the same folder, a name that is unique), whatever
\* slugs the files got beside older notes and each other; and a name that
\* several folders have opens nothing, rather than another file of that name.
LinkOpensItsFile ==
    link # NoLink /\ Meant # {} =>
        \/ /\ \A f, g \in Meant : Paths[f].dir = Paths[g].dir
           /\ \E f \in Meant : Opened = {f}
        \/ link.typed.kind = "bare" /\ Cardinality(Meant) > 1 /\ Opened = {}
=============================================================================
