------------------------------- MODULE Embeds -------------------------------
(***************************************************************************)
(* buildEmbedResolver (links.go): the notes a page embeds are fetched      *)
(* level by level, one query each, before the page is rendered, and the    *)
(* rendering descends into embedded notes on its own, to the same depth.   *)
(* Other requests rewrite and hide the notes between two of the queries.   *)
(***************************************************************************)
EXTENDS Integers, FiniteSets

CONSTANTS
    Embeddable,      \* notes that may be embedded
    EmbedDepth,      \* maxEmbedDepth
    EmbedBodies,     \* what a body may embed: sets of notes
    MaxRewrites      \* bound on the writes meanwhile

ASSUME EmbedsAssumption ==
    /\ EmbedDepth \in Nat /\ MaxRewrites \in Nat
    /\ EmbedBodies \subseteq SUBSET Embeddable

VARIABLES
    root,       \* embeds in the body of the page
    embeds,     \* embeds in the body of each note, as stored
    visible,    \* readable notes
    found,      \* note -> its embeds, for the notes fetched
    frontier,   \* embeds of the notes that the last query found
    queried,    \* notes that were asked for (history)
    level,      \* queries made
    rewrites,   \* notes rewritten, hidden or shown meanwhile
    appeared    \* one of them was shown (history)

embedsVars == <<root, embeds, visible, found, frontier, queried, level, rewrites, appeared>>

EmbedsTypeOK ==
    /\ root \in EmbedBodies
    /\ embeds \in [Embeddable -> EmbedBodies]
    /\ visible \subseteq Embeddable
    /\ DOMAIN found \subseteq Embeddable
    /\ \A n \in DOMAIN found : found[n] \in EmbedBodies
    /\ frontier \subseteq Embeddable
    /\ DOMAIN found \subseteq queried /\ queried \subseteq Embeddable
    /\ level \in 0 .. EmbedDepth
    /\ rewrites \in 0 .. MaxRewrites
    /\ appeared \in BOOLEAN

EmbedsInit ==
    /\ root \in EmbedBodies
    /\ embeds \in [Embeddable -> EmbedBodies]
    /\ visible \in SUBSET Embeddable
    /\ found = [n \in {} |-> {}]
    /\ frontier = root
    /\ queried = {}
    /\ level = 0
    /\ rewrites = 0
    /\ appeared = FALSE

\* What the next query asks for.
Queued == frontier \ DOMAIN found

\* Mutant of Fetching: one level too few.
FetchingShort == level + 1 < EmbedDepth /\ Queued # {}

Fetching == level < EmbedDepth /\ Queued # {}

FetchLevel ==
    /\ Fetching
    /\ LET fetched == Queued \cap visible
       IN /\ found' = [n \in DOMAIN found \cup fetched |-> IF n \in fetched THEN embeds[n] ELSE found[n]]
          /\ frontier' = UNION {embeds[n] : n \in fetched}
    /\ queried' = queried \cup Queued
    /\ level' = level + 1
    /\ UNCHANGED <<root, embeds, visible, rewrites, appeared>>

\* Another request publishes a new text of the note.
RewriteEmbed(n, body) ==
    /\ Fetching
    /\ rewrites < MaxRewrites
    /\ rewrites' = rewrites + 1
    /\ embeds' = [embeds EXCEPT ![n] = body]
    /\ UNCHANGED <<root, visible, found, frontier, queried, level, appeared>>

\* It is hidden, or shown.
ToggleEmbed(n) ==
    /\ Fetching
    /\ rewrites < MaxRewrites
    /\ rewrites' = rewrites + 1
    /\ visible' = (visible \ {n}) \cup ({n} \ visible)
    /\ appeared' = (appeared \/ n \notin visible)
    /\ UNCHANGED <<root, embeds, found, frontier, queried, level>>

\* The bodies that the rendering nests down to a depth.
Nestings(depth) ==
    {c \in [0 .. depth -> Embeddable] :
        /\ c[0] \in root
        /\ \A i \in 1 .. depth : c[i - 1] \in DOMAIN found /\ c[i] \in found[c[i - 1]]}

\* What it asks of the resolver build(depth) for them.
Asked(depth) == {c[depth] : c \in Nestings(depth)}

EmbedsNext ==
    \/ FetchLevel
    \/ \E n \in Embeddable, body \in EmbedBodies : RewriteEmbed(n, body)
    \/ \E n \in Embeddable : ToggleEmbed(n)

EmbedsSpec == EmbedsInit /\ [][EmbedsNext]_embedsVars

\* links.go:271, "Every target is fetched before rendering starts": when the queries
\* are over, whatever the rendering asks for at a depth it renders has been asked
\* of the database, also when bodies embed each other or themselves and when
\* notes are rewritten or hidden between two queries.  (A note that becomes
\* readable in between is left out: it may show without its own embeds.)
EmbedsComplete ==
    ~Fetching /\ ~appeared => \A d \in 0 .. EmbedDepth - 1 : Asked(d) \subseteq queried
=============================================================================
