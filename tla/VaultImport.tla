---------------------------- MODULE VaultImport ----------------------------
(***************************************************************************)
(* The import of a folder (vault_import.go, vault-import.js), composed     *)
(* with the feed it publishes to.  One transaction inserts every note,     *)
(* ranks them and stores a receipt; it holds its author's lock for up to   *)
(* five minutes.  The page keeps the batch id of an import whose answer it *)
(* never got and sends the same batch again, while the first request may   *)
(* still be waiting for the lock, or at work.                              *)
(***************************************************************************)
EXTENDS Feed

CONSTANTS
    Importer,        \* the user at the page
    VaultBatches,    \* batch ids the page may draw
    Files,           \* notes in the selection
    Slots            \* requests the server takes at a time

ASSUME VaultAssumption ==
    /\ Importer \in Users
    /\ VaultBatches \subseteq Batches
    /\ Files \in Nat

VARIABLES
    page,      \* the import page
    imports,   \* per slot of vaultImportSlots the request in it, or Null
    receipts   \* vault_imports

vars == <<now, notes, locked, scroll, hides, page, imports, receipts>>

ImportPage ==
    [busy : BOOLEAN,
     batch : VaultBatches \cup {Null},   \* batch, and comma-vault-pending
     report : BOOLEAN]                   \* it was told that the import is complete

Import ==
    [batch : VaultBatches,
     heard : BOOLEAN,                    \* the page still listens
     at : Times \cup {Null},             \* nowUnix(), Null before it has the lock
     ids : SUBSET Notes]
ASSUME NullIsNoImport == Null \notin Import

TypeOK ==
    /\ FeedTypeOK
    /\ page \in ImportPage
    /\ imports \in [Slots -> Import \cup {Null}]
    /\ receipts \subseteq VaultBatches

Init ==
    /\ FeedInit
    /\ page = [busy |-> FALSE, batch |-> Null, report |-> FALSE]
    /\ imports = [w \in Slots |-> Null]
    /\ receipts = {}

Drawn == {page.batch} \cup {imports[w].batch : w \in {v \in Slots : imports[v] # Null}} \cup receipts

\* Start and retry: a new batch id unless an import of these files is pending.
\* Without a free slot the answer is 429.
Send(w, b) ==
    /\ ~page.busy
    /\ ~page.report
    /\ imports[w] = Null
    /\ IF page.batch = Null THEN b \notin Drawn ELSE b = page.batch
    /\ page' = [page EXCEPT !.busy = TRUE, !.batch = b]
    /\ imports' = [imports EXCEPT ![w] = [batch |-> b, heard |-> TRUE, at |-> Null, ids |-> {}]]
    /\ UNCHANGED <<now, notes, locked, scroll, hides, receipts>>

\* The page hears how its request ended; another selection begins a new import.
Answered(i, complete) ==
    page' = IF i.heard THEN [page EXCEPT !.busy = FALSE, !.report = complete] ELSE page

SelectAgain ==
    /\ page.report
    /\ page' = [page EXCEPT !.batch = Null, !.report = FALSE]
    /\ UNCHANGED <<now, notes, locked, scroll, hides, imports, receipts>>

\* The connection breaks or the page's 330 s are over.
LoseAnswer(w) ==
    /\ imports[w] # Null
    /\ imports[w].heard
    /\ page' = [page EXCEPT !.busy = FALSE]
    /\ imports' = [imports EXCEPT ![w].heard = FALSE]
    /\ UNCHANGED <<now, notes, locked, scroll, hides, receipts>>

\* importVault up to its receipt: with the lock, it answers what was done before.
AnswerReceipt(w) ==
    /\ imports[w] # Null
    /\ imports[w].at = Null
    /\ Importer \notin locked
    /\ imports[w].batch \in receipts
    /\ Answered(imports[w], TRUE)
    /\ imports' = [imports EXCEPT ![w] = Null]
    /\ UNCHANGED <<now, notes, locked, scroll, hides, receipts>>

TakeLock(w, ids) ==
    /\ imports[w] # Null
    /\ imports[w].at = Null
    /\ Importer \notin locked
    /\ imports[w].batch \notin receipts
    /\ Cardinality(ids) = Files
    /\ \A n \in ids : Author[n] = Importer /\ notes[n] = Null
    /\ locked' = locked \cup {Importer}
    /\ imports' = [imports EXCEPT ![w].at = now, ![w].ids = ids]
    /\ UNCHANGED <<now, notes, scroll, hides, page, receipts>>

\* Mutant of Receipts: the receipt is not stored with the notes.
ReceiptsUnchanged(b) == receipts

Receipts(b) == receipts \cup {b}

Commit(w) ==
    LET i == imports[w] IN
    /\ i # Null
    /\ i.at # Null
    /\ \A n \in i.ids : notes[n] = Null
    /\ Store(Assign([n \in Notes |-> IF n \in i.ids THEN NewRow(i.batch, i.at) ELSE notes[n]], i.ids))
    /\ receipts' = Receipts(i.batch)
    /\ locked' = locked \ {Importer}
    /\ Answered(i, TRUE)
    /\ imports' = [imports EXCEPT ![w] = Null]
    /\ UNCHANGED <<now, hides>>

\* A bad file, a slug that an autosave took meanwhile, a timeout, a lost client:
\* the transaction rolls back and the slot is free.
Fail(w) ==
    /\ imports[w] # Null
    /\ locked' = IF imports[w].at # Null THEN locked \ {Importer} ELSE locked
    /\ Answered(imports[w], FALSE)
    /\ imports' = [imports EXCEPT ![w] = Null]
    /\ UNCHANGED <<now, notes, scroll, hides, receipts>>

Next ==
    \/ FeedNext(Batches \ VaultBatches) /\ UNCHANGED <<page, imports, receipts>>
    \/ \E w \in Slots, b \in VaultBatches : Send(w, b)
    \/ SelectAgain
    \/ \E w \in Slots : LoseAnswer(w) \/ AnswerReceipt(w) \/ Commit(w) \/ Fail(w)
    \/ \E w \in Slots, ids \in SUBSET Notes : TakeLock(w, ids)

Spec == Init /\ [][Next]_vars

----------------------------------------------------------------------------
(* What must hold *)

\* vault_import.go:201: an import is published whole and once, or not at all,
\* however often its batch is sent, and the page is told so only when it is.
ImportedOnce ==
    /\ \A b \in VaultBatches :
          Cardinality({n \in Notes : notes[n] # Null /\ notes[n].batch = b}) =
              IF b \in receipts THEN Files ELSE 0
    /\ page.report => page.batch \in receipts
=============================================================================
