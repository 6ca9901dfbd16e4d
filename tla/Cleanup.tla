------------------------------- MODULE Cleanup -------------------------------
(***************************************************************************)
(* The client's deletion of what it has sent (cleanup.rs): a durable       *)
(* ledger records the identity of every entry of the source before it is   *)
(* sent, a confirmation gives the authority to delete, and entries are     *)
(* deleted one by one, each marked in the ledger after it is gone.  The    *)
(* user goes on writing files all the while.                               *)
(*                                                                         *)
(* A source is a directory with files.  The identity of a file (size,      *)
(* mtime, digest) is a version; no two writes make the same version.       *)
(***************************************************************************)
EXTENDS Naturals, Operations

CONSTANTS
    Files,      \* names in the source directory
    MaxWrites   \* bound: writes of the user

ASSUME FilesAssumption == Files # {}
ASSUME WritesAssumption == MaxWrites \in Nat

VARIABLES
    local,      \* local[f]: the version of f in the source, or Gone
    sourceDir,  \* the source directory is there
    writes,     \* writes of the user so far
    ledger,     \* ledger[r]: the file cleanup-<run>.toml
    tidy        \* tidy[k]: process_cleanup_state_file under way at client k

localVars == <<local, sourceDir, writes>>
cleanupVars == <<localVars, ledger, tidy>>

Gone == 0
Versions == 1..(MaxWrites + 1)

\* One ledger entry for each captured file, and one for the directory.  A
\* manifest has one entry, so all of a ledger is confirmed together.
Directory == "directory"
NoLedger == [written |-> FALSE, captured |-> [f \in Files |-> Gone],
             confirmed |-> FALSE, cleaned |-> {}]

Ledgers == [written : BOOLEAN, captured : [Files -> {Gone} \cup Versions],
            confirmed : BOOLEAN, cleaned : SUBSET (Files \cup {Directory})]

Tracked(book) == {f \in Files : book.captured[f] # Gone}

Complete(book) == book.cleaned = Tracked(book) \cup {Directory}

TidySteps == {"idle", "files", "unlink", "mark", "directory", "mark_directory", "over"}

NoTidy == [pc |-> "idle", run |-> CHOOSE r \in Runs : TRUE, book |-> NoLedger,
           todo |-> {}, file |-> CHOOSE f \in Files : TRUE, seen |-> Gone]

CleanupTypeOK ==
    /\ local \in [Files -> {Gone} \cup Versions]
    /\ sourceDir \in BOOLEAN
    /\ writes \in 0..MaxWrites
    /\ ledger \in [Runs -> Ledgers]
    /\ tidy \in [Clients -> [pc : TidySteps, run : Runs, book : Ledgers, todo : SUBSET Files,
                             file : Files, seen : {Gone} \cup Versions]]

\* The source has a file at least; the user may add the others.
CleanupInit ==
    /\ local \in [Files -> {Gone, 1}] \ {[f \in Files |-> Gone]}
    /\ sourceDir = TRUE
    /\ writes = 0
    /\ ledger = [r \in Runs |-> NoLedger]
    /\ tidy = [k \in Clients |-> NoTidy]

----------------------------------------------------------------------------

\* The user replaces a file, or makes one.
Write(f) ==
    /\ sourceDir /\ writes < MaxWrites
    /\ writes' = writes + 1
    /\ local' = [local EXCEPT ![f] = writes + 2]
    /\ UNCHANGED <<sourceDir, ledger, tidy>>

\* capture_cleanup_identity, write_cleanup_state.
Capture(r) ==
    /\ sourceDir
    /\ ledger' = [ledger EXCEPT ![r] = [NoLedger EXCEPT !.written = TRUE, !.captured = local]]

\* confirm_imports_from_status, confirm_all_imports: read, and renamed into place.
Confirm(r, imports) ==
    /\ ledger[r].written
    /\ ledger' = [ledger EXCEPT ![r].confirmed = imports]

\* retire_cleanup_state_file.
Retire(r) ==
    /\ ledger[r].written
    /\ ledger' = [ledger EXCEPT ![r] = NoLedger]

----------------------------------------------------------------------------
(* process_cleanup_state_file *)

\* The ledger is read once, and written back as a whole after every deletion.
TidyUp(k, r) ==
    LET book == ledger[r] IN
    tidy' = [tidy EXCEPT ![k] = [NoTidy EXCEPT
                !.pc = IF book.confirmed THEN "files" ELSE "over",
                !.run = r, !.book = book, !.todo = Tracked(book) \ book.cleaned]]

TidyGoto(k, step) == tidy' = [tidy EXCEPT ![k].pc = step]

\* Mutant: a file that is gone is not counted as cleaned.
TryCleanPresent(k) ==
    \E f \in tidy[k].todo :
        /\ tidy[k].pc = "files"
        /\ tidy' = [tidy EXCEPT ![k].todo = @ \ {f}, ![k].file = f, ![k].seen = local[f],
                                ![k].pc = IF local[f] = tidy[k].book.captured[f] THEN "unlink"
                                          ELSE "files"]
        /\ UNCHANGED <<localVars, ledger>>

\* try_clean_entry, up to the comparison: what is gone counts as cleaned, what
\* has changed is left alone.
TryClean(k) ==
    \E f \in tidy[k].todo :
        /\ tidy[k].pc = "files"
        /\ tidy' = [tidy EXCEPT ![k].todo = @ \ {f}, ![k].file = f, ![k].seen = local[f],
                                ![k].pc = IF local[f] = Gone THEN "mark"
                                          ELSE IF local[f] = tidy[k].book.captured[f] THEN "unlink"
                                          ELSE "files"]
        /\ UNCHANGED <<localVars, ledger>>

\* remove_file, by path: whatever is there by now.  If nothing is, the entry
\* stays for the next time.
Unlink(k) ==
    LET f == tidy[k].file IN
    /\ tidy[k].pc = "unlink"
    /\ TidyGoto(k, IF local[f] # Gone THEN "mark" ELSE "files")
    /\ local' = [local EXCEPT ![f] = Gone]
    /\ UNCHANGED <<sourceDir, writes, ledger>>

Marked(k, item, step) ==
    LET book == [tidy[k].book EXCEPT !.cleaned = @ \cup {item}] IN
    /\ tidy' = [tidy EXCEPT ![k].book = book, ![k].pc = step]
    /\ ledger' = [ledger EXCEPT ![tidy[k].run] = book]
    /\ UNCHANGED localVars

Mark(k) == tidy[k].pc = "mark" /\ Marked(k, tidy[k].file, "files")

\* can_remove_directory and remove_dir: files the ledger does not know, or that
\* are left, keep the directory.
TidyDirectory(k) ==
    /\ tidy[k].pc = "files" /\ tidy[k].todo = {}
    /\ \/ /\ Directory \notin tidy[k].book.cleaned
          /\ \A f \in Files : local[f] = Gone
          /\ sourceDir' = FALSE
          /\ TidyGoto(k, "mark_directory")
       \/ /\ Directory \in tidy[k].book.cleaned \/ \E f \in Files : local[f] # Gone
          /\ TidyGoto(k, "over")
          /\ UNCHANGED sourceDir
    /\ UNCHANGED <<local, writes, ledger>>

MarkDirectory(k) == tidy[k].pc = "mark_directory" /\ Marked(k, Directory, "over")

TidyStep(k) ==
    TryClean(k) \/ Unlink(k) \/ Mark(k) \/ TidyDirectory(k) \/ MarkDirectory(k)
=============================================================================
