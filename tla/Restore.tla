------------------------------- MODULE Restore -------------------------------
(***************************************************************************)
(* "add" and "restore" of projekt/src/projekt.c on trees with symbolic     *)
(* links: copy_recursive into an empty backup, then, after the user has    *)
(* changed the source, restore_copy and restore_clean.  Both run from      *)
(* beginning to end with nobody else at the two trees: "add" copies before *)
(* it watches, and "restore" is refused while the job is watched.          *)
(*                                                                         *)
(* Trees have two levels.  No link leads to a directory, and none stands   *)
(* where the backup holds a file or a directory: open, mkdir and lstat     *)
(* would follow it.                                                        *)
(***************************************************************************)
EXTENDS Naturals, Sequences, SequencesExt

CONSTANTS TopName, SubName   \* names at the two levels

Path == {<<x>> : x \in TopName} \cup (TopName \X SubName)

\* Contents of files.  v and w have the same size and modification time (in
\* whole seconds, as st_mtime has them); u differs from both.
File == {"u", "v", "w"}

\* Symbolic links, by where the target's text begins: with the path of the
\* source, with the path of the backup, or neither.
Link == {"to_src", "to_backup", "elsewhere"}

Entry == {"none", "dir"} \cup File \cup Link

\* An entry below the top level stands in a directory.
IsTree(t) == \A p \in Path : Len(p) = 2 /\ t[p] # "none" => t[Front(p)] = "dir"

VARIABLES src,     \* the source directory
          backup,  \* the backup directory
          saved,   \* the source when it was backed up (history)
          changed, \* the source when the restore began (history)
          again,   \* the restore is the second one (bound: there is no third)
          pc

vars == <<src, backup, saved, changed, again, pc>>

Empty == [p \in Path |-> "none"]

\* All trees, and those in which no link hides a file or a directory of b.
Trees == {t \in [Path -> Entry] : IsTree(t)}
Visible(t, b) == \A p \in Path : t[p] \in Link => b[p] \in Link \cup {"none"}

\* Link targets with the first prefix get the second one instead.
Rewrite(e, from, to) == IF e = from THEN to ELSE e

\* One entry of copy_recursive, into a place where there is nothing.
copy_recursive(t) == [p \in Path |-> Rewrite(t[p], "to_src", "to_backup")]

\* The test of restore_copy that spares unchanged files.
Unchanged(e, b) == e \in File /\ b \in File /\ (e = b \/ {e, b} = {"v", "w"})

ParentIsDir(t, p) == Len(p) = 1 \/ t[Front(p)] = "dir"

\* One entry of restore_copy.  mkdir leaves what is there; open and unlink fail
\* on a directory; all fail below something that is not a directory.
RestoreEntry(t, p) ==
    LET b == backup[p] IN
    IF b = "none" \/ ~ParentIsDir(t, p) THEN t[p]
    ELSE IF b = "dir" THEN IF t[p] = "none" THEN "dir" ELSE t[p]
    ELSE IF t[p] = "dir" \/ Unchanged(t[p], b) THEN t[p]
    ELSE Rewrite(b, "to_backup", "to_src")

RestoreLevel(t, k) == [p \in Path |-> IF Len(p) = k THEN RestoreEntry(t, p) ELSE t[p]]

restore_copy == RestoreLevel(RestoreLevel(src, 1), 2)

\* Mutant: restore_clean does not go into directories.
restore_clean_TopOnly ==
    [p \in Path |-> IF backup[<<p[1]>>] = "none" THEN "none" ELSE src[p]]

\* Mutant: a directory the backup does not have is removed, its contents stay.
restore_clean_NotBelow ==
    [p \in Path |-> IF Len(p) = 1 /\ backup[p] = "none" THEN "none" ELSE src[p]]

\* Mutant: a directory in the place of something else is cleaned away, after
\* restore_copy could not put anything there.
restore_clean_Conflicts ==
    [p \in Path |-> IF \E q \in Path : /\ IsPrefix(q, p)
                                       /\ backup[q] = "none" \/ (src[q] = "dir" /\ backup[q] # "dir")
                      THEN "none" ELSE src[p]]

\* Entries with no counterpart in the backup go, with all that is below them;
\* nothing below a file of the backup has one.
restore_clean ==
    [p \in Path |-> IF \E q \in Path : IsPrefix(q, p) /\ backup[q] = "none"
                      THEN "none" ELSE src[p]]

-----------------------------------------------------------------------------
Init ==
    /\ src \in Trees
    /\ backup = Empty
    /\ saved = Empty /\ changed = Empty /\ again = FALSE
    /\ pc = "add"

Add ==
    /\ pc = "add"
    /\ backup' = copy_recursive(src)
    /\ saved' = src
    /\ pc' = "edit"
    /\ UNCHANGED <<src, changed, again>>

\* "end", after which the user does as he likes with the source.
Edit ==
    /\ pc = "edit"
    /\ src' \in {t \in Trees : Visible(t, backup)}
    /\ changed' = src'
    /\ pc' = "restore_copy"
    /\ UNCHANGED <<backup, saved, again>>

RestoreCopy ==
    /\ pc = "restore_copy"
    /\ src' = restore_copy
    /\ pc' = "restore_clean"
    /\ UNCHANGED <<backup, saved, changed, again>>

RestoreClean ==
    /\ pc = "restore_clean"
    /\ src' = restore_clean
    /\ pc' = "done"
    /\ UNCHANGED <<backup, saved, changed, again>>

\* The user asks for it once more.
Again ==
    /\ pc = "done" /\ ~again
    /\ again' = TRUE
    /\ pc' = "restore_copy"
    /\ changed' = src
    /\ UNCHANGED <<src, backup, saved>>

Next == Add \/ Edit \/ RestoreCopy \/ RestoreClean \/ Again

Spec == Init /\ [][Next]_vars

-----------------------------------------------------------------------------
TypeOK ==
    /\ src \in [Path -> Entry] /\ IsTree(src)
    /\ backup \in [Path -> Entry] /\ IsTree(backup)
    /\ pc \in {"add", "edit", "restore_copy", "restore_clean", "done"}

Kind(e) == IF e = "dir" THEN "dir" ELSE "other"

\* A directory where the other tree has something that is not one.
Conflict(p) ==
    /\ changed[p] # "none" /\ saved[p] # "none"
    /\ Kind(changed[p]) # Kind(saved[p])

\* A restore brings back every entry as it was when it was backed up, and
\* nothing else, but for: a file changed within the second and to the same
\* size, which is left as it is; a link of the source that led into the
\* backup, which now leads into the source; and what stands at or below a
\* conflict between a directory and something else.
RestoresUnlessConflict ==
    pc = "done" =>
        \A p \in Path :
            \/ src[p] = saved[p]
            \/ Unchanged(changed[p], saved[p]) /\ src[p] = changed[p]
            \/ saved[p] = "to_backup" /\ src[p] = "to_src"
            \/ \E q \in Path : IsPrefix(q, p) /\ Conflict(q)

\* Restoring once more changes nothing: even what the first restore could not
\* put right it leaves in a state the second one has nothing to do to.
RestoresOnce == pc = "done" /\ again => src = changed

\* "restore <source> <backup> - restores a backup to a source": at "Done." the
\* source has a directory wherever the backup has one, and nowhere else.
RestoresDirectories ==
    pc = "done" => \A p \in Path : src[p] = "dir" <=> backup[p] = "dir"
=============================================================================
