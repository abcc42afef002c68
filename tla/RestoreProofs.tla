----------------------------- MODULE RestoreProofs -----------------------------
(***************************************************************************)
(* What a restore brings back, for any names and trees, and that a second  *)
(* restore changes nothing.                                                *)
(***************************************************************************)
EXTENDS Restore, SequenceTheorems, TLAPS

(* What a restore makes of the tree t: restore_copy, then restore_clean.    *)
Copied(t) == RestoreLevel(RestoreLevel(t, 1), 2)
Cleaned(t) == [p \in Path |-> IF \E q \in Path : IsPrefix(q, p) /\ backup[q] = "none"
                                THEN "none" ELSE t[p]]
Restored(t) == Cleaned(Copied(t))

(* What it makes of an entry e of a directory, where the backup has b.     *)
CopiedEntry(b, e) ==
    IF b = "none" THEN e
    ELSE IF b = "dir" THEN IF e = "none" THEN "dir" ELSE e
    ELSE IF e = "dir" \/ Unchanged(e, b) THEN e
    ELSE Rewrite(b, "to_backup", "to_src")
RestoredEntry(b, e) == IF b = "none" THEN "none" ELSE CopiedEntry(b, e)

Typed(t) == t \in [Path -> Entry] /\ IsTree(t)

RestoreIInv ==
    /\ Typed(src) /\ Typed(saved) /\ Typed(backup) /\ Typed(changed)
    /\ pc \in {"add", "edit", "restore_copy", "restore_clean", "done"}
    /\ pc = "add" => backup = Empty
    /\ pc # "add" => backup = copy_recursive(saved)
    /\ pc = "restore_copy" => src = changed
    /\ pc = "restore_clean" => src = Copied(changed)
    /\ pc = "done" => src = Restored(changed)
    /\ again => /\ pc \notin {"add", "edit"}
                /\ \E t \in [Path -> Entry] : IsTree(t) /\ changed = Restored(t)

-----------------------------------------------------------------------------
(* A path is a name, or a name below it; its prefixes are itself and, for   *)
(* the latter, the former.                                                  *)
LEMMA PathCases ==
  \A p \in Path : \/ \E x \in TopName : p = <<x>>
                  \/ \E x \in TopName, y \in SubName : p = <<x, y>>
BY DEF Path

LEMMA TopPath ==
  ASSUME NEW x \in TopName
  PROVE  <<x>> \in Path /\ Len(<<x>>) = 1
BY DEF Path

LEMMA SubPath ==
  ASSUME NEW x \in TopName, NEW y \in SubName
  PROVE  <<x, y>> \in Path /\ Len(<<x, y>>) = 2 /\ Front(<<x, y>>) = <<x>>
<1>1. <<x, y>> \in Path /\ Len(<<x, y>>) = 2
  BY DEF Path
<1>2. SubSeq(<<x, y>>, 1, 1) = <<x>>
  <2> DEFINE N == TopName \cup SubName
             s == SubSeq(<<x, y>>, 1, 1)
  <2>1. \A i \in 1..1 : <<x, y>>[i] \in N
    OBVIOUS
  <2>2. s \in Seq(N) /\ Len(s) = 1 /\ \A i \in 1..1 : s[i] = <<x, y>>[i]
    BY <2>1, SubSeqProperties
  <2>3. <<x>> \in Seq(N) /\ Len(<<x>>) = 1
    OBVIOUS
  <2> HIDE DEF N, s
  <2>4. \A i \in 1..Len(s) : s[i] = <<x>>[i]
    BY <2>2
  <2> QED
    BY <2>2, <2>3, <2>4, SeqEqual DEF s
<1> QED
  BY <1>1, <1>2 DEF Front

LEMMA TopPrefixes ==
  ASSUME NEW x \in TopName, NEW q \in Path
  PROVE  IsPrefix(q, <<x>>) <=> q = <<x>>
<1>1. CASE \E z \in TopName : q = <<z>>
  BY <1>1 DEF IsPrefix
<1>2. CASE \E z \in TopName, y \in SubName : q = <<z, y>>
  BY <1>2 DEF IsPrefix
<1> QED
  BY <1>1, <1>2, PathCases

LEMMA SubPrefixes ==
  ASSUME NEW x \in TopName, NEW y \in SubName, NEW q \in Path
  PROVE  IsPrefix(q, <<x, y>>) <=> q = <<x>> \/ q = <<x, y>>
<1>1. CASE \E z \in TopName : q = <<z>>
  BY <1>1 DEF IsPrefix
<1>2. CASE \E z \in TopName, w \in SubName : q = <<z, w>>
  BY <1>2 DEF IsPrefix
<1> QED
  BY <1>1, <1>2, PathCases

(* A tree is a tree name by name.                                          *)
LEMMA TreeByName ==
  ASSUME NEW t
  PROVE  IsTree(t) <=> \A x \in TopName, y \in SubName :
                          t[<<x, y>>] # "none" => t[<<x>>] = "dir"
<1>1. \A x \in TopName : Len(<<x>>) # 2
  BY TopPath
<1> QED
  BY <1>1, PathCases, SubPath DEF IsTree

(* What a restore makes of each path.                                      *)
LEMMA CopiedTop ==
  ASSUME NEW t \in [Path -> Entry], NEW x \in TopName
  PROVE  Copied(t)[<<x>>] = CopiedEntry(backup[<<x>>], t[<<x>>])
<1>1. <<x>> \in Path /\ Len(<<x>>) = 1
  BY TopPath
<1>2. Copied(t)[<<x>>] = RestoreLevel(t, 1)[<<x>>]
  BY <1>1 DEF Copied, RestoreLevel
<1>3. RestoreLevel(t, 1)[<<x>>] = RestoreEntry(t, <<x>>)
  BY <1>1 DEF RestoreLevel
<1>4. ParentIsDir(t, <<x>>)
  BY <1>1 DEF ParentIsDir
<1> QED
  BY <1>2, <1>3, <1>4 DEF RestoreEntry, CopiedEntry

LEMMA CopiedSub ==
  ASSUME NEW t \in [Path -> Entry], NEW x \in TopName, NEW y \in SubName
  PROVE  Copied(t)[<<x, y>>] =
            IF CopiedEntry(backup[<<x>>], t[<<x>>]) = "dir"
              THEN CopiedEntry(backup[<<x, y>>], t[<<x, y>>]) ELSE t[<<x, y>>]
<1> DEFINE t1 == RestoreLevel(t, 1)
<1>1. <<x, y>> \in Path /\ Len(<<x, y>>) = 2 /\ Front(<<x, y>>) = <<x>>
  BY SubPath
<1>2. t1[<<x, y>>] = t[<<x, y>>]
  BY <1>1 DEF RestoreLevel
<1>3. <<x>> \in Path /\ Len(<<x>>) = 1
  BY TopPath
<1>4. t1[<<x>>] = CopiedEntry(backup[<<x>>], t[<<x>>])
  BY <1>3 DEF RestoreLevel, RestoreEntry, ParentIsDir, CopiedEntry
<1>5. Copied(t)[<<x, y>>] = RestoreEntry(t1, <<x, y>>)
  BY <1>1 DEF Copied, RestoreLevel
<1>6. ParentIsDir(t1, <<x, y>>) <=> t1[<<x>>] = "dir"
  BY <1>1 DEF ParentIsDir
<1> HIDE DEF t1
<1> QED
  BY <1>2, <1>4, <1>5, <1>6 DEF RestoreEntry, CopiedEntry

LEMMA CleanedTop ==
  ASSUME NEW t, NEW x \in TopName
  PROVE  Cleaned(t)[<<x>>] = IF backup[<<x>>] = "none" THEN "none" ELSE t[<<x>>]
BY TopPath, TopPrefixes DEF Cleaned

LEMMA CleanedSub ==
  ASSUME NEW t, NEW x \in TopName, NEW y \in SubName
  PROVE  Cleaned(t)[<<x, y>>] =
            IF backup[<<x>>] = "none" \/ backup[<<x, y>>] = "none"
              THEN "none" ELSE t[<<x, y>>]
BY TopPath, SubPath, SubPrefixes DEF Cleaned

(* Entries stay entries, and directories stay.                             *)
LEMMA EntryTypes ==
  \A b, e \in Entry :
     /\ CopiedEntry(b, e) \in Entry /\ RestoredEntry(b, e) \in Entry
     /\ e = "dir" => CopiedEntry(b, e) = "dir"
     /\ Rewrite(e, "to_src", "to_backup") \in Entry
     /\ Rewrite(e, "to_src", "to_backup") \in {"none", "dir"} \/ e \in {"none", "dir"}
          => Rewrite(e, "to_src", "to_backup") = e
BY DEF CopiedEntry, RestoredEntry, Rewrite, Entry, File, Link

(* A second restore has nothing to do to an entry.                         *)
LEMMA EntryOnce ==
  \A b, e \in Entry : CopiedEntry(b, CopiedEntry(b, e)) = CopiedEntry(b, e)
BY DEF CopiedEntry, Rewrite, Unchanged, Entry, File, Link

(* A restored entry is the one that was saved, but for the cases named.    *)
LEMMA EntryBack ==
  \A s, e \in Entry :
     LET r == RestoredEntry(Rewrite(s, "to_src", "to_backup"), e)
     IN  \/ r = s
         \/ Unchanged(e, s) /\ r = e
         \/ s = "to_backup" /\ r = "to_src"
         \/ e # "none" /\ s # "none" /\ Kind(e) # Kind(s)
BY DEF RestoredEntry, CopiedEntry, Rewrite, Unchanged, Kind, Entry, File, Link

-----------------------------------------------------------------------------
(* The operators keep trees.                                               *)
LEMMA EntryAt ==
  ASSUME NEW t \in [Path -> Entry], NEW x \in TopName, NEW y \in SubName
  PROVE  t[<<x>>] \in Entry /\ t[<<x, y>>] \in Entry
BY TopPath, SubPath

LEMMA BackupIsTree ==
  ASSUME NEW t, Typed(t)
  PROVE  Typed(copy_recursive(t))
<1> DEFINE c == copy_recursive(t)
<1>1. \A p \in Path : /\ c[p] = Rewrite(t[p], "to_src", "to_backup") /\ c[p] \in Entry
                      /\ (c[p] \in {"none", "dir"} \/ t[p] \in {"none", "dir"} => c[p] = t[p])
  BY EntryTypes DEF copy_recursive, Typed
<1>2. c \in [Path -> Entry]
  BY <1>1 DEF copy_recursive
<1>3. ASSUME NEW x \in TopName, NEW y \in SubName, c[<<x, y>>] # "none"
      PROVE  c[<<x>>] = "dir"
  <2>1. t[<<x, y>>] # "none"
    BY <1>1, <1>3, SubPath
  <2>2. t[<<x>>] = "dir"
    BY <2>1, TreeByName DEF Typed
  <2> QED
    BY <1>1, <2>2, TopPath
<1> HIDE DEF c
<1>4. IsTree(c)
  BY <1>3, TreeByName
<1> QED
  BY <1>2, <1>4 DEF Typed, c

LEMMA CopiedIsTree ==
  ASSUME Typed(backup), NEW t, Typed(t)
  PROVE  Typed(Copied(t))
<1>1. t \in [Path -> Entry] /\ backup \in [Path -> Entry]
  BY DEF Typed
<1>2. ASSUME NEW p \in Path PROVE Copied(t)[p] \in Entry
  <2>1. CASE \E x \in TopName : p = <<x>>
    BY <1>1, <2>1, CopiedTop, EntryTypes
  <2>2. CASE \E x \in TopName, y \in SubName : p = <<x, y>>
    <3>1. PICK x \in TopName, y \in SubName : p = <<x, y>>
      BY <2>2
    <3>2. /\ backup[<<x>>] \in Entry /\ backup[<<x, y>>] \in Entry
          /\ t[<<x>>] \in Entry /\ t[<<x, y>>] \in Entry
      BY <1>1, EntryAt
    <3> QED
      BY <1>1, <3>1, <3>2, CopiedSub, EntryTypes
  <2> QED
    BY <2>1, <2>2, PathCases
<1>3. Copied(t) \in [Path -> Entry]
  BY <1>2 DEF Copied, RestoreLevel
<1>4. ASSUME NEW x \in TopName, NEW y \in SubName, Copied(t)[<<x, y>>] # "none"
      PROVE  Copied(t)[<<x>>] = "dir"
  <2>1. Copied(t)[<<x>>] = CopiedEntry(backup[<<x>>], t[<<x>>])
    BY <1>1, CopiedTop
  <2> SUFFICES ASSUME CopiedEntry(backup[<<x>>], t[<<x>>]) # "dir" PROVE FALSE
    BY <2>1
  <2>2. Copied(t)[<<x, y>>] = t[<<x, y>>]
    BY <1>1, CopiedSub
  <2>3. t[<<x>>] = "dir"
    BY <1>4, <2>2, TreeByName DEF Typed
  <2> QED
    BY <1>1, <2>3, EntryTypes, EntryAt
<1>5. IsTree(Copied(t))
  BY <1>4, TreeByName
<1> QED
  BY <1>3, <1>5 DEF Typed

(* The whole restore, name by name.                                        *)
LEMMA RestoredTop ==
  ASSUME NEW t \in [Path -> Entry], NEW x \in TopName
  PROVE  Restored(t)[<<x>>] = RestoredEntry(backup[<<x>>], t[<<x>>])
BY CleanedTop, CopiedTop DEF Restored, RestoredEntry

LEMMA RestoredSub ==
  ASSUME NEW t \in [Path -> Entry], NEW x \in TopName, NEW y \in SubName
  PROVE  Restored(t)[<<x, y>>] =
            IF backup[<<x>>] = "none" \/ backup[<<x, y>>] = "none" THEN "none"
            ELSE IF RestoredEntry(backup[<<x>>], t[<<x>>]) = "dir"
              THEN RestoredEntry(backup[<<x, y>>], t[<<x, y>>]) ELSE t[<<x, y>>]
BY CleanedSub, CopiedSub DEF Restored, RestoredEntry

LEMMA RestoredIsTree ==
  ASSUME Typed(backup), NEW t, Typed(t)
  PROVE  Typed(Restored(t))
<1> DEFINE c == Copied(t)
<1>1. c \in [Path -> Entry] /\ IsTree(c)
  BY CopiedIsTree DEF Typed
<1>2. Restored(t) = Cleaned(c)
  BY DEF Restored
<1> HIDE DEF c
<1>3. \A p \in Path : Cleaned(c)[p] \in {"none", c[p]}
  BY DEF Cleaned
<1>4. "none" \in Entry
  BY DEF Entry
<1>5. Cleaned(c) \in [Path -> Entry]
  BY <1>1, <1>3, <1>4 DEF Cleaned
<1>6. ASSUME NEW x \in TopName, NEW y \in SubName, Cleaned(c)[<<x, y>>] # "none"
      PROVE  Cleaned(c)[<<x>>] = "dir"
  <2>1. backup[<<x>>] # "none" /\ c[<<x, y>>] # "none"
    BY <1>6, CleanedSub
  <2>2. c[<<x>>] = "dir"
    BY <1>1, <2>1, TreeByName
  <2> QED
    BY <2>1, <2>2, CleanedTop
<1>7. IsTree(Cleaned(c))
  BY <1>6, TreeByName
<1> QED
  BY <1>2, <1>5, <1>7 DEF Typed

(* A second restore has nothing to do.                                     *)
LEMMA RestoredOnce ==
  ASSUME Typed(backup), NEW t, Typed(t)
  PROVE  Restored(Restored(t)) = Restored(t)
<1> DEFINE r == Restored(t)
<1>1. t \in [Path -> Entry] /\ r \in [Path -> Entry] /\ backup \in [Path -> Entry]
  BY RestoredIsTree DEF Typed
<1>2. ASSUME NEW x \in TopName
      PROVE  Restored(r)[<<x>>] = r[<<x>>]
  <2>1. r[<<x>>] = RestoredEntry(backup[<<x>>], t[<<x>>])
    BY <1>1, RestoredTop
  <2>2. Restored(r)[<<x>>] = RestoredEntry(backup[<<x>>], r[<<x>>])
    BY <1>1, RestoredTop
  <2>3. backup[<<x>>] \in Entry /\ t[<<x>>] \in Entry
    BY <1>1, TopPath
  <2> HIDE DEF r
  <2> QED
    BY <2>1, <2>2, <2>3, EntryOnce DEF RestoredEntry
<1>3. ASSUME NEW x \in TopName, NEW y \in SubName
      PROVE  Restored(r)[<<x, y>>] = r[<<x, y>>]
  <2> DEFINE bx == backup[<<x>>]  by == backup[<<x, y>>]
  <2>1. r[<<x, y>>] = IF bx = "none" \/ by = "none" THEN "none"
                      ELSE IF RestoredEntry(bx, t[<<x>>]) = "dir"
                        THEN RestoredEntry(by, t[<<x, y>>]) ELSE t[<<x, y>>]
    BY <1>1, RestoredSub
  <2>2. Restored(r)[<<x, y>>] = IF bx = "none" \/ by = "none" THEN "none"
                      ELSE IF RestoredEntry(bx, r[<<x>>]) = "dir"
                        THEN RestoredEntry(by, r[<<x, y>>]) ELSE r[<<x, y>>]
    BY <1>1, RestoredSub
  <2>3. bx \in Entry /\ by \in Entry /\ t[<<x>>] \in Entry /\ t[<<x, y>>] \in Entry
    BY <1>1, EntryAt
  <2>4. RestoredEntry(bx, r[<<x>>]) = r[<<x>>] /\ r[<<x>>] = RestoredEntry(bx, t[<<x>>])
    BY <1>1, <1>2, RestoredTop
  <2> HIDE DEF r, bx, by
  <2>5. by # "none" =>
           RestoredEntry(by, RestoredEntry(by, t[<<x, y>>])) = RestoredEntry(by, t[<<x, y>>])
    BY <2>3, EntryOnce DEF RestoredEntry
  <2> QED
    BY <2>1, <2>2, <2>4, <2>5
<1>4. \A p \in Path : Restored(r)[p] = r[p]
  BY <1>2, <1>3, PathCases
<1>5. Restored(r) \in [Path -> Entry]
  <2>1. Typed(r)
    BY RestoredIsTree
  <2> QED
    BY <2>1, RestoredIsTree DEF Typed
<1> HIDE DEF r
<1>6. Restored(r) = r
  BY <1>1, <1>4, <1>5
<1> QED
  BY <1>6 DEF r
-----------------------------------------------------------------------------
LEMMA RestoreInitIInv == Init => RestoreIInv
<1> SUFFICES ASSUME Init PROVE RestoreIInv
  OBVIOUS
<1>1. Typed(Empty)
  <2>1. Empty \in [Path -> Entry] /\ \A p \in Path : Empty[p] = "none"
    BY DEF Empty, Entry
  <2> QED
    BY <2>1 DEF Typed, IsTree
<1>2. Typed(src)
  BY DEF Init, Trees, Typed
<1> QED
  BY <1>1, <1>2 DEF Init, RestoreIInv

LEMMA RestoreNextIInv == RestoreIInv /\ [Next]_vars => RestoreIInv'
<1> SUFFICES ASSUME RestoreIInv, [Next]_vars PROVE RestoreIInv'
  OBVIOUS
<1>1. backup' = backup => \A t : Copied(t)' = Copied(t)
  BY DEF Copied, RestoreLevel, RestoreEntry
<1>2. backup' = backup => \A t : Restored(t)' = Restored(t)
  BY DEF Restored, Cleaned, Copied, RestoreLevel, RestoreEntry
<1>3. CASE Add
  <2>1. Typed(backup')
    BY <1>3, BackupIsTree DEF Add, RestoreIInv
  <2> QED
    BY <1>3, <2>1 DEF Add, RestoreIInv, Typed
<1>4. CASE Edit
  <2>1. Typed(src')
    BY <1>4 DEF Edit, Trees, Typed
  <2> QED
    BY <1>4, <2>1 DEF Edit, RestoreIInv, Typed, copy_recursive
<1>5. CASE RestoreCopy
  <2>1. src' = Copied(src) /\ src = changed
    BY <1>5 DEF RestoreCopy, restore_copy, Copied, RestoreIInv
  <2>2. Typed(src')
    BY <2>1, CopiedIsTree DEF RestoreIInv
  <2> QED
    BY <1>1, <1>2, <1>5, <2>1, <2>2 DEF RestoreCopy, RestoreIInv, Typed
<1>6. CASE RestoreClean
  <2>1. src' = Restored(changed)
    BY <1>6 DEF RestoreClean, restore_clean, Restored, Cleaned, RestoreIInv
  <2>2. Typed(src')
    BY <2>1, RestoredIsTree DEF RestoreIInv
  <2> QED
    BY <1>1, <1>2, <1>6, <2>1, <2>2 DEF RestoreClean, RestoreIInv, Typed
<1>7. CASE Again
  <2>1. changed \in [Path -> Entry] /\ IsTree(changed) /\ src = Restored(changed)
    BY <1>7 DEF Again, RestoreIInv, Typed
  <2> QED
    BY <1>1, <1>2, <1>7, <2>1 DEF Again, RestoreIInv, Typed
<1>8. CASE UNCHANGED vars
  BY <1>1, <1>2, <1>8 DEF vars, RestoreIInv, Typed
<1> QED
  BY <1>3, <1>4, <1>5, <1>6, <1>7, <1>8 DEF Next

LEMMA RestoreInvariance == Spec => []RestoreIInv
BY RestoreInitIInv, RestoreNextIInv, PTL DEF Spec

(* projekt.c, "add" and "restore": both directories stay trees of the kinds *)
(* of entries the code handles, whatever they are called and contain.      *)
THEOREM RestoreTypeCorrect == Spec => []TypeOK
<1>1. RestoreIInv => TypeOK
  BY DEF RestoreIInv, Typed, TypeOK
<1> QED
  BY <1>1, RestoreInvariance, PTL

(* projekt.c, restore_copy and restore_clean: every entry comes back as it *)
(* was saved, but for the cases the property names, for trees of any size. *)
THEOREM RestoresUnlessConflictHolds == Spec => []RestoresUnlessConflict
<1>1. RestoreIInv => RestoresUnlessConflict
  <2> SUFFICES ASSUME RestoreIInv, pc = "done", NEW p \in Path
               PROVE  \/ src[p] = saved[p]
                      \/ Unchanged(changed[p], saved[p]) /\ src[p] = changed[p]
                      \/ saved[p] = "to_backup" /\ src[p] = "to_src"
                      \/ \E q \in Path : IsPrefix(q, p) /\ Conflict(q)
    BY DEF RestoresUnlessConflict
  <2>1. /\ changed \in [Path -> Entry] /\ saved \in [Path -> Entry] /\ IsTree(saved)
        /\ IsTree(changed) /\ src = Restored(changed)
        /\ \A q \in Path : backup[q] = Rewrite(saved[q], "to_src", "to_backup")
    BY DEF RestoreIInv, Typed, copy_recursive
  <2>2. CASE \E x \in TopName : p = <<x>>
    <3>1. PICK x \in TopName : p = <<x>>
      BY <2>2
    <3>2. saved[p] \in Entry /\ changed[p] \in Entry
      BY <2>1
    <3>3. src[p] = RestoredEntry(Rewrite(saved[p], "to_src", "to_backup"), changed[p])
      BY <2>1, <3>1, RestoredTop
    <3>4. IsPrefix(p, p)
      BY <3>1, TopPrefixes
    <3> QED
      BY <3>2, <3>3, <3>4, EntryBack DEF Conflict
  <2>3. CASE \E x \in TopName, y \in SubName : p = <<x, y>>
    <3>1. PICK x \in TopName, y \in SubName : p = <<x, y>>
      BY <2>3
    <3> DEFINE q == <<x>>
    <3>2. q \in Path /\ IsPrefix(q, p) /\ IsPrefix(p, p)
      BY <3>1, TopPath, SubPrefixes
    <3>3. saved[p] \in Entry /\ changed[p] \in Entry /\ saved[q] \in Entry /\ changed[q] \in Entry
      BY <2>1, <3>2
    <3>4. src[p] = IF backup[q] = "none" \/ backup[p] = "none" THEN "none"
                   ELSE IF RestoredEntry(backup[q], changed[q]) = "dir"
                     THEN RestoredEntry(backup[p], changed[p]) ELSE changed[p]
      BY <2>1, <3>1, RestoredSub
    <3>5. /\ backup[q] = Rewrite(saved[q], "to_src", "to_backup")
          /\ backup[p] = Rewrite(saved[p], "to_src", "to_backup")
          /\ saved[p] # "none" => saved[q] = "dir"
      BY <2>1, <3>1, <3>2, TreeByName
    <3> HIDE DEF q
    <3>6. CASE saved[p] = "none"
      BY <3>4, <3>5, <3>6 DEF Rewrite
    <3>7. CASE saved[p] # "none"
      <4>1. saved[q] = "dir" /\ backup[q] = "dir" /\ backup[p] # "none"
        BY <3>3, <3>5, <3>7 DEF Rewrite
      <4>2. CASE RestoredEntry(backup[q], changed[q]) = "dir"
        <5>1. src[p] = RestoredEntry(Rewrite(saved[p], "to_src", "to_backup"), changed[p])
          BY <3>4, <3>5, <4>1, <4>2
        <5> QED
          BY <3>2, <3>3, <5>1, EntryBack DEF Conflict
      <4>3. CASE RestoredEntry(backup[q], changed[q]) # "dir"
        <5>1. changed[q] \notin {"none", "dir"}
          BY <4>1, <4>3 DEF RestoredEntry, CopiedEntry
        <5>2. Conflict(q)
          BY <4>1, <5>1 DEF Conflict, Kind
        <5> QED
          BY <3>2, <5>2
      <4> QED
        BY <4>2, <4>3
    <3> QED
      BY <3>6, <3>7
  <2> QED
    BY <2>2, <2>3, PathCases
<1> QED
  BY <1>1, RestoreInvariance, PTL

(* projekt.c, "restore" twice: the second one changes nothing, in trees of *)
(* any size.                                                               *)
THEOREM RestoresOnceHolds == Spec => []RestoresOnce
<1>1. RestoreIInv => RestoresOnce
  <2> SUFFICES ASSUME RestoreIInv, pc = "done", again PROVE src = changed
    BY DEF RestoresOnce
  <2>1. PICK t \in [Path -> Entry] : IsTree(t) /\ changed = Restored(t)
    BY DEF RestoreIInv
  <2>2. Typed(t) /\ Typed(backup) /\ src = Restored(changed)
    BY <2>1 DEF Typed, RestoreIInv
  <2> QED
    BY <2>1, <2>2, RestoredOnce
<1> QED
  BY <1>1, RestoreInvariance, PTL
=============================================================================
