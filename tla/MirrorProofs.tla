---------------------------- MODULE MirrorProofs ----------------------------
(***************************************************************************)
(* Proofs about the mirroring child of projekt.c, for any set of names and *)
(* inodes, any length of the watch map and of the event queue, and a user  *)
(* who may do anything at any time (any UserMay).                          *)
(***************************************************************************)
EXTENDS Mirror, FiniteSetTheorems, SequenceTheorems, WellFoundedInduction, TLAPS

Place == {Nowhere} \cup ((Dir \cup {Outside}) \X Name)
Cookie == {NoCookie} \cup (Node \X BOOLEAN \X BOOLEAN)
SelfMasks == {"delete_self", "ignored"}

\* What the kernel reports of an entry of a directory, and of an inode itself.
EventSet ==
    [mask : Masks \ SelfMasks, wd : Node \cup {Root}, name : Name, cookie : Cookie]
    \cup [mask : SelfMasks, wd : Node \cup {Root}, name : {""}, cookie : {NoCookie}]

Entry == [wd : Node \cup {Root}, path : Seq(Name)]

\* Before the source is watched for the first time the kernel reports nothing.
QuietAtFirst ==
    pc = "copy" \/ (pc = "watch" /\ target = <<>>) => watched = {} /\ events = <<>>

\* The kernel watches inodes that exist; and what it reports of the end of an
\* inode is true, and says that it watches the inode no longer.
SoundEvent ==
    {e \in EventSet : e.mask \in SelfMasks =>
        e.wd \notin watched /\ (e.wd # Root => at[e.wd] = Nowhere)}

WatchesExist ==
    /\ \A n \in watched : n # Root => at[n] # Nowhere
    /\ events \in Seq(SoundEvent)

\* Whatever the kernel watches is in the map: no event of it is passed over.
EveryWatchKnown == ~tooMany => \A n \in watched : Known(n)

PendingTyped == pending = NoCookie \/ pending \in Cookie \X Seq(Name)

MirrorIInv ==
    /\ TypeOK /\ map \in Seq(Entry) /\ PendingTyped /\ tooMany \in BOOLEAN
    /\ QuietAtFirst /\ WatchesExist /\ EveryWatchKnown

-----------------------------------------------------------------------------
(* Sequences, paths and inodes.                                            *)

LEMMA SeqWithin ==
  ASSUME NEW A, NEW B, NEW s \in Seq(A), \A i \in 1..Len(s) : s[i] \in B
  PROVE  s \in Seq(B)
<1>1. Len(s) \in Nat /\ s \in [1..Len(s) -> A]
  BY LenProperties
<1>2. s \in [1..Len(s) -> B]
  BY <1>1
<1> QED
  BY <1>1, <1>2

LEMMA LeastPlace ==
  ASSUME NEW T \in SUBSET Nat, T # {}
  PROVE  \E i \in T : \A k \in T : i <= k
<1> DEFINE R == OpToRel(<, Nat)
<1>1. IsWellFoundedOn(R, Nat)
  BY NatLessThanWellFounded
<1>2. \A i, k \in Nat : k < i => <<k, i>> \in R
  BY DEF OpToRel
<1> HIDE DEF R
<1>3. PICK i \in T : \A k \in T : ~(<<k, i>> \in R)
  BY <1>1, WFMin
<1>4. ASSUME NEW k \in T PROVE i <= k
  <2>1. i \in Nat /\ k \in Nat /\ ~(k < i)
    BY <1>2, <1>3
  <2> QED
    BY <2>1
<1> QED
  BY <1>4

LEMMA PathCases ==
  \A p \in Path : \/ \E x \in Name : p = <<x>> /\ Len(p) = 1
                  \/ \E x, y \in Name : p = <<x, y>> /\ Len(p) = 2
BY DEF Path

LEMMA SubPath ==
  ASSUME NEW x \in Name, NEW y \in Name
  PROVE  <<x, y>> \in Path /\ Len(<<x, y>>) = 2 /\ Front(<<x, y>>) = <<x>>
<1>1. <<x, y>> \in Path /\ Len(<<x, y>>) = 2
  BY DEF Path
<1>2. SubSeq(<<x, y>>, 1, 1) = <<x>>
  <2> DEFINE s == SubSeq(<<x, y>>, 1, 1)
  <2>1. \A i \in 1..1 : <<x, y>>[i] \in Name
    OBVIOUS
  <2>2. s \in Seq(Name) /\ Len(s) = 1 /\ \A i \in 1..1 : s[i] = <<x, y>>[i]
    BY <2>1, SubSeqProperties
  <2>3. <<x>> \in Seq(Name) /\ Len(<<x>>) = 1
    OBVIOUS
  <2> HIDE DEF s
  <2>4. \A i \in 1..Len(s) : s[i] = <<x>>[i]
    BY <2>2
  <2> QED
    BY <2>2, <2>3, <2>4, SeqEqual DEF s
<1> QED
  BY <1>1, <1>2 DEF Front

\* The parent of an entry is in the tree, and lies below what the parent does.
LEMMA ParentPath ==
  ASSUME NEW p \in Path, Len(p) = 2
  PROVE  /\ Front(p) \in Path /\ Len(Front(p)) = 1
         /\ \A q \in Seq(Name) : IsPrefix(q, Front(p)) => IsPrefix(q, p)
<1>1. PICK x \in Name, y \in Name : p = <<x, y>>
  BY PathCases
<1>2. Front(p) = <<x>>
  BY <1>1, SubPath
<1>3. <<x>> \in Path /\ Len(<<x>>) = 1
  BY DEF Path
<1>4. ASSUME NEW q \in Seq(Name), IsPrefix(q, <<x>>) PROVE IsPrefix(q, <<x, y>>)
  <2>1. Len(q) \in Nat /\ Len(q) <= 1 /\ SubSeq(q, 1, Len(q)) = SubSeq(<<x>>, 1, Len(q))
    BY <1>4, LenProperties DEF IsPrefix
  <2>2. CASE Len(q) = 0
    <3>1. SubSeq(<<x, y>>, 1, 0) = <<>> /\ SubSeq(q, 1, 0) = <<>>
      BY SubSeqEmpty
    <3> QED
      BY <2>2, <3>1 DEF IsPrefix
  <2>3. CASE Len(q) = 1
    <3>1. SubSeq(<<x, y>>, 1, 1) = <<x>>
      BY SubPath DEF Front
    <3>2. SubSeq(<<x>>, 1, 1) = <<x>>
      <4>1. <<x>> \in Seq(Name) /\ Len(<<x>>) = 1
        OBVIOUS
      <4> QED
        BY <4>1, SubSeqFull
    <3> QED
      BY <2>1, <2>3, <3>1, <3>2 DEF IsPrefix
  <2> QED
    BY <2>1, <2>2, <2>3
<1> QED
  BY <1>1, <1>2, <1>3, <1>4

\* Files are the inodes that are no directories; one at most is the root's.
LEMMA Nodes ==
  /\ \A n \in Node : n \notin DirNode => n \in FileNode
  /\ \A n \in Node : n # Root
  /\ DirNode \subseteq Node /\ FileNode \subseteq Node
  /\ \A d \in Dir \cup {Outside}, x \in Name : <<d, x>> # Nowhere
BY MirrorAssumption DEF Node, Dir

LEMMA AtNodes ==
  ASSUME NEW p \in Path
  PROVE  \A n \in At(p) : n \in Node /\ at[n] # Nowhere
<1>1. ASSUME NEW n \in At(p) PROVE n \in Node /\ at[n] # Nowhere
  <2>1. CASE Len(p) = 1
    BY <1>1, <2>1 DEF At, Under
  <2>2. CASE Len(p) # 1
    <3>1. PICK d \in DirNode : n \in Node /\ at[n] = <<d, p[2]>>
      BY <1>1, <2>2 DEF At
    <3>2. p[2] \in Name
      BY <2>2, PathCases
    <3> QED
      BY <3>1, <3>2, Nodes DEF Dir
  <2> QED
    BY <2>1, <2>2
<1> QED
  BY <1>1

LEMMA SourceTyped ==
  ASSUME TypeOK, NEW p
  PROVE  Source(p) \in Content /\ (Source(p) # "none" => p \in Path)
<1>1. CASE p \notin Path \/ At(p) = {}
  BY <1>1 DEF Source, Content
<1>2. CASE p \in Path /\ At(p) # {}
  <2> DEFINE n == CHOOSE m \in At(p) : TRUE
  <2>1. n \in Node
    BY <1>2, AtNodes
  <2>2. Source(p) = IF n \in DirNode THEN "dir" ELSE data[n]
    BY <1>2 DEF Source
  <2> HIDE DEF n
  <2>3. n \notin DirNode => data[n] \in Version
    BY <2>1, Nodes DEF TypeOK
  <2> QED
    BY <1>2, <2>2, <2>3 DEF Content
<1> QED
  BY <1>1, <1>2

-----------------------------------------------------------------------------
(* copy_recursive and remove_recursive keep the backup a tree.             *)

LEMMA CopyEntryTyped ==
  ASSUME TypeOK, NEW b \in [Path -> Content], NEW p \in Path
  PROVE  /\ CopyEntry(b, p) \in Content
         /\ b[p] = "dir" => CopyEntry(b, p) = "dir"
         /\ CopyEntry(b, p) # "none" => b[p] # "none" \/ ParentIsDir(b, p)
<1>1. Source(p) \in Content /\ b[p] \in Content /\ "dir" \in Content
  BY SourceTyped DEF Content
<1> QED
  BY <1>1 DEF CopyEntry

LEMMA CopyLevelTyped ==
  ASSUME TypeOK, NEW b \in [Path -> Content], IsTree(b), NEW p, NEW k \in {1, 2}
  PROVE  CopyLevel(b, p, k) \in [Path -> Content] /\ IsTree(CopyLevel(b, p, k))
<1> DEFINE c == CopyLevel(b, p, k)
<1>1. c \in [Path -> Content]
  BY CopyEntryTyped DEF CopyLevel
<1>2. \A q \in Path : \/ c[q] = b[q]
                      \/ Len(q) = k /\ c[q] = CopyEntry(b, q)
  BY DEF CopyLevel
<1> HIDE DEF c
<1>3. ASSUME NEW q \in Path, Len(q) = 2, c[q] # "none" PROVE c[Front(q)] = "dir"
  <2>1. Front(q) \in Path /\ Len(Front(q)) = 1
    BY <1>3, ParentPath
  <2>2. b[Front(q)] = "dir" => c[Front(q)] = "dir"
    BY <1>2, <2>1, CopyEntryTyped
  <2>3. b[q] # "none" \/ ParentIsDir(b, q)
    BY <1>2, <1>3, CopyEntryTyped
  <2>4. b[Front(q)] = "dir"
    BY <1>3, <2>3 DEF IsTree, ParentIsDir
  <2> QED
    BY <2>2, <2>4
<1>4. IsTree(c)
  BY <1>3 DEF IsTree
<1> QED
  BY <1>1, <1>4 DEF c

LEMMA CopyTyped ==
  ASSUME TypeOK, NEW b \in [Path -> Content], IsTree(b), NEW p
  PROVE  copy_recursive(b, p) \in [Path -> Content] /\ IsTree(copy_recursive(b, p))
<1>1. CopyLevel(b, p, 1) \in [Path -> Content] /\ IsTree(CopyLevel(b, p, 1))
  BY CopyLevelTyped
<1> QED
  BY <1>1, CopyLevelTyped DEF copy_recursive

LEMMA RemoveTyped ==
  ASSUME NEW b \in [Path -> Content], IsTree(b), NEW p \in Seq(Name)
  PROVE  remove_recursive(b, p) \in [Path -> Content] /\ IsTree(remove_recursive(b, p))
<1> DEFINE c == remove_recursive(b, p)
<1>1. c \in [Path -> Content]
  BY DEF remove_recursive, Content
<1>2. \A q \in Path : c[q] = IF IsPrefix(p, q) THEN "none" ELSE b[q]
  BY DEF remove_recursive
<1> HIDE DEF c
<1>3. ASSUME NEW q \in Path, Len(q) = 2, c[q] # "none" PROVE c[Front(q)] = "dir"
  BY <1>2, <1>3, ParentPath DEF IsTree
<1>4. IsTree(c)
  BY <1>3 DEF IsTree
<1> QED
  BY <1>1, <1>4 DEF c

-----------------------------------------------------------------------------
(* The map.                                                                *)

LEMMA EntryTyped ==
  ASSUME map \in Seq(Entry)
  PROVE  /\ Len(map) \in Nat /\ DOMAIN map = 1..Len(map)
         /\ \A i \in 1..Len(map) : /\ map[i] \in Entry /\ map[i].path \in Seq(Name)
                                   /\ map[i].wd \in Node \cup {Root}
<1>1. Len(map) \in Nat /\ DOMAIN map = 1..Len(map) /\ \A i \in 1..Len(map) : map[i] \in Entry
  BY LenProperties, ElementOfSeq
<1> QED
  BY <1>1 DEF Entry

\* find_watch and remove_from_map find an entry of the descriptor if there is one.
LEMMA FirstFound ==
  ASSUME map \in Seq(Entry), NEW wd, Known(wd)
  PROVE  FirstIndex(wd) \in 1..Len(map) /\ map[FirstIndex(wd)].wd = wd
<1>1. Indices(wd) \in SUBSET Nat /\ Indices(wd) # {}
  BY EntryTyped DEF Indices, Known
<1>2. \E i \in Indices(wd) : \A k \in Indices(wd) : i <= k
  BY <1>1, LeastPlace
<1>3. FirstIndex(wd) \in Indices(wd)
  BY <1>2 DEF FirstIndex
<1> QED
  BY <1>3 DEF Indices

LEMMA FoundPath ==
  ASSUME map \in Seq(Entry), NEW wd, Known(wd)
  PROVE  find_watch(wd) \in Seq(Name)
BY FirstFound, EntryTyped DEF find_watch

\* Freeing an entry loses no other descriptor.
LEMMA EntryRemoved ==
  ASSUME map \in Seq(Entry), NEW wd
  PROVE  /\ remove_from_map(wd) \in Seq(Entry)
         /\ Len(remove_from_map(wd)) <= Len(map)
         /\ \A i \in 1..Len(map) : map[i].wd # wd =>
               \E j \in 1..Len(remove_from_map(wd)) : remove_from_map(wd)[j].wd = map[i].wd
         /\ \A j \in 1..Len(remove_from_map(wd)) :
               \E i \in 1..Len(map) : remove_from_map(wd)[j] = map[i]
<1>1. CASE ~Known(wd)
  <2>1. remove_from_map(wd) = map
    BY <1>1 DEF remove_from_map, Known
  <2> QED
    BY <2>1, EntryTyped
<1>2. CASE Known(wd)
  <2> DEFINE k == FirstIndex(wd)
             n == Len(map)
             m == [map EXCEPT ![k] = Last(map)]
             r == remove_from_map(wd)
  <2>1. k \in 1..n /\ map[k].wd = wd /\ n \in Nat /\ n >= 1
    BY <1>2, FirstFound, EntryTyped
  <2>2. Last(map) \in Entry /\ Last(map) = map[n]
    BY <2>1, ElementOfSeq DEF Last
  <2>3. m \in Seq(Entry) /\ Len(m) = n
    BY <2>1, <2>2, ExceptSeq
  <2>4. \A i \in 1..n : m[i] = IF i = k THEN map[n] ELSE map[i]
    BY <2>1, <2>2, ExceptSeq
  <2>5. r = SubSeq(m, 1, n - 1)
    BY <1>2, <2>3 DEF remove_from_map, Known, Front
  <2> HIDE DEF k, n, m
  <2>6. \A i \in 1..(n - 1) : m[i] \in Entry
    BY <2>1, <2>3, ElementOfSeq
  <2>7. r \in Seq(Entry) /\ Len(r) = n - 1 /\ \A i \in 1..(n - 1) : r[i] = m[i]
    <3>1. 1 \in Int /\ n - 1 \in Int /\ n - 1 - 1 + 1 = n - 1 /\ n - 1 >= 0
      BY <2>1
    <3>2. /\ SubSeq(m, 1, n - 1) \in Seq(Entry)
          /\ Len(SubSeq(m, 1, n - 1)) = IF 1 <= n - 1 THEN n - 1 - 1 + 1 ELSE 0
          /\ \A i \in 1..(n - 1 - 1 + 1) : SubSeq(m, 1, n - 1)[i] = m[1 + i - 1]
      BY <2>6, <3>1, SubSeqProperties
    <3>3. \A i \in 1..(n - 1) : 1 + i - 1 = i
      OBVIOUS
    <3> QED
      BY <2>1, <2>5, <3>1, <3>2, <3>3
  <2> HIDE DEF r
  <2>8. ASSUME NEW i \in 1..n, map[i].wd # wd PROVE \E j \in 1..(n - 1) : r[j].wd = map[i].wd
    <3>1. i # k
      BY <2>1, <2>8
    <3>2. CASE i = n
      <4>1. k \in 1..(n - 1)
        BY <2>1, <3>1, <3>2
      <4> QED
        BY <2>1, <2>4, <2>7, <3>2, <4>1
    <3>3. CASE i # n
      <4>1. i \in 1..(n - 1)
        BY <2>1, <3>3
      <4> QED
        BY <2>1, <2>4, <2>7, <3>1, <4>1
    <3> QED
      BY <3>2, <3>3
  <2>9. n - 1 <= n
    BY <2>1
  <2>10. ASSUME NEW j \in 1..(n - 1) PROVE \E i \in 1..n : r[j] = map[i]
    <3>1. r[j] = m[j] /\ j \in 1..n /\ n \in 1..n
      BY <2>1, <2>7
    <3> QED
      BY <2>4, <3>1
  <2> QED
    BY <2>7, <2>8, <2>9, <2>10 DEF n, r
<1> QED
  BY <1>1, <1>2

\* A renamed directory changes paths, and no descriptor.
LEMMA PathsUpdated ==
  ASSUME map \in Seq(Entry), NEW old \in Seq(Name), NEW new \in Seq(Name)
  PROVE  /\ update_watch_paths(old, new) \in Seq(Entry)
         /\ Len(update_watch_paths(old, new)) = Len(map)
         /\ \A i \in 1..Len(map) : update_watch_paths(old, new)[i].wd = map[i].wd
<1> DEFINE u == update_watch_paths(old, new)
           below(i) == new \o SubSeq(map[i].path, Len(old) + 1, Len(map[i].path))
<1>1. ASSUME NEW i \in 1..Len(map) PROVE below(i) \in Seq(Name)
  <2> DEFINE p == map[i].path
             m == Len(old) + 1
             n == Len(p)
  <2>1. p \in Seq(Name) /\ m \in Int /\ n \in Int /\ m >= 1
    BY EntryTyped, LenProperties
  <2>2. \A j \in m..n : p[j] \in Name
    BY <2>1, ElementOfSeq
  <2>3. SubSeq(p, m, n) \in Seq(Name)
    BY <2>1, <2>2, SubSeqProperties
  <2> QED
    BY <2>3, ConcatProperties
<1>2. \A i \in 1..Len(map) :
        u[i] = IF IsPrefix(old, map[i].path) THEN [map[i] EXCEPT !.path = below(i)] ELSE map[i]
  BY DEF update_watch_paths
<1>3. DOMAIN u = 1..Len(map) /\ u = [i \in 1..Len(map) |-> u[i]]
  BY DEF update_watch_paths
<1> HIDE DEF u, below
<1>4. ASSUME NEW i \in 1..Len(map) PROVE u[i] \in Entry /\ u[i].wd = map[i].wd
  <2>1. map[i] \in Entry /\ below(i) \in Seq(Name)
    BY <1>1, EntryTyped
  <2>2. [map[i] EXCEPT !.path = below(i)] \in Entry
        /\ [map[i] EXCEPT !.path = below(i)].wd = map[i].wd
    BY <2>1 DEF Entry
  <2> QED
    BY <1>2, <2>1, <2>2
<1>5. u \in [1..Len(map) -> Entry] /\ Len(map) \in Nat
  BY <1>3, <1>4, EntryTyped
<1>6. u \in Seq(Entry) /\ Len(u) = Len(map)
  BY <1>5
<1> QED
  BY <1>4, <1>6 DEF u

-----------------------------------------------------------------------------
(* What add_watch_recursive meets.                                         *)

\* An inode of the source, below its root or below a directory that is.
InSource(n) ==
    \/ n = Root
    \/ /\ n \in Node /\ at[n] # Nowhere
       /\ at[n][1] = Root \/ (at[n][1] \in DirNode /\ at[at[n][1]] # Nowhere)

LEMMA BelowInSource ==
  ASSUME NEW D, \A d \in D : d \in Dir /\ (d # Root => at[d] # Nowhere)
  PROVE  \A n \in UNION {Under(d) \cap DirNode : d \in D} :
            n \in DirNode /\ n # Root /\ at[n] # Nowhere /\ InSource(n)
<1>1. ASSUME NEW d \in D, NEW n \in Under(d) \cap DirNode
      PROVE  n \in DirNode /\ n # Root /\ at[n] # Nowhere /\ InSource(n)
  <2>1. n \in DirNode /\ n \in Node /\ at[n] # Nowhere /\ at[n][1] = d
    BY <1>1 DEF Under
  <2>2. d = Root \/ (d \in DirNode /\ at[d] # Nowhere)
    BY <1>1 DEF Dir
  <2> QED
    BY <2>1, <2>2, Nodes DEF InSource
<1> QED
  BY <1>1

LEMMA VisitedInSource ==
  ASSUME NEW p \in Path \cup {<<>>}
  PROVE  /\ \A n \in Visited(p) : /\ n \in Node \cup {Root} /\ InSource(n)
                                  /\ n # Root => at[n] # Nowhere
         /\ Root \in Visited(p) => p = <<>>
         /\ IsFiniteSet(Visited(p))
<1> DEFINE first == IF p = <<>> THEN {Root} ELSE At(p)
           below(D) == UNION {Under(d) \cap DirNode : d \in D}
           one == below(first \cap Dir)
           two == below(one)
<1>1. Visited(p) = first \cup one \cup two
  BY DEF Visited
<1>2. \A n \in first : \/ n = Root /\ p = <<>>
                       \/ n \in Node /\ n # Root /\ at[n] # Nowhere /\ InSource(n)
  <2>1. CASE p = <<>>
    BY <2>1
  <2>2. ASSUME p # <<>>, NEW n \in At(p)
        PROVE  n \in Node /\ n # Root /\ at[n] # Nowhere /\ InSource(n)
    <3>1. p \in Path
      BY <2>2
    <3>2. n \in Node /\ n # Root /\ at[n] # Nowhere
      BY <2>2, <3>1, AtNodes, Nodes
    <3>3. CASE Len(p) = 1
      BY <2>2, <3>2, <3>3 DEF At, Under, InSource
    <3>4. CASE Len(p) # 1
      <4>1. PICK d \in DirNode : at[d] = <<Root, p[1]>> /\ at[n] = <<d, p[2]>>
        BY <2>2, <3>4 DEF At
      <4>2. p[1] \in Name
        BY <3>1, PathCases
      <4>3. at[d] # Nowhere /\ at[n][1] = d
        BY <4>1, <4>2, Nodes DEF Dir
      <4> QED
        BY <3>2, <4>3 DEF InSource
    <3> QED
      BY <3>3, <3>4, <3>2
  <2> QED
    BY <2>1, <2>2
<1>3. \A d \in first \cap Dir : d \in Dir /\ (d # Root => at[d] # Nowhere)
  BY <1>2
<1>4. \A n \in one : n \in DirNode /\ n # Root /\ at[n] # Nowhere /\ InSource(n)
  <2> DEFINE D == first \cap Dir
  <2>1. \A d \in D : d \in Dir /\ (d # Root => at[d] # Nowhere)
    BY <1>3
  <2> HIDE DEF D
  <2>2. \A n \in below(D) : n \in DirNode /\ n # Root /\ at[n] # Nowhere /\ InSource(n)
    BY <2>1, BelowInSource
  <2> QED
    BY <2>2 DEF D
<1> HIDE DEF first, one
<1>5. \A n \in two : n \in DirNode /\ n # Root /\ at[n] # Nowhere /\ InSource(n)
  <2>1. \A d \in one : d \in Dir /\ (d # Root => at[d] # Nowhere)
    BY <1>4 DEF Dir
  <2> QED
    BY <2>1, BelowInSource
<1> HIDE DEF two
<1>6. \A n \in Visited(p) : \/ n = Root /\ p = <<>>
                            \/ n \in Node /\ n # Root /\ at[n] # Nowhere /\ InSource(n)
  BY <1>1, <1>2, <1>4, <1>5, Nodes
<1>7. IsFiniteSet(Node \cup {Root})
  BY MirrorAssumption, FS_AddElement
<1>8. IsFiniteSet(Visited(p))
  <2>1. Visited(p) \subseteq Node \cup {Root}
    BY <1>6
  <2> QED
    BY <1>7, <2>1, FS_Subset
<1>9. \A n \in Visited(p) : InSource(n)
  BY <1>6 DEF InSource
<1> QED
  BY <1>6, <1>8, <1>9

LEMMA PathOfTyped ==
  ASSUME TypeOK, NEW n, InSource(n)
  PROVE  PathOf(n) \in Seq(Name)
<1>1. \A m \in Node : at[m] # Nowhere => at[m][2] \in Name
  BY DEF TypeOK
<1>2. CASE n = Root
  BY <1>2 DEF PathOf
<1>3. CASE n # Root
  <2>1. n \in Node /\ at[n][2] \in Name
    BY <1>1, <1>3 DEF InSource
  <2>2. CASE at[n][1] = Root
    BY <1>3, <2>1, <2>2 DEF PathOf
  <2>3. CASE at[n][1] # Root
    <3>1. at[at[n][1]][2] \in Name
      BY <1>1, <1>3, <2>3, Nodes DEF InSource
    <3> QED
      BY <1>3, <2>1, <2>3, <3>1 DEF PathOf
  <2> QED
    BY <2>2, <2>3
<1> QED
  BY <1>2, <1>3

\* However readdir orders the inodes, each is met.
LEMMA OrderCovers ==
  ASSUME NEW S, IsFiniteSet(S), NEW order \in SetToSeqs(S)
  PROVE  /\ Len(order) \in Nat /\ DOMAIN order = 1..Len(order)
         /\ \A i \in 1..Len(order) : order[i] \in S
         /\ \A n \in S : \E i \in 1..Len(order) : order[i] = n
<1> DEFINE c == Cardinality(S)
           D == 1..c
<1>1. c \in Nat
  BY FS_CardinalityType
<1>2. order \in [D -> S] /\ \A i, j \in D : i # j => order[i] # order[j]
  BY DEF SetToSeqs
<1> HIDE DEF c
<1>3. IsFiniteSet(D) /\ Cardinality(D) = c
  <2>1. Cardinality(D) = IF 1 > c THEN 0 ELSE c - 1 + 1
    BY <1>1, FS_Interval
  <2>2. IsFiniteSet(D)
    BY <1>1, FS_Interval
  <2> QED
    BY <1>1, <2>1, <2>2
<1>4. Len(order) = c
  BY <1>1, <1>2
<1> HIDE DEF D
<1>5. order \in Injection(D, S)
  BY <1>2 DEF Injection, IsInjective
<1>6. order \in Surjection(D, S)
  BY <1>3, <1>5, FS_Injection DEF c
<1>7. \A n \in S : \E i \in D : order[i] = n
  BY <1>6 DEF Surjection
<1> QED
  BY <1>1, <1>2, <1>4, <1>7 DEF D

\* add_watch_recursive never goes past the end of the map, and with room in it
\* loses nothing it holds or meets.
LEMMA WatchesAdded ==
  ASSUME TypeOK, map \in Seq(Entry), tooMany \in BOOLEAN,
         NEW p \in Path \cup {<<>>}, add_watch_recursive(p)
  PROVE  /\ map' \in Seq(Entry) /\ Len(map') <= MaxWatches /\ tooMany' \in BOOLEAN
         /\ watched' = watched \cup Visited(p)
         /\ ~tooMany' =>
              /\ ~tooMany
              /\ \A i \in 1..Len(map) : \E j \in 1..Len(map') : map'[j].wd = map[i].wd
              /\ \A n \in Visited(p) : \E j \in 1..Len(map') : map'[j].wd = n
              /\ \A i \in 1..Len(map') :
                    \/ \E j \in 1..Len(map) : map'[i] = map[j]
                    \/ \E n \in Visited(p) : map'[i].wd = n /\ map'[i].path = PathOf(n)
<1>0. \A v \in Visited(p) : v \in Node \cup {Root} /\ InSource(v)
  BY VisitedInSource
<1>1. PICK order \in SetToSeqs(Visited(p)) :
        LET all == map \o [i \in DOMAIN order |-> [wd |-> order[i], path |-> PathOf(order[i])]]
        IN  /\ map' = SubSeq(all, 1, IF Len(all) < MaxWatches THEN Len(all) ELSE MaxWatches)
            /\ tooMany' = (tooMany \/ Len(all) > MaxWatches)
  BY DEF add_watch_recursive
<1> DEFINE n == Len(order)
           met == [i \in DOMAIN order |-> [wd |-> order[i], path |-> PathOf(order[i])]]
           all == map \o met
           k == IF Len(all) < MaxWatches THEN Len(all) ELSE MaxWatches
<1>2. /\ n \in Nat /\ DOMAIN order = 1..n /\ \A i \in 1..n : order[i] \in Visited(p)
      /\ \A v \in Visited(p) : \E i \in 1..n : order[i] = v
  BY VisitedInSource, OrderCovers
<1>3. /\ met \in Seq(Entry) /\ Len(met) = n
      /\ \A i \in 1..n : met[i].wd = order[i] /\ met[i].path = PathOf(order[i])
  <2>1. ASSUME NEW i \in 1..n
        PROVE  order[i] \in Node \cup {Root} /\ PathOf(order[i]) \in Seq(Name)
    <3>1. order[i] \in Visited(p)
      BY <1>2
    <3>2. order[i] \in Node \cup {Root} /\ InSource(order[i])
      BY <1>0, <3>1
    <3> QED
      BY <3>2, PathOfTyped
  <2> DEFINE entry(i) == [wd |-> order[i], path |-> PathOf(order[i])]
  <2>2. \A i \in 1..n : entry(i) \in Entry /\ entry(i).wd = order[i] /\ entry(i).path = PathOf(order[i])
    BY <2>1 DEF Entry
  <2>3. met = [i \in 1..n |-> entry(i)]
    BY <1>2
  <2> HIDE DEF entry, met, n
  <2>4. met \in [1..n -> Entry] /\ n \in Nat /\ \A i \in 1..n : met[i] = entry(i)
    BY <1>2, <2>2, <2>3
  <2>5. met \in Seq(Entry) /\ Len(met) = n
    BY <2>4
  <2> QED
    BY <2>2, <2>4, <2>5
<1>4. map' = SubSeq(all, 1, k) /\ tooMany' = (tooMany \/ Len(all) > MaxWatches)
  BY <1>1
<1> HIDE DEF met, n
<1>5. /\ all \in Seq(Entry) /\ Len(all) = Len(map) + n
      /\ \A i \in 1..(Len(map) + n) : all[i] = IF i <= Len(map) THEN map[i] ELSE met[i - Len(map)]
  BY <1>3, ConcatProperties
<1>6. Len(map) \in Nat /\ n \in Nat /\ MaxWatches \in Nat
  BY <1>2, EntryTyped, MirrorAssumption
<1> HIDE DEF all
<1>7. k \in Nat /\ k <= MaxWatches /\ k <= Len(all)
  BY <1>5, <1>6
<1> HIDE DEF k
<1>8. map' \in Seq(Entry) /\ Len(map') = k
  <2>1. \A i \in 1..k : all[i] \in Entry
    BY <1>5, <1>6, <1>7, ElementOfSeq
  <2>2. SubSeq(all, 1, k) \in Seq(Entry) /\ Len(SubSeq(all, 1, k)) = IF 1 <= k THEN k - 1 + 1 ELSE 0
    BY <1>7, <2>1, SubSeqProperties
  <2> QED
    BY <1>4, <1>7, <2>2
<1>9. ASSUME ~tooMany'
      PROVE  /\ ~tooMany
             /\ \A i \in 1..Len(map) : \E j \in 1..Len(map') : map'[j].wd = map[i].wd
             /\ \A v \in Visited(p) : \E j \in 1..Len(map') : map'[j].wd = v
             /\ \A i \in 1..Len(map') :
                   \/ \E j \in 1..Len(map) : map'[i] = map[j]
                   \/ \E v \in Visited(p) : map'[i].wd = v /\ map'[i].path = PathOf(v)
  <2>1. ~tooMany /\ ~(Len(all) > MaxWatches)
    BY <1>4, <1>9
  <2>2. k = Len(all)
    BY <1>5, <1>6, <2>1 DEF k
  <2>3. map' = all
    BY <1>4, <1>5, <2>2, SubSeqFull
  <2>4. ASSUME NEW i \in 1..Len(map) PROVE \E j \in 1..Len(map') : map'[j].wd = map[i].wd
    <3>1. i \in 1..(Len(map) + n) /\ i <= Len(map)
      BY <1>6
    <3> QED
      BY <1>5, <2>3, <3>1
  <2>5. ASSUME NEW v \in Visited(p) PROVE \E j \in 1..Len(map') : map'[j].wd = v
    <3>1. PICK i \in 1..n : order[i] = v
      BY <1>2
    <3> DEFINE j == Len(map) + i
    <3>2. j \in 1..(Len(map) + n) /\ ~(j <= Len(map)) /\ j - Len(map) = i
      BY <1>6
    <3>3. all[j] = met[i]
      BY <1>5, <3>2
    <3> QED
      BY <1>3, <1>5, <2>3, <3>1, <3>2, <3>3
  <2>6. ASSUME NEW i \in 1..Len(map')
        PROVE  \/ \E j \in 1..Len(map) : map'[i] = map[j]
               \/ \E v \in Visited(p) : map'[i].wd = v /\ map'[i].path = PathOf(v)
    <3>1. map'[i] = IF i <= Len(map) THEN map[i] ELSE met[i - Len(map)]
      BY <1>5, <2>3
    <3>2. CASE i <= Len(map)
      <4>1. i \in 1..Len(map)
        BY <1>6, <3>2
      <4> QED
        BY <3>1, <3>2, <4>1
    <3>3. CASE ~(i <= Len(map))
      <4>1. i - Len(map) \in 1..n
        BY <1>5, <1>6, <2>3, <3>3
      <4>2. /\ order[i - Len(map)] \in Visited(p)
            /\ map'[i].wd = order[i - Len(map)] /\ map'[i].path = PathOf(order[i - Len(map)])
        BY <1>2, <1>3, <3>1, <3>3, <4>1
      <4> QED
        BY <4>2
    <3> QED
      BY <3>2, <3>3
  <2> QED
    BY <2>1, <2>4, <2>5, <2>6
<1>10. watched' = watched \cup Visited(p)
  BY DEF add_watch_recursive
<1>11. tooMany' \in BOOLEAN
  BY <1>4
<1> QED
  BY <1>7, <1>8, <1>9, <1>10, <1>11

-----------------------------------------------------------------------------
(* What the kernel reports.                                                *)

LEMMA EventsTyped ==
  ASSUME events \in Seq(SoundEvent), events # <<>>
  PROVE  /\ Head(events) \in SoundEvent /\ Tail(events) \in Seq(SoundEvent)
         /\ Head(events).wd \in Node \cup {Root} /\ Head(events).cookie \in Cookie
         /\ Head(events).mask \in Masks
         /\ Head(events).mask \notin SelfMasks => Head(events).name \in Name
         /\ Head(events).mask \in SelfMasks => Head(events).wd \notin watched
<1>1. Head(events) \in SoundEvent /\ Tail(events) \in Seq(SoundEvent)
  BY HeadTailProperties
<1> DEFINE e == Head(events)
<1>2. e \in EventSet /\ (e.mask \in SelfMasks => e.wd \notin watched)
  BY <1>1 DEF SoundEvent
<1> HIDE DEF e
<1>3. /\ e.wd \in Node \cup {Root} /\ e.cookie \in Cookie /\ e.mask \in Masks
      /\ e.mask \notin SelfMasks => e.name \in Name
  BY <1>2 DEF EventSet, Cookie, Masks, SelfMasks
<1> QED
  BY <1>1, <1>2, <1>3 DEF e

LEMMA EventTyped ==
  ASSUME NEW S, NEW mask \in Masks \ SelfMasks, NEW d, NEW x \in Name, NEW cookie \in Cookie,
         watched \subseteq Node \cup {Root},
         \A e \in EventSet : e.mask \notin SelfMasks => e \in S
  PROVE  Event(mask, d, x, cookie) \in Seq(S)
<1>1. CASE d \in watched
  <2> DEFINE e == [mask |-> mask, wd |-> d, name |-> x, cookie |-> cookie]
  <2>1. e \in EventSet /\ e.mask = mask
    BY <1>1 DEF EventSet
  <2>2. e \in S
    BY <2>1
  <2> HIDE DEF e
  <2>3. <<e>> \in Seq(S)
    BY <2>2
  <2> QED
    BY <1>1, <2>3 DEF Event, e
<1>2. CASE d \notin watched
  BY <1>2 DEF Event
<1> QED
  BY <1>1, <1>2

LEMMA SelfGoneTyped ==
  ASSUME NEW S, NEW n, watched \subseteq Node \cup {Root},
         \A e \in EventSet : e.mask \in SelfMasks /\ e.wd = n => e \in S
  PROVE  SelfGone(n) \in Seq(S)
<1>1. CASE n \in watched
  <2> DEFINE e(mask) == [mask |-> mask, wd |-> n, name |-> "", cookie |-> NoCookie]
  <2>1. \A mask \in SelfMasks : e(mask) \in EventSet /\ e(mask).mask = mask /\ e(mask).wd = n
    BY <1>1 DEF EventSet
  <2>2. \A mask \in SelfMasks : e(mask) \in S
    BY <2>1
  <2>3. SelfGone(n) = <<e("delete_self")>> \o <<e("ignored")>>
    BY <1>1 DEF SelfGone, Event
  <2> HIDE DEF e
  <2>4. e("delete_self") \in S /\ e("ignored") \in S
    BY <2>2 DEF SelfMasks
  <2>5. <<e("delete_self")>> \in Seq(S) /\ <<e("ignored")>> \in Seq(S)
    BY <2>4
  <2> QED
    BY <2>3, <2>5, ConcatProperties
<1>2. CASE n \notin watched
  <2>1. SelfGone(n) = <<>> \o <<>>
    BY <1>2 DEF SelfGone, Event
  <2>2. <<>> \in Seq(S)
    OBVIOUS
  <2> QED
    BY <2>1, <2>2, ConcatProperties
<1> QED
  BY <1>1, <1>2

LEMMA EventSound ==
  ASSUME TypeOK, NEW mask \in Masks \ SelfMasks, NEW d, NEW x \in Name, NEW cookie \in Cookie
  PROVE  /\ Event(mask, d, x, cookie) \in Seq(SoundEvent')
         /\ watched = {} => Event(mask, d, x, cookie) = <<>>
<1>1. watched \subseteq Node \cup {Root}
  BY DEF TypeOK
<1>2. \A e \in EventSet : e.mask \notin SelfMasks => e \in SoundEvent'
  BY DEF SoundEvent
<1>3. Event(mask, d, x, cookie) \in Seq(SoundEvent')
  BY <1>1, <1>2, EventTyped
<1>4. watched = {} => Event(mask, d, x, cookie) = <<>>
  BY DEF Event
<1> QED
  BY <1>3, <1>4

LEMMA EndSound ==
  ASSUME TypeOK, NEW n, n \notin watched', n # Root => at'[n] = Nowhere
  PROVE  SelfGone(n) \in Seq(SoundEvent') /\ (watched = {} => SelfGone(n) = <<>>)
<1>1. watched \subseteq Node \cup {Root}
  BY DEF TypeOK
<1>2. \A e \in EventSet : e.mask \in SelfMasks /\ e.wd = n => e \in SoundEvent'
  BY DEF SoundEvent
<1>3. SelfGone(n) \in Seq(SoundEvent')
  BY <1>1, <1>2, SelfGoneTyped
<1>4. ASSUME watched = {} PROVE SelfGone(n) = <<>>
  <2>1. SelfGone(n) = <<>> \o <<>>
    BY <1>4 DEF SelfGone, Event
  <2> QED
    BY <2>1, ConcatEmptySeq, EmptySeq
<1> QED
  BY <1>3, <1>4

\* The events queued so far stay true unless a dead inode they name comes back.
LEMMA StillSound ==
  ASSUME events \in Seq(SoundEvent), watched' \subseteq watched,
         \A i \in 1..Len(events) : events[i].wd \in Node /\ at[events[i].wd] = Nowhere
                                    => at'[events[i].wd] = Nowhere
  PROVE  events \in Seq(SoundEvent')
<1>1. ASSUME NEW i \in 1..Len(events) PROVE events[i] \in SoundEvent'
  <2>1. events[i] \in SoundEvent
    BY ElementOfSeq
  <2>2. events[i].wd \in Node \cup {Root}
    BY <2>1 DEF SoundEvent, EventSet
  <2> QED
    BY <2>1, <2>2 DEF SoundEvent
<1> QED
  BY <1>1, SeqWithin

LEMMA SoundTyped ==
  ASSUME NEW s \in Seq(EventSet)
  PROVE  \A i \in 1..Len(s) : s[i].mask \in Masks /\ s[i].wd \in Node \cup {Root}
<1>1. \A e \in EventSet : e.mask \in Masks /\ e.wd \in Node \cup {Root}
  BY DEF EventSet, Masks, SelfMasks
<1> QED
  BY <1>1, ElementOfSeq

-----------------------------------------------------------------------------
(* The user's steps.                                                       *)

LEMMA UserKeeps ==
  ASSUME MirrorIInv, UNCHANGED <<backup, monitorVars>>,
         at' \in [Node -> Place], data' \in [FileNode -> Version], rootExists' \in BOOLEAN,
         watched' \subseteq watched, \A n \in watched' : n # Root => at'[n] # Nowhere,
         events' \in Seq(SoundEvent'),
         watched = {} /\ events = <<>> => events' = <<>>
  PROVE  MirrorIInv'
<1>1. /\ TypeOK /\ map \in Seq(Entry) /\ PendingTyped /\ tooMany \in BOOLEAN
      /\ QuietAtFirst /\ WatchesExist /\ EveryWatchKnown
  BY DEF MirrorIInv
<1>2. UNCHANGED <<backup, pc, target, map, pending, tooMany>>
  BY DEF monitorVars
<1>3. events' \in Seq(EventSet)
  <2>1. \A i \in 1..Len(events') : events'[i] \in EventSet
    <3>1. \A e \in SoundEvent' : e \in EventSet
      BY DEF SoundEvent
    <3> QED
      BY <3>1, ElementOfSeq
  <2> QED
    BY <2>1, SeqWithin
<1>4. \A i \in 1..Len(events') : events'[i].mask \in Masks /\ events'[i].wd \in Node \cup {Root}
  BY <1>3, SoundTyped
<1>5. TypeOK'
  BY <1>1, <1>2, <1>4 DEF TypeOK, Place
<1>6. QuietAtFirst'
  BY <1>1, <1>2 DEF QuietAtFirst
<1>7. WatchesExist'
  BY DEF WatchesExist
<1>8. EveryWatchKnown'
  <2>1. \A n : Known(n) <=> Known(n)'
    BY <1>2 DEF Known, Indices
  <2> QED
    BY <1>1, <1>2, <2>1 DEF EveryWatchKnown
<1>9. map' \in Seq(Entry) /\ PendingTyped' /\ tooMany' \in BOOLEAN
  BY <1>1, <1>2 DEF PendingTyped
<1> QED
  BY <1>5, <1>6, <1>7, <1>8, <1>9 DEF MirrorIInv

LEMMA InvParts ==
  ASSUME MirrorIInv
  PROVE  /\ TypeOK /\ map \in Seq(Entry) /\ events \in Seq(SoundEvent)
         /\ at \in [Node -> Place] /\ data \in [FileNode -> Version] /\ rootExists \in BOOLEAN
         /\ watched \subseteq Node \cup {Root}
         /\ \A n \in watched : n # Root => at[n] # Nowhere
         /\ \A i \in 1..Len(events) : events[i] \in SoundEvent
<1>1. events \in Seq(SoundEvent)
  BY DEF MirrorIInv, WatchesExist
<1>2. \A i \in 1..Len(events) : events[i] \in SoundEvent
  BY <1>1, ElementOfSeq
<1> QED
  BY <1>1, <1>2 DEF MirrorIInv, TypeOK, Place, WatchesExist

LEMMA CreateKeeps ==
  ASSUME MirrorIInv, NEW n \in Node, NEW d \in Dir \cup {Outside}, NEW x \in Name, Create(n, d, x)
  PROVE  MirrorIInv'
<1>1. /\ at[n] = Nowhere /\ \A i \in 1..Len(events) : events[i].wd # n
      /\ at' = [at EXCEPT ![n] = <<d, x>>]
      /\ events' = events \o Event("create", d, x, NoCookie)
      /\ UNCHANGED <<data, rootExists, watched>> /\ UNCHANGED <<backup, monitorVars>>
  BY DEF Create, Fresh, User
<1>2. at' \in [Node -> Place] /\ at'[n] # Nowhere /\ \A m \in Node : m # n => at'[m] = at[m]
  BY <1>1, InvParts, Nodes DEF Place
<1>3. \A m \in watched' : m # Root => at'[m] # Nowhere
  BY <1>1, <1>2, InvParts
<1>4. events \in Seq(SoundEvent')
  BY <1>1, <1>2, InvParts, StillSound
<1>5. /\ Event("create", d, x, NoCookie) \in Seq(SoundEvent')
      /\ watched = {} => Event("create", d, x, NoCookie) = <<>>
  BY InvParts, EventSound DEF Masks, SelfMasks, Cookie
<1>6. events' \in Seq(SoundEvent') /\ (watched = {} /\ events = <<>> => events' = <<>>)
  BY <1>1, <1>4, <1>5, ConcatProperties, ConcatEmptySeq
<1> QED
  BY <1>1, <1>2, <1>3, <1>6, InvParts, UserKeeps

LEMMA WriteKeeps ==
  ASSUME MirrorIInv, NEW f \in FileNode, Write(f)
  PROVE  MirrorIInv'
<1>1. /\ at[f] # Nowhere /\ data' = [data EXCEPT ![f] = IF @ = "v1" THEN "v2" ELSE "v1"]
      /\ events' = events \o Event("modify", at[f][1], at[f][2], NoCookie)
      /\ UNCHANGED <<at, rootExists, watched>> /\ UNCHANGED <<backup, monitorVars>>
  BY DEF Write, User
<1>2. at[f][2] \in Name
  BY <1>1, InvParts, Nodes DEF Place
<1>3. data' \in [FileNode -> Version]
  BY <1>1, InvParts DEF Version
<1>4. events \in Seq(SoundEvent')
  BY <1>1, InvParts, StillSound
<1>5. /\ Event("modify", at[f][1], at[f][2], NoCookie) \in Seq(SoundEvent')
      /\ watched = {} => Event("modify", at[f][1], at[f][2], NoCookie) = <<>>
  BY <1>2, InvParts, EventSound DEF Masks, SelfMasks, Cookie
<1>6. events' \in Seq(SoundEvent') /\ (watched = {} /\ events = <<>> => events' = <<>>)
  BY <1>1, <1>4, <1>5, ConcatProperties, ConcatEmptySeq
<1> QED
  BY <1>1, <1>3, <1>6, InvParts, UserKeeps

LEMMA DeleteKeeps ==
  ASSUME MirrorIInv, NEW n \in Node, Delete(n)
  PROVE  MirrorIInv'
<1> DEFINE gone == Event("delete", at[n][1], at[n][2], NoCookie)
<1>1. /\ at[n] # Nowhere /\ at' = [at EXCEPT ![n] = Nowhere]
      /\ watched' = watched \ {n}
      /\ events' = events \o SelfGone(n) \o gone
      /\ UNCHANGED <<data, rootExists>> /\ UNCHANGED <<backup, monitorVars>>
  BY DEF Delete, User
<1>2. at[n][2] \in Name
  BY <1>1, InvParts DEF Place
<1>3. /\ at' \in [Node -> Place] /\ at'[n] = Nowhere
      /\ \A m \in Node : m # n => at'[m] = at[m]
  BY <1>1, InvParts DEF Place
<1>4. \A m \in watched' : m # Root => at'[m] # Nowhere
  BY <1>1, <1>3, InvParts
<1>5. events \in Seq(SoundEvent')
  BY <1>1, <1>3, InvParts, StillSound
<1>6. SelfGone(n) \in Seq(SoundEvent') /\ (watched = {} => SelfGone(n) = <<>>)
  BY <1>1, <1>3, InvParts, EndSound
<1>7. gone \in Seq(SoundEvent') /\ (watched = {} => gone = <<>>)
  BY <1>2, InvParts, EventSound DEF Masks, SelfMasks, Cookie
<1> HIDE DEF gone
<1>8. events' \in Seq(SoundEvent')
  BY <1>1, <1>5, <1>6, <1>7, ConcatProperties
<1>9. watched = {} /\ events = <<>> => events' = <<>>
  BY <1>1, <1>5, <1>6, <1>7, ConcatEmptySeq
<1> QED
  BY <1>1, <1>3, <1>4, <1>8, <1>9, InvParts, UserKeeps

LEMMA DeleteRootKeeps ==
  ASSUME MirrorIInv, DeleteRoot
  PROVE  MirrorIInv'
<1>1. /\ rootExists' = FALSE /\ watched' = watched \ {Root}
      /\ events' = events \o SelfGone(Root)
      /\ UNCHANGED <<at, data>> /\ UNCHANGED <<backup, monitorVars>>
  BY DEF DeleteRoot, User
<1>2. events \in Seq(SoundEvent')
  BY <1>1, InvParts, StillSound
<1>3. SelfGone(Root) \in Seq(SoundEvent') /\ (watched = {} => SelfGone(Root) = <<>>)
  BY <1>1, InvParts, EndSound
<1>4. events' \in Seq(SoundEvent') /\ (watched = {} /\ events = <<>> => events' = <<>>)
  BY <1>1, <1>2, <1>3, ConcatProperties, ConcatEmptySeq
<1> QED
  BY <1>1, <1>4, InvParts, UserKeeps

LEMMA MoveKeeps ==
  ASSUME MirrorIInv, NEW n \in Node, NEW d \in Dir \cup {Outside}, NEW x \in Name, Move(n, d, x)
  PROVE  MirrorIInv'
<1> DEFINE cookie == <<n, Away(at[n][1]), Away(d)>>
           left == Event("moved_from", at[n][1], at[n][2], cookie)
           came == Event("moved_to", d, x, cookie)
<1>1. /\ at[n] # Nowhere /\ at' = [at EXCEPT ![n] = <<d, x>>]
      /\ events' = events \o left \o came
      /\ UNCHANGED <<data, rootExists, watched>> /\ UNCHANGED <<backup, monitorVars>>
  BY DEF Move, User
<1>2. at[n][2] \in Name
  BY <1>1, InvParts DEF Place
<1>3. at' \in [Node -> Place] /\ at'[n] # Nowhere /\ \A m \in Node : m # n => at'[m] = at[m]
  BY <1>1, InvParts, Nodes DEF Place
<1>4. \A m \in watched' : m # Root => at'[m] # Nowhere
  BY <1>1, <1>3, InvParts
<1>5. events \in Seq(SoundEvent')
  BY <1>1, <1>3, InvParts, StillSound
<1>6. cookie \in Cookie
  <2>1. Away(at[n][1]) \in BOOLEAN /\ Away(d) \in BOOLEAN
    BY DEF Away
  <2> QED
    BY <2>1 DEF Cookie
<1> HIDE DEF cookie
<1>7. left \in Seq(SoundEvent') /\ (watched = {} => left = <<>>)
  BY <1>2, <1>6, InvParts, EventSound DEF Masks, SelfMasks
<1>8. came \in Seq(SoundEvent') /\ (watched = {} => came = <<>>)
  BY <1>6, InvParts, EventSound DEF Masks, SelfMasks
<1> HIDE DEF left, came
<1>9. events' \in Seq(SoundEvent')
  BY <1>1, <1>5, <1>7, <1>8, ConcatProperties
<1>10. watched = {} /\ events = <<>> => events' = <<>>
  BY <1>1, <1>5, <1>7, <1>8, ConcatEmptySeq
<1> QED
  BY <1>1, <1>3, <1>4, <1>9, <1>10, InvParts, UserKeeps

LEMMA ReplaceKeeps ==
  ASSUME MirrorIInv, NEW f \in FileNode, NEW g \in FileNode, Replace(f, g)
  PROVE  MirrorIInv'
<1> DEFINE cookie == <<f, FALSE, FALSE>>
           left == Event("moved_from", at[f][1], at[f][2], cookie)
           came == Event("moved_to", at[g][1], at[g][2], cookie)
<1>1. /\ f # g /\ at[f] # Nowhere /\ at[g] # Nowhere
      /\ at' = [at EXCEPT ![f] = at[g], ![g] = Nowhere]
      /\ watched' = watched \ {g}
      /\ events' = events \o left \o came \o SelfGone(g)
      /\ UNCHANGED <<data, rootExists>> /\ UNCHANGED <<backup, monitorVars>>
  BY DEF Replace, User
<1>2. f \in Node /\ g \in Node /\ at[f][2] \in Name /\ at[g][2] \in Name
  BY <1>1, InvParts, Nodes DEF Place
<1>3. /\ at' \in [Node -> Place] /\ at'[g] = Nowhere /\ at'[f] # Nowhere
      /\ \A m \in Node : m # f /\ m # g => at'[m] = at[m]
  BY <1>1, <1>2, InvParts DEF Place
<1>4. \A m \in watched' : m # Root => at'[m] # Nowhere
  BY <1>1, <1>3, InvParts
<1>5. events \in Seq(SoundEvent')
  BY <1>1, <1>3, InvParts, StillSound
<1>6. cookie \in Cookie
  BY <1>2 DEF Cookie
<1> HIDE DEF cookie
<1>7. left \in Seq(SoundEvent') /\ (watched = {} => left = <<>>)
  BY <1>2, <1>6, InvParts, EventSound DEF Masks, SelfMasks
<1>8. came \in Seq(SoundEvent') /\ (watched = {} => came = <<>>)
  BY <1>2, <1>6, InvParts, EventSound DEF Masks, SelfMasks
<1>9. SelfGone(g) \in Seq(SoundEvent') /\ (watched = {} => SelfGone(g) = <<>>)
  BY <1>1, <1>3, InvParts, EndSound
<1> HIDE DEF left, came
<1>10. events' \in Seq(SoundEvent')
  BY <1>1, <1>5, <1>7, <1>8, <1>9, ConcatProperties
<1>11. watched = {} /\ events = <<>> => events' = <<>>
  BY <1>1, <1>5, <1>7, <1>8, <1>9, ConcatEmptySeq
<1> QED
  BY <1>1, <1>3, <1>4, <1>10, <1>11, InvParts, UserKeeps

LEMMA UserStepKeeps == MirrorIInv /\ UserStep => MirrorIInv'
BY CreateKeeps, WriteKeeps, DeleteKeeps, DeleteRootKeeps, MoveKeeps, ReplaceKeeps DEF UserStep

-----------------------------------------------------------------------------
(* The child's steps.                                                      *)

LEMMA MirrorInitHolds == Init => MirrorIInv
<1> SUFFICES ASSUME Init PROVE MirrorIInv
  OBVIOUS
<1>1. /\ at \in [Node -> Place] /\ data \in [FileNode -> Version] /\ rootExists = TRUE
      /\ watched = {} /\ events = <<>> /\ backup = [p \in Path |-> "none"]
      /\ pc = "copy" /\ target = <<>> /\ map = <<>> /\ pending = NoCookie /\ tooMany = FALSE
  BY DEF Init, Place, Version
<1>2. Len(map) = 0 /\ Len(events) = 0 /\ 0 <= MaxWatches
  BY <1>1, MirrorAssumption
<1>3. IsTree(backup)
  BY <1>1 DEF IsTree
<1>4. TypeOK
  BY <1>1, <1>2, <1>3 DEF TypeOK, Place, Content
<1>5. QuietAtFirst /\ WatchesExist /\ EveryWatchKnown /\ PendingTyped
  BY <1>1 DEF QuietAtFirst, WatchesExist, EveryWatchKnown, PendingTyped
<1>6. map \in Seq(Entry) /\ tooMany \in BOOLEAN
  BY <1>1, EmptySeq
<1> QED
  BY <1>3, <1>4, <1>5, <1>6 DEF MirrorIInv

LEMMA CopySourceKeeps == MirrorIInv /\ CopySource => MirrorIInv'
<1> SUFFICES ASSUME MirrorIInv, CopySource PROVE MirrorIInv'
  OBVIOUS
<1>1. /\ pc = "copy" /\ pc' \in {"watch", "done"}
      /\ backup' = copy_recursive(backup, <<>>)
      /\ UNCHANGED <<userVars, watched, events, target, map, pending, tooMany>>
  BY DEF CopySource
<1>2. UNCHANGED <<at, data, rootExists, watched, events, target, map, pending, tooMany>>
  BY <1>1 DEF userVars
<1>3. /\ TypeOK /\ map \in Seq(Entry) /\ PendingTyped /\ tooMany \in BOOLEAN
      /\ QuietAtFirst /\ WatchesExist /\ EveryWatchKnown
  BY DEF MirrorIInv
<1>4. backup' \in [Path -> Content] /\ IsTree(backup')
  <2>1. backup \in [Path -> Content] /\ IsTree(backup)
    BY <1>3 DEF TypeOK
  <2>2. copy_recursive(backup, <<>>) \in [Path -> Content] /\ IsTree(copy_recursive(backup, <<>>))
    BY <1>3, <2>1, CopyTyped
  <2> QED
    BY <1>1, <2>2 DEF IsTree
<1>5. TypeOK'
  BY <1>1, <1>2, <1>3, <1>4 DEF TypeOK
<1>6. QuietAtFirst'
  BY <1>1, <1>2, <1>3 DEF QuietAtFirst
<1>7. WatchesExist' /\ EveryWatchKnown' /\ PendingTyped'
  BY <1>2, <1>3 DEF WatchesExist, SoundEvent, EveryWatchKnown, Known, Indices, PendingTyped
<1> QED
  BY <1>2, <1>3, <1>4, <1>5, <1>6, <1>7 DEF MirrorIInv

LEMMA AddWatchesKeeps == MirrorIInv /\ AddWatches => MirrorIInv'
<1> SUFFICES ASSUME MirrorIInv, AddWatches PROVE MirrorIInv'
  OBVIOUS
<1>1. /\ pc = "watch" /\ pc' = "read" /\ target' = <<>> /\ add_watch_recursive(target)
      /\ UNCHANGED <<at, data, rootExists, events, backup, pending>>
  BY DEF AddWatches, userVars
<1>2. /\ TypeOK /\ map \in Seq(Entry) /\ PendingTyped /\ tooMany \in BOOLEAN
      /\ QuietAtFirst /\ WatchesExist /\ EveryWatchKnown
  BY DEF MirrorIInv
<1>3. target \in Path \cup {<<>>}
  BY <1>2 DEF TypeOK
<1>4. /\ map' \in Seq(Entry) /\ Len(map') <= MaxWatches /\ tooMany' \in BOOLEAN
      /\ watched' = watched \cup Visited(target)
      /\ ~tooMany' =>
           /\ ~tooMany
           /\ \A i \in 1..Len(map) : \E j \in 1..Len(map') : map'[j].wd = map[i].wd
           /\ \A n \in Visited(target) : \E j \in 1..Len(map') : map'[j].wd = n
  BY <1>1, <1>2, <1>3, WatchesAdded
<1>5. /\ \A n \in Visited(target) : n \in Node \cup {Root} /\ (n # Root => at[n] # Nowhere)
      /\ Root \in Visited(target) => target = <<>>
  BY <1>3, VisitedInSource
<1>6. \A i \in 1..Len(map') : map'[i].wd \in Node \cup {Root}
  <2>1. ASSUME NEW i \in 1..Len(map') PROVE map'[i].wd \in Node \cup {Root}
    <3>1. map'[i] \in Entry
      BY <1>4, ElementOfSeq
    <3> QED
      BY <3>1 DEF Entry
  <2> QED
    BY <2>1
<1>7. TypeOK'
  BY <1>1, <1>2, <1>4, <1>5, <1>6 DEF TypeOK
<1>8. \A n \in watched' : n # Root => at'[n] # Nowhere
  BY <1>1, <1>4, <1>5, InvParts
<1>9. events' \in Seq(SoundEvent')
  <2>1. CASE target = <<>>
    <3>1. events' = <<>>
      BY <1>1, <1>2, <2>1 DEF QuietAtFirst
    <3> QED
      BY <3>1
  <2>2. CASE target # <<>>
    <3>1. \A e \in SoundEvent : e \in SoundEvent'
      BY <1>1, <1>4, <1>5, <2>2 DEF SoundEvent
    <3>2. \A i \in 1..Len(events) : events[i] \in SoundEvent'
      BY <3>1, InvParts
    <3> QED
      BY <1>1, <3>2, InvParts, SeqWithin
  <2> QED
    BY <2>1, <2>2
<1>10. EveryWatchKnown'
  <2> SUFFICES ASSUME ~tooMany', NEW n \in watched' PROVE Known(n)'
    BY DEF EveryWatchKnown
  <2>1. CASE n \in watched
    <3>1. Known(n)
      BY <1>2, <1>4, <2>1 DEF EveryWatchKnown
    <3>2. PICK i \in 1..Len(map) : map[i].wd = n
      BY <3>1 DEF Known, Indices
    <3>3. \E j \in 1..Len(map') : map'[j].wd = n
      BY <1>4, <3>2
    <3> QED
      BY <3>3 DEF Known, Indices
  <2>2. CASE n \in Visited(target)
    <3>1. \E j \in 1..Len(map') : map'[j].wd = n
      BY <1>4, <2>2
    <3> QED
      BY <3>1 DEF Known, Indices
  <2> QED
    BY <1>4, <2>1, <2>2
<1>11. QuietAtFirst' /\ PendingTyped'
  BY <1>1, <1>2 DEF QuietAtFirst, PendingTyped
<1> QED
  BY <1>4, <1>7, <1>8, <1>9, <1>10, <1>11 DEF MirrorIInv, WatchesExist

\* Whatever handles an event keeps the invariant if it loses no descriptor of
\* an inode the kernel watches.
LEMMA TakeKeeps ==
  ASSUME MirrorIInv, NEW M, Take(M),
         backup' \in [Path -> Content], IsTree(backup'),
         map' \in Seq(Entry), Len(map') <= MaxWatches, PendingTyped', tooMany' = tooMany,
         \/ pc' \in {"read", "done"} /\ target' = target
         \/ pc' = "watch" /\ target' \in Path,
         ~tooMany => \A n \in watched : \E j \in 1..Len(map') : map'[j].wd = n
  PROVE  MirrorIInv'
<1>1. /\ pc = "read" /\ events # <<>> /\ events' = Tail(events)
      /\ UNCHANGED <<at, data, rootExists, watched>>
  BY DEF Take, userVars
<1>2. /\ TypeOK /\ tooMany \in BOOLEAN /\ QuietAtFirst /\ WatchesExist
  BY DEF MirrorIInv
<1>3. events' \in Seq(SoundEvent)
  BY <1>1, InvParts, EventsTyped
<1>4. SoundEvent' = SoundEvent
  BY <1>1 DEF SoundEvent
<1>5. \A i \in 1..Len(events') : events'[i].mask \in Masks /\ events'[i].wd \in Node \cup {Root}
  <2>1. \A i \in 1..Len(events') : events'[i] \in EventSet
    <3>1. \A e \in SoundEvent : e \in EventSet
      BY DEF SoundEvent
    <3> QED
      BY <1>3, <3>1, ElementOfSeq
  <2>2. events' \in Seq(EventSet)
    BY <1>3, <2>1, SeqWithin
  <2> QED
    BY <2>2, SoundTyped
<1>6. \A i \in 1..Len(map') : map'[i].wd \in Node \cup {Root}
  <2>1. ASSUME NEW i \in 1..Len(map') PROVE map'[i].wd \in Node \cup {Root}
    <3>1. map'[i] \in Entry
      BY ElementOfSeq
    <3> QED
      BY <3>1 DEF Entry
  <2> QED
    BY <2>1
<1>7. TypeOK'
  <2>1. pc' \in {"copy", "watch", "read", "done"} /\ target' \in Path \cup {<<>>}
    BY <1>2 DEF TypeOK
  <2> QED
    BY <1>1, <1>2, <1>5, <1>6, <2>1 DEF TypeOK
<1>8. QuietAtFirst'
  <2>1. \A p \in Path : p # <<>>
    BY PathCases, EmptySeq
  <2> QED
    BY <2>1 DEF QuietAtFirst
<1>9. WatchesExist'
  BY <1>1, <1>2, <1>3, <1>4 DEF WatchesExist
<1>10. EveryWatchKnown'
  BY <1>1 DEF EveryWatchKnown, Known, Indices
<1> QED
  BY <1>2, <1>7, <1>8, <1>9, <1>10 DEF MirrorIInv

LEMMA MapKept ==
  ASSUME MirrorIInv
  PROVE  /\ Len(map) <= MaxWatches
         /\ ~tooMany => \A n \in watched : \E j \in 1..Len(map) : map[j].wd = n
<1>1. TypeOK /\ EveryWatchKnown
  BY DEF MirrorIInv
<1> QED
  BY <1>1 DEF TypeOK, EveryWatchKnown, Known, Indices

\* An entry that is copied, whatever the source holds at the path by now.
LEMMA CopyNowKeeps ==
  ASSUME MirrorIInv, pc = "read", NEW p, CopyNow(p)
  PROVE  /\ backup' \in [Path -> Content] /\ IsTree(backup')
         /\ \/ pc' \in {"read", "done"} /\ target' = target
            \/ pc' = "watch" /\ target' \in Path
<1>1. TypeOK /\ backup \in [Path -> Content] /\ IsTree(backup)
  BY DEF MirrorIInv, TypeOK
<1>2. copy_recursive(backup, p) \in [Path -> Content] /\ IsTree(copy_recursive(backup, p))
  BY <1>1, CopyTyped
<1>3. backup' = backup \/ backup' = copy_recursive(backup, p)
  BY DEF CopyNow
<1>4. backup' \in [Path -> Content] /\ IsTree(backup')
  BY <1>1, <1>2, <1>3
<1>6. \/ pc' = pc /\ target' = target
      \/ Source(p) = "dir" /\ pc' = "watch" /\ target' = p
  BY DEF CopyNow
<1>7. Source(p) = "dir" => p \in Path
  BY <1>1, SourceTyped
<1> QED
  BY <1>4, <1>6, <1>7

LEMMA WatchGoneKeeps == MirrorIInv /\ WatchGone => MirrorIInv'
<1> SUFFICES ASSUME MirrorIInv, WatchGone PROVE MirrorIInv'
  OBVIOUS
<1> DEFINE wd == Head(events).wd
<1>1. /\ Take(SelfMasks) /\ UNCHANGED <<backup, target, pending, tooMany>>
      /\ \/ pc' = "done" /\ map' = map
         \/ pc' = pc /\ map' = remove_from_map(wd)
  BY DEF WatchGone, SelfMasks
<1>2. pc = "read" /\ wd \notin watched
  BY <1>1, InvParts, EventsTyped DEF Take
<1> HIDE DEF wd
<1>3. map \in Seq(Entry) /\ PendingTyped /\ backup \in [Path -> Content] /\ IsTree(backup)
  BY DEF MirrorIInv, TypeOK
<1>4. backup' \in [Path -> Content] /\ IsTree(backup') /\ PendingTyped'
  BY <1>1, <1>3 DEF PendingTyped
<1>5. CASE map' = map
  BY <1>1, <1>2, <1>3, <1>4, <1>5, MapKept, TakeKeeps
<1>6. CASE map' = remove_from_map(wd)
  <2>1. /\ map' \in Seq(Entry) /\ Len(map') <= Len(map)
        /\ \A i \in 1..Len(map) : map[i].wd # wd => \E j \in 1..Len(map') : map'[j].wd = map[i].wd
    BY <1>3, <1>6, EntryRemoved
  <2>2. Len(map') <= MaxWatches
    <3>1. Len(map) \in Nat /\ Len(map') \in Nat /\ MaxWatches \in Nat /\ Len(map) <= MaxWatches
      BY <1>3, <2>1, LenProperties, MapKept, MirrorAssumption
    <3> QED
      BY <2>1, <3>1
  <2>3. ASSUME ~tooMany, NEW n \in watched PROVE \E j \in 1..Len(map') : map'[j].wd = n
    <3>1. PICK i \in 1..Len(map) : map[i].wd = n
      BY <2>3, MapKept
    <3>2. map[i].wd # wd
      BY <1>2, <3>1
    <3> QED
      BY <2>1, <3>1, <3>2
  <2> QED
    BY <1>1, <1>2, <1>4, <2>1, <2>2, <2>3, TakeKeeps
<1> QED
  BY <1>1, <1>5, <1>6

LEMMA IgnoreEventKeeps == MirrorIInv /\ IgnoreEvent => MirrorIInv'
<1> SUFFICES ASSUME MirrorIInv, IgnoreEvent PROVE MirrorIInv'
  OBVIOUS
<1>1. PICK M : Take(M)
  BY DEF IgnoreEvent
<1>2. pc = "read" /\ UNCHANGED <<backup, pc, target, map, pending, tooMany>>
  BY DEF IgnoreEvent, Take, monitorVars
<1>3. map \in Seq(Entry) /\ PendingTyped /\ backup \in [Path -> Content] /\ IsTree(backup)
  BY DEF MirrorIInv, TypeOK
<1>4. backup' \in [Path -> Content] /\ IsTree(backup') /\ PendingTyped'
  BY <1>2, <1>3 DEF PendingTyped
<1> QED
  BY <1>1, <1>2, <1>3, <1>4, MapKept, TakeKeeps

\* The path of an event that is not the end of an inode.
LEMMA EventPathTyped ==
  ASSUME MirrorIInv, events # <<>>, Head(events).mask \notin SelfMasks, Known(Head(events).wd)
  PROVE  EventPath \in Seq(Name)
<1>1. Head(events).name \in Name
  BY InvParts, EventsTyped
<1>2. find_watch(Head(events).wd) \in Seq(Name)
  BY InvParts, FoundPath
<1> QED
  BY <1>1, <1>2, AppendProperties DEF EventPath

LEMMA RemoveEntryKeeps == MirrorIInv /\ RemoveEntry => MirrorIInv'
<1> SUFFICES ASSUME MirrorIInv, RemoveEntry PROVE MirrorIInv'
  OBVIOUS
<1>1. PICK M : Take(M)
  BY DEF RemoveEntry
<1>2. /\ pc = "read" /\ events # <<>> /\ Head(events).mask \in {"delete", "moved_from"}
      /\ Known(Head(events).wd) /\ backup' = remove_recursive(backup, EventPath)
      /\ pending' = pending \/ pending' = <<Head(events).cookie, EventPath>>
      /\ UNCHANGED <<pc, target, map, tooMany>>
  BY DEF RemoveEntry, Take
<1>3. EventPath \in Seq(Name)
  BY <1>2, EventPathTyped DEF SelfMasks
<1>4. map \in Seq(Entry) /\ PendingTyped /\ backup \in [Path -> Content] /\ IsTree(backup)
  BY DEF MirrorIInv, TypeOK
<1>5. backup' \in [Path -> Content] /\ IsTree(backup')
  BY <1>2, <1>3, <1>4, RemoveTyped
<1>7. PendingTyped'
  <2>1. Head(events).cookie \in Cookie
    BY <1>2, InvParts, EventsTyped
  <2> QED
    BY <1>2, <1>3, <1>4, <2>1 DEF PendingTyped
<1> QED
  BY <1>1, <1>2, <1>4, <1>5, <1>7, MapKept, TakeKeeps

LEMMA CopyEntryNowKeeps == MirrorIInv /\ CopyEntryNow => MirrorIInv'
<1> SUFFICES ASSUME MirrorIInv, CopyEntryNow PROVE MirrorIInv'
  OBVIOUS
<1>1. PICK M : Take(M)
  BY DEF CopyEntryNow
<1>2. pc = "read" /\ CopyNow(EventPath) /\ UNCHANGED <<map, pending, tooMany>>
  BY DEF CopyEntryNow, Take
<1>3. /\ backup' \in [Path -> Content] /\ IsTree(backup')
      /\ \/ pc' \in {"read", "done"} /\ target' = target
         \/ pc' = "watch" /\ target' \in Path
  BY <1>2, CopyNowKeeps
<1>4. map \in Seq(Entry) /\ PendingTyped
  BY DEF MirrorIInv
<1>5. PendingTyped'
  BY <1>2, <1>4 DEF PendingTyped
<1> QED
  BY <1>1, <1>2, <1>3, <1>4, <1>5, MapKept, TakeKeeps

LEMMA MovedToKeeps == MirrorIInv /\ MovedTo => MirrorIInv'
<1> SUFFICES ASSUME MirrorIInv, MovedTo PROVE MirrorIInv'
  OBVIOUS
<1>1. PICK M : Take(M)
  BY DEF MovedTo
<1>2. /\ pc = "read" /\ events # <<>> /\ Head(events).mask = "moved_to"
      /\ Known(Head(events).wd) /\ CopyNow(EventPath) /\ tooMany' = tooMany
      /\ \/ map' = map /\ pending' = pending
         \/ /\ pending # NoCookie /\ pending' = NoCookie
            /\ map' = update_watch_paths(pending[2], EventPath)
  BY DEF MovedTo, Take
<1>3. /\ backup' \in [Path -> Content] /\ IsTree(backup')
      /\ \/ pc' \in {"read", "done"} /\ target' = target
         \/ pc' = "watch" /\ target' \in Path
  BY <1>2, CopyNowKeeps
<1>4. map \in Seq(Entry) /\ PendingTyped /\ EventPath \in Seq(Name)
  BY <1>2, EventPathTyped DEF MirrorIInv, SelfMasks
<1>5. CASE map' = map /\ pending' = pending
  <2>1. PendingTyped'
    BY <1>4, <1>5 DEF PendingTyped
  <2> QED
    BY <1>1, <1>2, <1>3, <1>4, <1>5, <2>1, MapKept, TakeKeeps
<1>6. CASE /\ pending # NoCookie /\ pending' = NoCookie
           /\ map' = update_watch_paths(pending[2], EventPath)
  <2>1. pending[2] \in Seq(Name) /\ PendingTyped'
    BY <1>4, <1>6 DEF PendingTyped
  <2>2. /\ map' \in Seq(Entry) /\ Len(map') = Len(map)
        /\ \A i \in 1..Len(map) : map'[i].wd = map[i].wd
    BY <1>4, <1>6, <2>1, PathsUpdated
  <2>3. /\ Len(map') <= MaxWatches
        /\ ~tooMany => \A n \in watched : \E j \in 1..Len(map') : map'[j].wd = n
    BY <2>2, MapKept
  <2> QED
    BY <1>1, <1>2, <1>3, <2>1, <2>2, <2>3, TakeKeeps
<1> QED
  BY <1>2, <1>5, <1>6

LEMMA MirrorNextHolds == MirrorIInv /\ [Next]_vars => MirrorIInv'
<1> SUFFICES ASSUME MirrorIInv, [Next]_vars PROVE MirrorIInv'
  OBVIOUS
<1>1. CASE UserStep
  BY <1>1, UserStepKeeps
<1>2. CASE ChildStep
  BY <1>2, CopySourceKeeps, AddWatchesKeeps, WatchGoneKeeps, IgnoreEventKeeps,
     RemoveEntryKeeps, CopyEntryNowKeeps, MovedToKeeps DEF ChildStep
<1>3. CASE UNCHANGED vars
  BY <1>3 DEF vars, userVars, monitorVars, MirrorIInv, TypeOK, PendingTyped,
     QuietAtFirst, WatchesExist, SoundEvent, EveryWatchKnown, Known, Indices
<1> QED
  BY <1>1, <1>2, <1>3 DEF Next

-----------------------------------------------------------------------------
\* projekt.c, monitor: the inductive invariant, whatever the user does and
\* however long the child takes.
THEOREM MirrorInvariance == Spec => []MirrorIInv
BY MirrorInitHolds, MirrorNextHolds, PTL DEF Spec

\* The child's variables keep their types, add_watch_recursive never writes past
\* watch_map[MAX_WATCHES - 1], and the backup, which restore reads, is a tree.
THEOREM MirrorTypeCorrect == Spec => []TypeOK
<1>1. MirrorIInv => TypeOK
  BY DEF MirrorIInv
<1> QED
  BY <1>1, MirrorInvariance, PTL

\* Unless the map has overflowed, find_watch finds every inode the kernel watches:
\* no event of a living watch is skipped, although entries are freed by moving the
\* last one and descriptors may be in the map more than once.
THEOREM EveryWatchKnownHolds == Spec => []EveryWatchKnown
<1>1. MirrorIInv => EveryWatchKnown
  BY DEF MirrorIInv
<1> QED
  BY <1>1, MirrorInvariance, PTL
=============================================================================
