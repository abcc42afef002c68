--------------------------- MODULE ConvergeProofs ---------------------------
(***************************************************************************)
(* Proofs that the mirroring child of projekt.c converges: whenever a      *)
(* patient user (PatientRenames in MCMirror) lets it catch up, the backup  *)
(* is the source.  For any set of names and inodes, any contents of the    *)
(* source to begin with, and any length of the map and the queue.          *)
(***************************************************************************)
EXTENDS MCMirror, MirrorProofs

-----------------------------------------------------------------------------
(* The source as the inodes that lie in it.                                *)

Live(n) ==
    /\ n \in Node /\ at[n] # Nowhere
    /\ \/ at[n][1] = Root
       \/ at[n][1] \in DirNode /\ at[at[n][1]] # Nowhere /\ at[at[n][1]][1] = Root

Kind(n) == IF n \in DirNode THEN "dir" ELSE data[n]

\* Directories hold entries, trees have two levels, and a place one inode.
Trees ==
    /\ \A n \in Node : at[n] # Nowhere => Holds(at[n][1])
    /\ \A d \in DirNode : at[d] # Nowhere => at[d][1] # d
    /\ \A n, m \in Node : at[n] = at[m] /\ at[n] # Nowhere => n = m

LiveFacts ==
    \A n : Live(n) =>
       /\ n \in Node /\ at[n] # Nowhere /\ at[n][2] \in Name
       /\ \/ at[n] = <<Root, at[n][2]>> /\ PathOf(n) = <<at[n][2]>>
          \/ LET d == at[n][1] IN
             /\ at[n] = <<d, at[n][2]>> /\ PathOf(n) = <<at[d][2], at[n][2]>>
             /\ d \in DirNode /\ d # n /\ Live(d) /\ at[d] = <<Root, at[d][2]>> /\ at[d][2] \in Name

LEMMA LiveHolds == TypeOK /\ Trees => LiveFacts
<1> SUFFICES ASSUME TypeOK, Trees, NEW n, Live(n)
             PROVE  /\ n \in Node /\ at[n] # Nowhere /\ at[n][2] \in Name
                    /\ \/ at[n] = <<Root, at[n][2]>> /\ PathOf(n) = <<at[n][2]>>
                       \/ LET d == at[n][1] IN
                          /\ at[n] = <<d, at[n][2]>> /\ PathOf(n) = <<at[d][2], at[n][2]>>
                          /\ d \in DirNode /\ d # n /\ Live(d)
                          /\ at[d] = <<Root, at[d][2]>> /\ at[d][2] \in Name
  BY DEF LiveFacts
<1>1. \A m \in Node : at[m] # Nowhere => at[m] = <<at[m][1], at[m][2]>> /\ at[m][2] \in Name
  BY DEF TypeOK
<1>2. n \in Node /\ at[n] # Nowhere /\ n # Root
  BY Nodes DEF Live
<1>3. CASE at[n][1] = Root
  BY <1>1, <1>2, <1>3 DEF PathOf
<1>4. CASE at[n][1] # Root
  <2> DEFINE d == at[n][1]
  <2>1. d \in DirNode /\ d \in Node /\ at[d] # Nowhere /\ at[d][1] = Root
    BY <1>4, Nodes DEF Live
  <2>2. d # n /\ Live(d)
    BY <1>4, <2>1 DEF Live
  <2> QED
    BY <1>1, <1>2, <1>4, <2>1, <2>2 DEF PathOf
<1> QED
  BY <1>3, <1>4

Unique == \A n, m : Live(n) /\ Live(m) /\ PathOf(n) = PathOf(m) => n = m

LEMMA UniqueHolds == TypeOK /\ Trees => Unique
<1> SUFFICES ASSUME TypeOK, Trees, NEW n, NEW m, Live(n), Live(m), PathOf(n) = PathOf(m)
             PROVE  n = m
  BY DEF Unique
<1>1. LiveFacts
  BY LiveHolds
<1>2. n \in Node /\ m \in Node /\ at[n] # Nowhere /\ at[m] # Nowhere
  BY <1>1 DEF LiveFacts
<1>3. CASE PathOf(n) = <<at[n][2]>> /\ at[n] = <<Root, at[n][2]>>
  <2>1. Len(PathOf(n)) = 1
    BY <1>3
  <2>2. at[m] = <<Root, at[m][2]>> /\ PathOf(m) = <<at[m][2]>>
    BY <1>1, <2>1 DEF LiveFacts
  <2>3. <<at[n][2]>> = <<at[m][2]>>
    BY <1>3, <2>2
  <2>4. at[n][2] = at[m][2]
    BY <2>3
  <2>5. at[n] = at[m]
    BY <1>3, <2>2, <2>4
  <2> QED
    BY <1>2, <2>5 DEF Trees
<1>4. CASE LET d == at[n][1] IN
             /\ at[n] = <<d, at[n][2]>> /\ PathOf(n) = <<at[d][2], at[n][2]>>
             /\ d \in DirNode /\ d # n /\ Live(d) /\ at[d] = <<Root, at[d][2]>> /\ at[d][2] \in Name
  <2> DEFINE d == at[n][1]
             e == at[m][1]
  <2>1. Len(PathOf(n)) = 2
    BY <1>4
  <2>2. at[m] = <<e, at[m][2]>> /\ PathOf(m) = <<at[e][2], at[m][2]>>
        /\ e \in DirNode /\ Live(e) /\ at[e] = <<Root, at[e][2]>>
    BY <1>1, <2>1 DEF LiveFacts
  <2>3. at[d][2] = at[e][2] /\ at[n][2] = at[m][2]
    <3>1. <<at[d][2], at[n][2]>> = <<at[e][2], at[m][2]>>
      BY <1>4, <2>2
    <3> QED
      BY <3>1
  <2>4. at[d] = at[e] /\ d \in Node /\ e \in Node /\ at[d] # Nowhere
    BY <1>4, <2>2, <2>3 DEF Live
  <2>5. d = e
    BY <2>4 DEF Trees
  <2>6. at[n] = at[m]
    BY <1>4, <2>2, <2>3, <2>5
  <2> QED
    BY <1>2, <2>6 DEF Trees
<1> QED
  BY <1>1, <1>3, <1>4 DEF LiveFacts

AtFacts ==
    /\ \A n : Live(n) => PathOf(n) \in Path /\ n \in At(PathOf(n))
    /\ \A p \in Path : \A n \in At(p) : Live(n) /\ PathOf(n) = p

LEMMA AtHolds == TypeOK /\ Trees => AtFacts
<1> SUFFICES ASSUME TypeOK, Trees PROVE AtFacts
  OBVIOUS
<1>1. LiveFacts
  BY LiveHolds
<1>2. ASSUME NEW n, Live(n) PROVE PathOf(n) \in Path /\ n \in At(PathOf(n))
  <2>1. n \in Node /\ at[n] # Nowhere /\ at[n][2] \in Name
    BY <1>1, <1>2 DEF LiveFacts
  <2>2. CASE at[n] = <<Root, at[n][2]>> /\ PathOf(n) = <<at[n][2]>>
    <3>1. PathOf(n) \in Path /\ Len(PathOf(n)) = 1 /\ PathOf(n)[1] = at[n][2] /\ at[n][1] = Root
      BY <2>1, <2>2 DEF Path
    <3> QED
      BY <2>1, <3>1 DEF At, Under
  <2>3. CASE LET d == at[n][1] IN
             /\ at[n] = <<d, at[n][2]>> /\ PathOf(n) = <<at[d][2], at[n][2]>>
             /\ d \in DirNode /\ d # n /\ Live(d) /\ at[d] = <<Root, at[d][2]>> /\ at[d][2] \in Name
    <3> DEFINE d == at[n][1]
    <3>1. PathOf(n) \in Path /\ Len(PathOf(n)) = 2 /\ PathOf(n)[1] = at[d][2] /\ PathOf(n)[2] = at[n][2]
      BY <2>1, <2>3 DEF Path
    <3> QED
      BY <2>1, <2>3, <3>1 DEF At
  <2> QED
    BY <1>1, <1>2, <2>2, <2>3 DEF LiveFacts
<1>3. ASSUME NEW p \in Path, NEW n \in At(p) PROVE Live(n) /\ PathOf(n) = p
  <2>1. n \in Node /\ at[n] # Nowhere /\ n # Root
    BY AtNodes, Nodes
  <2>2. CASE \E x \in Name : p = <<x>> /\ Len(p) = 1
    <3>1. at[n][1] = Root /\ at[n][2] = p[1]
      BY <1>3, <2>2 DEF At, Under
    <3>2. Live(n)
      BY <2>1, <3>1 DEF Live
    <3>3. p = <<p[1]>>
      BY <2>2
    <3> QED
      BY <2>1, <3>1, <3>2, <3>3 DEF PathOf
  <2>3. CASE \E x, y \in Name : p = <<x, y>> /\ Len(p) = 2
    <3>1. PICK d \in DirNode : at[d] = <<Root, p[1]>> /\ at[n] = <<d, p[2]>>
      BY <1>3, <2>3 DEF At
    <3>2. p = <<p[1], p[2]>> /\ p[1] \in Name
      BY <2>3
    <3>3. at[d] # Nowhere /\ at[d][1] = Root /\ at[d][2] = p[1] /\ at[n][1] = d /\ at[n][2] = p[2]
      BY <3>1, <3>2, Nodes DEF Dir
    <3>4. Live(n) /\ d # Root
      BY <2>1, <3>3, Nodes DEF Live
    <3> QED
      BY <2>1, <3>2, <3>3, <3>4 DEF PathOf
  <2> QED
    BY <2>2, <2>3, PathCases
<1> QED
  BY <1>2, <1>3 DEF AtFacts

SourceFacts ==
    /\ \A n : Live(n) => PathOf(n) \in Path /\ Source(PathOf(n)) = Kind(n) /\ Kind(n) # "none"
    /\ \A p \in Path : Source(p) # "none" => \E n : Live(n) /\ PathOf(n) = p

LEMMA SourceHolds == TypeOK /\ Trees => SourceFacts
<1> SUFFICES ASSUME TypeOK, Trees PROVE SourceFacts
  OBVIOUS
<1>1. AtFacts /\ Unique
  BY AtHolds, UniqueHolds
<1>2. ASSUME NEW n, Live(n)
      PROVE  PathOf(n) \in Path /\ Source(PathOf(n)) = Kind(n) /\ Kind(n) # "none"
  <2> DEFINE m == CHOOSE k \in At(PathOf(n)) : TRUE
  <2>1. PathOf(n) \in Path /\ n \in At(PathOf(n))
    BY <1>1, <1>2 DEF AtFacts
  <2>2. m \in At(PathOf(n))
    BY <2>1
  <2>3. m = n
    BY <1>1, <1>2, <2>1, <2>2 DEF AtFacts, Unique
  <2>4. Source(PathOf(n)) = IF m \in DirNode THEN "dir" ELSE data[m]
    BY <2>1 DEF Source
  <2> HIDE DEF m
  <2>5. Source(PathOf(n)) = Kind(n)
    BY <2>3, <2>4 DEF Kind
  <2>6. n \in Node /\ (n \notin DirNode => data[n] \in Version)
    BY <1>2, Nodes DEF Live, TypeOK
  <2>7. Kind(n) # "none"
    BY <2>6 DEF Kind, Version
  <2> QED
    BY <2>1, <2>5, <2>7
<1>3. ASSUME NEW p \in Path, Source(p) # "none" PROVE \E n : Live(n) /\ PathOf(n) = p
  <2>1. At(p) # {}
    BY <1>3 DEF Source
  <2> QED
    BY <1>1, <2>1 DEF AtFacts
<1> QED
  BY <1>2, <1>3 DEF SourceFacts

-----------------------------------------------------------------------------
(* Paths and what lies below them.                                         *)

LEMMA PathSeq == \A p \in Path : p \in Seq(Name) /\ Len(p) \in {1, 2}
<1> SUFFICES ASSUME NEW p \in Path PROVE p \in Seq(Name) /\ Len(p) \in {1, 2}
  OBVIOUS
<1>1. CASE \E x \in Name : p = <<x>> /\ Len(p) = 1
  BY <1>1
<1>2. CASE \E x, y \in Name : p = <<x, y>> /\ Len(p) = 2
  BY <1>2
<1> QED
  BY <1>1, <1>2, PathCases

LEMMA PrefixOf ==
  \A p, q \in Path : IsPrefix(q, p) <=> q = p \/ (Len(p) = 2 /\ q = Front(p))
<1> SUFFICES ASSUME NEW p \in Path, NEW q \in Path
             PROVE  IsPrefix(q, p) <=> q = p \/ (Len(p) = 2 /\ q = Front(p))
  OBVIOUS
<1>1. p \in Seq(Name) /\ q \in Seq(Name) /\ Len(p) \in {1, 2} /\ Len(q) \in {1, 2}
  BY PathSeq
<1>2. SubSeq(q, 1, Len(q)) = q /\ SubSeq(p, 1, Len(p)) = p
  BY <1>1, SubSeqFull
<1>3. CASE Len(q) = Len(p)
  <2>1. Len(p) = 2 => Len(Front(p)) = 1
    BY ParentPath
  <2>2. IsPrefix(q, p) <=> q = p
    BY <1>1, <1>2, <1>3 DEF IsPrefix
  <2>3. ~(Len(p) = 2 /\ q = Front(p))
    <3> SUFFICES ASSUME Len(p) = 2, q = Front(p) PROVE FALSE
      OBVIOUS
    <3>1. Len(q) = 1 /\ Len(q) = 2
      BY <1>3, <2>1
    <3> QED
      BY <3>1
  <2> QED
    BY <2>2, <2>3
<1>4. CASE Len(q) = 1 /\ Len(p) = 2
  <2>1. Front(p) = SubSeq(p, 1, 1)
    BY <1>4 DEF Front
  <2>2. IsPrefix(q, p) <=> q = SubSeq(p, 1, 1)
    BY <1>2, <1>4 DEF IsPrefix
  <2> QED
    BY <1>4, <2>1, <2>2
<1>5. CASE Len(q) = 2 /\ Len(p) = 1
  BY <1>5 DEF IsPrefix
<1> QED
  BY <1>1, <1>3, <1>4, <1>5

LEMMA PrefixRoot == \A p \in Path : IsPrefix(<<>>, p)
<1> SUFFICES ASSUME NEW p \in Path PROVE IsPrefix(<<>>, p)
  OBVIOUS
<1>1. p \in Seq(Name) /\ Len(p) \in {1, 2} /\ Len(<<>>) = 0
  BY PathSeq
<1>2. SubSeq(p, 1, 0) = <<>> /\ SubSeq(<<>>, 1, 0) = <<>>
  BY SubSeqEmpty
<1> QED
  BY <1>1, <1>2 DEF IsPrefix

BelowFacts ==
    /\ \A n : Live(n) =>
          \/ at[n][1] = Root /\ Len(PathOf(n)) = 1
          \/ /\ at[n][1] \in DirNode /\ at[n][1] # Root /\ at[n][1] # n /\ Live(at[n][1])
             /\ Len(PathOf(n)) = 2 /\ Front(PathOf(n)) = PathOf(at[n][1])
             /\ Len(PathOf(at[n][1])) = 1 /\ at[at[n][1]][1] = Root
    /\ \A n, m : Live(n) /\ Live(m) => (IsPrefix(PathOf(n), PathOf(m)) <=> n = m \/ at[m][1] = n)
    /\ \A p \in Path : Len(p) = 2 /\ Source(p) # "none" => Source(Front(p)) = "dir"

LEMMA BelowHolds == TypeOK /\ Trees => BelowFacts
<1> SUFFICES ASSUME TypeOK, Trees PROVE BelowFacts
  OBVIOUS
<1>1. LiveFacts /\ Unique /\ AtFacts /\ SourceFacts
  BY LiveHolds, UniqueHolds, AtHolds, SourceHolds
<1>2. ASSUME NEW n, Live(n)
      PROVE  \/ at[n][1] = Root /\ Len(PathOf(n)) = 1
             \/ /\ at[n][1] \in DirNode /\ at[n][1] # Root /\ at[n][1] # n /\ Live(at[n][1])
                /\ Len(PathOf(n)) = 2 /\ Front(PathOf(n)) = PathOf(at[n][1])
                /\ Len(PathOf(at[n][1])) = 1 /\ at[at[n][1]][1] = Root
  <2>1. CASE at[n] = <<Root, at[n][2]>> /\ PathOf(n) = <<at[n][2]>>
    BY <2>1
  <2>2. CASE LET d == at[n][1] IN
             /\ at[n] = <<d, at[n][2]>> /\ PathOf(n) = <<at[d][2], at[n][2]>>
             /\ d \in DirNode /\ d # n /\ Live(d) /\ at[d] = <<Root, at[d][2]>> /\ at[d][2] \in Name
    <3> DEFINE d == at[n][1]
    <3>1. d \in DirNode /\ d # Root /\ d # n /\ Live(d) /\ at[d][1] = Root
      BY <2>2, Nodes DEF Live
    <3>2. PathOf(d) = <<at[d][2]>>
      BY <3>1 DEF PathOf
    <3>3. at[n][2] \in Name
      BY <1>1, <1>2 DEF LiveFacts
    <3>4. Len(PathOf(n)) = 2 /\ Front(PathOf(n)) = <<at[d][2]>>
      BY <2>2, <3>3, SubPath
    <3> QED
      BY <3>1, <3>2, <3>4
  <2> QED
    BY <1>1, <1>2, <2>1, <2>2 DEF LiveFacts
<1>3. ASSUME NEW n, NEW m, Live(n), Live(m)
      PROVE  IsPrefix(PathOf(n), PathOf(m)) <=> n = m \/ at[m][1] = n
  <2>1. PathOf(n) \in Path /\ PathOf(m) \in Path
    BY <1>1, <1>3 DEF AtFacts
  <2>2. PathOf(n) = PathOf(m) <=> n = m
    BY <1>1, <1>3 DEF Unique
  <2>3. IsPrefix(PathOf(n), PathOf(m)) <=>
          n = m \/ (Len(PathOf(m)) = 2 /\ PathOf(n) = Front(PathOf(m)))
    BY <2>1, <2>2, PrefixOf
  <2>4. CASE at[m][1] = Root /\ Len(PathOf(m)) = 1
    BY <1>3, <2>3, <2>4, Nodes DEF Live
  <2>5. CASE /\ Live(at[m][1]) /\ Len(PathOf(m)) = 2 /\ Front(PathOf(m)) = PathOf(at[m][1])
    <3>1. PathOf(n) = PathOf(at[m][1]) <=> at[m][1] = n
      BY <1>1, <1>3, <2>5 DEF Unique
    <3> QED
      BY <2>3, <2>5, <3>1
  <2> QED
    BY <1>2, <1>3, <2>4, <2>5
<1>4. ASSUME NEW p \in Path, Len(p) = 2, Source(p) # "none" PROVE Source(Front(p)) = "dir"
  <2>1. PICK n : Live(n) /\ PathOf(n) = p
    BY <1>1, <1>4 DEF SourceFacts
  <2>2. /\ at[n][1] \in DirNode /\ Live(at[n][1]) /\ Front(p) = PathOf(at[n][1])
    BY <1>2, <1>4, <2>1
  <2> QED
    BY <1>1, <2>2 DEF SourceFacts, Kind
<1> QED
  BY <1>2, <1>3, <1>4 DEF BelowFacts

Geography == LiveFacts /\ Unique /\ AtFacts /\ SourceFacts /\ BelowFacts

LEMMA GeographyHolds == TypeOK /\ Trees => Geography
BY LiveHolds, UniqueHolds, AtHolds, SourceHolds, BelowHolds DEF Geography

LEMMA GeographyNext == TypeOK' /\ Trees' => Geography'
BY GeographyHolds, PTL

-----------------------------------------------------------------------------
(* What a copy makes of an entry of the backup.                            *)

\* A copy can make the entry what the source has.
Compatible(b, v) == IF v = "dir" THEN b \in {"none", "dir"} ELSE b # "dir"

LEMMA CopyEffect ==
  ASSUME TypeOK, NEW b \in [Path -> Content], NEW e, NEW p \in Path
  PROVE  LET c == copy_recursive(b, e) IN
         /\ ~IsPrefix(e, p) => c[p] = b[p]
         /\ Source(p) = "none" => c[p] = b[p]
         /\ c[p] = b[p] \/ c[p] = Source(p)
         /\ IsPrefix(e, p) /\ Source(p) # "none" /\ Compatible(b[p], Source(p))
            /\ (Len(p) = 1 \/ c[Front(p)] = "dir")
               => c[p] = Source(p)
<1> DEFINE b1 == CopyLevel(b, e, 1)
           c == copy_recursive(b, e)
<1>1. /\ b1 = [q \in Path |-> IF Len(q) = 1 /\ IsPrefix(e, q) THEN CopyEntry(b, q) ELSE b[q]]
      /\ c = [q \in Path |-> IF Len(q) = 2 /\ IsPrefix(e, q) THEN CopyEntry(b1, q) ELSE b1[q]]
  BY DEF copy_recursive, CopyLevel
<1>2. Len(p) \in {1, 2}
  BY PathCases
<1>3. Len(p) = 2 => Front(p) \in Path /\ Len(Front(p)) = 1
  BY ParentPath
<1> HIDE DEF b1, c
<1>4. CASE Len(p) = 1
  <2>1. c[p] = IF IsPrefix(e, p) THEN CopyEntry(b, p) ELSE b[p]
    BY <1>1, <1>4
  <2> QED
    BY <1>4, <2>1 DEF CopyEntry, ParentIsDir, Compatible, c
<1>5. CASE Len(p) = 2
  <2>1. b1[p] = b[p] /\ c[p] = IF IsPrefix(e, p) THEN CopyEntry(b1, p) ELSE b[p]
    BY <1>1, <1>5
  <2>2. c[Front(p)] = b1[Front(p)]
    BY <1>1, <1>3, <1>5
  <2> QED
    BY <1>5, <2>1, <2>2 DEF CopyEntry, ParentIsDir, Compatible, c
<1> QED
  BY <1>2, <1>4, <1>5

-----------------------------------------------------------------------------
(* The queue, and what it will do to the backup.                           *)

Queue == 1..Len(events)
Copies(i) == events[i].mask \in {"create", "modify", "moved_to"}
Drops(i) == events[i].mask \in {"delete", "moved_from"}
OfEntry(i) == Copies(i) \/ Drops(i)

\* The path of an event, where loc[w] is the path of w when the event is handled.
EventAt(loc, i) == Append(loc[events[i].wd], events[i].name)

\* An event will remove p.
Cleared(loc, p) == \E j \in Queue : Drops(j) /\ IsPrefix(EventAt(loc, j), p)

\* One before the i-th will copy it, and none removes it after that.
DueBefore(loc, p, i) ==
    \E k \in Queue :
       /\ k < i /\ Copies(k) /\ IsPrefix(EventAt(loc, k), p)
       /\ \A j \in Queue : j > k /\ Drops(j) => ~IsPrefix(EventAt(loc, j), p)

Due(loc, p) == DueBefore(loc, p, Len(events) + 1)

\* The backup has what the source has, or will have when the queue is empty, and
\* it has a directory when an entry of it is handled.
GoneCleared(loc) ==
    \A p \in Path : Source(p) = "none" /\ backup[p] # "none" => Cleared(loc, p)

ThereDue(loc) ==
    \A p \in Path : Source(p) # "none" =>
       \/ backup[p] = Source(p) /\ ~Cleared(loc, p)
       \/ Due(loc, p) /\ (Compatible(backup[p], Source(p)) \/ Cleared(loc, p))

DirsFirst(loc) ==
    \A i \in Queue : OfEntry(i) /\ events[i].wd \in watched \ {Root} =>
       LET f == loc[events[i].wd] IN
       (backup[f] = "dir" /\ ~Cleared(loc, f)) \/ DueBefore(loc, f, i)

Settling(loc) == GoneCleared(loc) /\ ThereDue(loc) /\ DirsFirst(loc)

\* A rename whose second event is still queued, first or behind the other one:
\* what is in the map below the old path will get the new one.
Moving == pending # NoCookie \/ (events # <<>> /\ events[1].mask = "moved_from")
Old(loc) == IF pending # NoCookie THEN pending[2] ELSE EventAt(loc, 1)
New(loc) == EventAt(loc, IF pending # NoCookie THEN 1 ELSE 2)
Resolved(loc, p) ==
    IF Moving /\ IsPrefix(Old(loc), p)
    THEN New(loc) \o SubSeq(p, Len(Old(loc)) + 1, Len(p)) ELSE p

Named == watched \cup {events[i].wd : i \in {k \in Queue : OfEntry(k)}}

MapResolves(loc) ==
    /\ \A w \in Named : Known(w) /\ \A i \in Indices(w) : Resolved(loc, map[i].path) = loc[w]
    /\ \A k \in Queue : Moving /\ events[k].mask \in {"moved_from", "moved_to"} =>
          \A i \in Indices(events[k].wd) : ~IsPrefix(Old(loc), map[i].path)
    /\ \A n \in Node : at[n] # Nowhere /\ n \notin watched => ~Known(n)

\* A rename is reported by two events in a row, and nothing comes before them.
RenamesFirst ==
    /\ \A k \in Queue : events[k].mask = "moved_from" =>
          /\ k = 1 /\ Len(events) > 1 /\ events[2].mask = "moved_to"
          /\ events[2].cookie = events[1].cookie /\ events[1].cookie # NoCookie
          /\ pending = NoCookie
    /\ \A k \in Queue : events[k].mask = "moved_to" =>
          k = 1 \/ (k = 2 /\ events[1].mask = "moved_from")
    /\ pending # NoCookie =>
          events # <<>> /\ events[1].mask = "moved_to" /\ events[1].cookie = pending[1]
    /\ pc = "watch" =>
          pending = NoCookie /\ \A k \in Queue : events[k].mask \notin {"moved_from", "moved_to"}

Watching(loc) ==
    /\ watched \subseteq Dir
    /\ \A n \in watched : loc[n] = PathOf(n) /\ (n # Root => Live(n))
    /\ IF pc = "watch" /\ target = <<>> THEN watched = {} /\ events = <<>> /\ map = <<>>
       ELSE Root \in watched
    /\ pc = "watch" => target = <<>> \/ Source(target) = "dir"

\* The events of an inode are read while it is watched, or before its end is.
EventsWatched(loc) ==
    \A i \in Queue : OfEntry(i) =>
       LET w == events[i].wd IN
       /\ w \in Dir /\ Len(loc[w]) <= 1
       /\ \/ w \in watched
          \/ /\ at[w] = Nowhere
             /\ \E j \in Queue : /\ j > i /\ events[j].mask = "delete" /\ events[j].wd = Root
                                 /\ loc[w] = <<events[j].name>>

SelfLast ==
    \A i, j \in Queue : i < j /\ ~OfEntry(i) /\ OfEntry(j) => events[i].wd # events[j].wd

\* A directory that is not watched yet is about to be.
InTarget(d) == pc = "watch" /\ IsPrefix(target, PathOf(d))

Awaited(loc, d) ==
    \E i \in Queue :
       /\ Copies(i) /\ events[i].wd = at[d][1] /\ events[i].name = at[d][2]
       /\ \A j \in Queue : j > i /\ Drops(j) => ~IsPrefix(EventAt(loc, j), PathOf(d))

DirsExpected(loc) ==
    \A d \in DirNode : Live(d) /\ d \notin watched =>
        \/ InTarget(d) \/ Awaited(loc, d)
        \/ at[d][1] # Root /\ at[d][1] \notin watched /\ Awaited(loc, at[d][1])

\* What an earlier directory left there is removed by then.
BelowUnwatched(loc) ==
    \A d \in DirNode : Live(d) /\ d \notin watched /\ ~InTarget(d) =>
        \A p \in Path : Len(p) = 2 /\ Front(p) = PathOf(d) /\ backup[p] # "none" =>
            Cleared(loc, p)

Following == pc \in {"watch", "read"} /\ rootExists /\ ~tooMany

Follows(loc) ==
    /\ Settling(loc) /\ MapResolves(loc) /\ RenamesFirst /\ Watching(loc)
    /\ EventsWatched(loc) /\ SelfLast /\ DirsExpected(loc) /\ BelowUnwatched(loc)

Blank ==
    /\ rootExists /\ target = <<>> /\ map = <<>> /\ pending = NoCookie
    /\ watched = {} /\ events = <<>> /\ backup = [p \in Path |-> "none"]

\* loc says where the inode of a watch or an event is when the event is handled:
\* before a rename is handled the map has the old paths.
Locations == [Node \cup {Root} -> Seq(Name)]

ConvergeInv ==
    /\ Trees
    /\ pc = "copy" => Blank
    /\ Following => \E loc \in Locations : Follows(loc)

LEMMA QueueTail ==
  ASSUME NEW S, events \in Seq(S), events # <<>>, events' = Tail(events), NEW loc
  PROVE  /\ 1 \in Queue /\ events[1] = Head(events)
         /\ \A i \in Queue' : /\ i \in Nat /\ i + 1 \in Queue /\ events'[i] = events[i + 1]
                              /\ Copies(i)' <=> Copies(i + 1)
                              /\ Drops(i)' <=> Drops(i + 1)
                              /\ OfEntry(i)' <=> OfEntry(i + 1)
                              /\ EventAt(loc, i)' = EventAt(loc, i + 1)
         /\ \A i \in Queue : i \in Nat /\ (i = 1 \/ (i - 1 \in Queue' /\ (i - 1) + 1 = i))
<1>1. /\ Len(events) \in Nat \ {0} /\ Len(events') = Len(events) - 1
      /\ \A i \in 1..Len(events') : events'[i] = events[i + 1]
      /\ events[1] = Head(events)
  BY HeadTailProperties, LenProperties, EmptySeq
<1>2. \A i \in Queue' : i \in Nat /\ i + 1 \in Queue /\ events'[i] = events[i + 1]
  BY <1>1 DEF Queue
<1>3. \A i \in Queue : i \in Nat /\ (i = 1 \/ (i - 1 \in Queue' /\ (i - 1) + 1 = i))
  BY <1>1 DEF Queue
<1>4. \A i \in Queue' : /\ Copies(i)' <=> Copies(i + 1)
                        /\ Drops(i)' <=> Drops(i + 1)
                        /\ EventAt(loc, i)' = EventAt(loc, i + 1)
  BY <1>2 DEF Copies, Drops, EventAt
<1>5. \A i \in Queue' : OfEntry(i)' <=> OfEntry(i + 1)
  BY <1>4 DEF OfEntry
<1>6. 1 \in Queue
  BY <1>1 DEF Queue
<1> QED
  BY <1>1, <1>2, <1>3, <1>4, <1>5, <1>6

\* The first event is handled.
LEMMA PromisesTail ==
  ASSUME NEW S, events \in Seq(S), events # <<>>, events' = Tail(events), NEW loc, NEW p
  PROVE  /\ Cleared(loc, p) <=> (Drops(1) /\ IsPrefix(EventAt(loc, 1), p)) \/ Cleared(loc, p)'
         /\ \A i \in Nat : DueBefore(loc, p, i + 1) =>
               \/ DueBefore(loc, p, i)'
               \/ Copies(1) /\ IsPrefix(EventAt(loc, 1), p) /\ ~Cleared(loc, p)'
<1>1. /\ 1 \in Queue
      /\ \A i \in Queue' : /\ i \in Nat /\ i + 1 \in Queue
                           /\ Copies(i)' <=> Copies(i + 1)
                           /\ Drops(i)' <=> Drops(i + 1)
                           /\ EventAt(loc, i)' = EventAt(loc, i + 1)
      /\ \A i \in Queue : i \in Nat /\ (i = 1 \/ (i - 1 \in Queue' /\ (i - 1) + 1 = i))
  BY QueueTail
<1>2. Cleared(loc, p)' => Cleared(loc, p)
  BY <1>1 DEF Cleared
<1>3. Cleared(loc, p) => (Drops(1) /\ IsPrefix(EventAt(loc, 1), p)) \/ Cleared(loc, p)'
  <2> SUFFICES ASSUME NEW j \in Queue, Drops(j), IsPrefix(EventAt(loc, j), p)
               PROVE  (Drops(1) /\ IsPrefix(EventAt(loc, 1), p)) \/ Cleared(loc, p)'
    BY DEF Cleared
  <2>1. CASE j = 1
    BY <2>1
  <2>2. CASE j # 1
    <3>1. j - 1 \in Queue' /\ (j - 1) + 1 = j
      BY <1>1, <2>2
    <3>2. Drops(j - 1)' /\ IsPrefix(EventAt(loc, j - 1), p)'
      BY <1>1, <3>1
    <3> QED
      BY <3>1, <3>2 DEF Cleared
  <2> QED
    BY <2>1, <2>2
<1>4. Drops(1) /\ IsPrefix(EventAt(loc, 1), p) => Cleared(loc, p)
  BY <1>1 DEF Cleared
<1>5. ASSUME NEW i \in Nat, DueBefore(loc, p, i + 1)
      PROVE  \/ DueBefore(loc, p, i)'
             \/ Copies(1) /\ IsPrefix(EventAt(loc, 1), p) /\ ~Cleared(loc, p)'
  <2>1. PICK k \in Queue :
           /\ k < i + 1 /\ Copies(k) /\ IsPrefix(EventAt(loc, k), p)
           /\ \A j \in Queue : j > k /\ Drops(j) => ~IsPrefix(EventAt(loc, j), p)
    BY <1>5 DEF DueBefore
  <2>2. CASE k = 1
    <3>1. ASSUME NEW j \in Queue', Drops(j)', IsPrefix(EventAt(loc, j), p)' PROVE FALSE
      <4>1. j + 1 \in Queue /\ j + 1 > 1 /\ Drops(j + 1) /\ IsPrefix(EventAt(loc, j + 1), p)
        <5>1. j \in Nat /\ j # 0
          BY <1>1, <3>1 DEF Queue
        <5> QED
          BY <1>1, <3>1, <5>1
      <4> QED
        BY <2>1, <2>2, <4>1
    <3> QED
      BY <2>1, <2>2, <3>1 DEF Cleared
  <2>3. CASE k # 1
    <3>1. k - 1 \in Queue' /\ (k - 1) + 1 = k /\ k \in Nat
      BY <1>1, <2>3
    <3>2. k - 1 < i /\ Copies(k - 1)' /\ IsPrefix(EventAt(loc, k - 1), p)'
      BY <1>1, <2>1, <3>1
    <3>3. ASSUME NEW j \in Queue', j > k - 1, Drops(j)' PROVE ~IsPrefix(EventAt(loc, j), p)'
      <4>1. j + 1 \in Queue /\ j + 1 > k /\ Drops(j + 1)
        BY <1>1, <3>1, <3>3
      <4>2. ~IsPrefix(EventAt(loc, j + 1), p)
        BY <2>1, <4>1
      <4> QED
        BY <1>1, <4>2
    <3> QED
      BY <3>1, <3>2, <3>3 DEF DueBefore
  <2> QED
    BY <2>2, <2>3
<1> QED
  BY <1>2, <1>3, <1>4, <1>5

LEMMA AppendPair ==
  ASSUME NEW x \in Name, NEW y \in Name
  PROVE  Append(<<x>>, y) = <<x, y>>
<1>1. <<x>> \in Seq(Name) /\ Len(<<x>>) = 1 /\ <<x>>[1] = x
  OBVIOUS
<1> DEFINE s == Append(<<x>>, y)
           t == <<x, y>>
<1>2. s \in Seq(Name) /\ Len(s) = 2 /\ s[1] = x /\ s[2] = y
  BY <1>1, AppendProperties
<1>3. t \in Seq(Name) /\ Len(t) = 2 /\ t[1] = x /\ t[2] = y
  OBVIOUS
<1> HIDE DEF s, t
<1>4. \A i \in 1..Len(s) : s[i] = t[i]
  BY <1>2, <1>3
<1> QED
  BY <1>2, <1>3, <1>4, SeqEqual DEF s, t

\* The tree stays as it is.
LEMMA SameSource ==
  ASSUME at' = at, data' = data
  PROVE  /\ \A p : Source(p)' = Source(p)
         /\ \A n : (Live(n)' <=> Live(n)) /\ PathOf(n)' = PathOf(n)
BY DEF Source, At, Under, Live, PathOf

\* Events name entries of directories at most one level down.
LEMMA EventFacts ==
  ASSUME MirrorIInv, NEW loc \in Locations, EventsWatched(loc), NEW i \in Queue
  PROVE  /\ OfEntry(i) => /\ events[i].wd \in Dir /\ events[i].name \in Name
                          /\ EventAt(loc, i) \in Path
                          /\ \/ loc[events[i].wd] = <<>> /\ Len(EventAt(loc, i)) = 1
                             \/ /\ loc[events[i].wd] \in Path /\ Len(loc[events[i].wd]) = 1
                                /\ Len(EventAt(loc, i)) = 2
                                /\ Front(EventAt(loc, i)) = loc[events[i].wd]
         /\ ~OfEntry(i) => events[i].mask \in SelfMasks /\ events[i].wd \notin watched
<1>1. events[i] \in SoundEvent
  BY InvParts DEF Queue
<1>2. /\ events[i].mask \in Masks
      /\ events[i].mask \notin SelfMasks => events[i].name \in Name
      /\ events[i].mask \in SelfMasks => events[i].wd \notin watched
  BY <1>1 DEF SoundEvent, EventSet, Masks, SelfMasks
<1>3. OfEntry(i) <=> events[i].mask \notin SelfMasks
  BY <1>2 DEF OfEntry, Copies, Drops, Masks, SelfMasks
<1>4. ASSUME OfEntry(i)
      PROVE  /\ EventAt(loc, i) \in Path
             /\ \/ loc[events[i].wd] = <<>> /\ Len(EventAt(loc, i)) = 1
                \/ /\ loc[events[i].wd] \in Path /\ Len(loc[events[i].wd]) = 1
                   /\ Len(EventAt(loc, i)) = 2
                   /\ Front(EventAt(loc, i)) = loc[events[i].wd]
  <2> DEFINE q == loc[events[i].wd]
             x == events[i].name
  <2>1. x \in Name /\ events[i].wd \in Dir /\ Len(q) <= 1
    BY <1>2, <1>3, <1>4 DEF EventsWatched
  <2>2. q \in Seq(Name)
    BY <2>1, Nodes DEF Locations, Dir, Node
  <2> HIDE DEF q, x
  <2>3. CASE q = <<>>
    <3>1. Append(q, x) = <<x>>
      BY <2>1, <2>3
    <3> QED
      BY <2>1, <2>3, <3>1 DEF EventAt, Path, q, x
  <2>4. CASE q # <<>>
    <3>0. Len(q) \in Nat /\ Len(q) # 0
      BY <2>2, <2>4, EmptySeq, LenProperties
    <3>1. Len(q) = 1 /\ q[1] \in Name
      BY <2>1, <2>2, <3>0, ElementOfSeq
    <3>2. q = <<q[1]>>
      BY <2>2, <3>1
    <3>3. Append(q, x) = <<q[1], x>>
      <4>1. PICK y \in Name : q = <<y>>
        BY <3>1, <3>2
      <4>2. Append(<<y>>, x) = <<y, x>> /\ q[1] = y
        BY <2>1, <4>1, AppendPair
      <4> QED
        BY <4>1, <4>2
    <3>4. Front(<<q[1], x>>) = <<q[1]>> /\ <<q[1], x>> \in Path /\ Len(<<q[1], x>>) = 2
      BY <2>1, <3>1, SubPath
    <3>5. EventAt(loc, i) = <<q[1], x>>
      BY <3>3 DEF EventAt, q, x
    <3>6. q \in Path
      BY <3>1, <3>2 DEF Path
    <3> QED
      BY <3>1, <3>2, <3>4, <3>5, <3>6 DEF q
  <2> QED
    BY <2>3, <2>4
<1> QED
  BY <1>2, <1>3, <1>4 DEF EventsWatched

-----------------------------------------------------------------------------
(* The first event is handled: the backup.                                 *)

\* What a copy of e makes of the backup b, whatever the source has at e.
Refreshed(b, c, e) ==
    \A p \in Path :
       /\ ~IsPrefix(e, p) \/ Source(p) = "none" => c[p] = b[p]
       /\ c[p] = b[p] \/ c[p] = Source(p)
       /\ IsPrefix(e, p) /\ Source(p) # "none" /\ Compatible(b[p], Source(p))
          /\ (Len(p) = 1 \/ c[Front(p)] = "dir")
             => c[p] = Source(p)

Handled(b, c, loc) ==
    \/ ~OfEntry(1) /\ c = b
    \/ Drops(1) /\ c = remove_recursive(b, EventAt(loc, 1))
    \/ Copies(1) /\ Refreshed(b, c, EventAt(loc, 1))

LEMMA MasksApart == \A i : ~(Copies(i) /\ Drops(i))
BY DEF Copies, Drops

LEMMA TakeFacts ==
  ASSUME MirrorIInv, NEW M, Take(M)
  PROVE  /\ pc = "read" /\ events # <<>> /\ events' = Tail(events)
         /\ events \in Seq(SoundEvent) /\ Len(events) \in Nat
         /\ UNCHANGED <<at, data, rootExists, watched>>
         /\ Head(events).mask \in M /\ Head(events) = events[1] /\ 1 \in Queue
         /\ \A p : Source(p)' = Source(p)
         /\ \A n : (Live(n)' <=> Live(n)) /\ PathOf(n)' = PathOf(n)
         /\ Len(events') + 1 = Len(events) /\ Len(events') \in Nat
<1>1. /\ pc = "read" /\ events # <<>> /\ events' = Tail(events)
      /\ UNCHANGED <<at, data, rootExists, watched>> /\ Head(events).mask \in M
  BY DEF Take, userVars
<1>2. events \in Seq(SoundEvent)
  BY InvParts
<1>3. Head(events) = events[1] /\ 1 \in Queue
  BY <1>1, <1>2, QueueTail
<1>4. /\ \A p : Source(p)' = Source(p)
      /\ \A n : (Live(n)' <=> Live(n)) /\ PathOf(n)' = PathOf(n)
  BY <1>1, SameSource
<1>5. Len(events) \in Nat \ {0} /\ Len(events') = Len(events) - 1
  BY <1>1, <1>2, HeadTailProperties, LenProperties, EmptySeq
<1> QED
  BY <1>1, <1>2, <1>3, <1>4, <1>5

\* Before the end of an inode whose events are queued, its path is removed.
LEMMA DeadDropped ==
  ASSUME MirrorIInv, NEW loc \in Locations, Follows(loc), pc = "read"
  PROVE  /\ Root \in watched /\ loc[Root] = <<>>
         /\ \A i \in Queue : OfEntry(i) /\ events[i].wd \notin watched =>
               \E j \in Queue : /\ j > i /\ Drops(j) /\ events[j].mask = "delete"
                                /\ EventAt(loc, j) = loc[events[i].wd]
<1>1. Root \in watched /\ loc[Root] = <<>>
  BY DEF Follows, Watching, PathOf
<1>2. ASSUME NEW i \in Queue, OfEntry(i), events[i].wd \notin watched
      PROVE  \E j \in Queue : /\ j > i /\ Drops(j) /\ events[j].mask = "delete"
                              /\ EventAt(loc, j) = loc[events[i].wd]
  <2>1. PICK j \in Queue : /\ j > i /\ events[j].mask = "delete" /\ events[j].wd = Root
                           /\ loc[events[i].wd] = <<events[j].name>>
    BY <1>2 DEF Follows, EventsWatched
  <2>2. Drops(j)
    BY <2>1 DEF Drops
  <2>3. events[j].name \in Name
    BY <2>2, EventFacts DEF Follows, OfEntry
  <2>4. EventAt(loc, j) = <<events[j].name>>
    <3>1. \A x \in Name : Append(<<>>, x) = <<x>>
      OBVIOUS
    <3> QED
      BY <1>1, <2>1, <2>3, <3>1 DEF EventAt
  <2> QED
    BY <2>1, <2>2, <2>4
<1> QED
  BY <1>1, <1>2

\* A directory with a watch and an event is at the top of the source.
LEMMA WatchedDir ==
  ASSUME MirrorIInv, NEW loc \in Locations, Geography, Watching(loc), EventsWatched(loc),
         NEW i \in Queue, OfEntry(i), events[i].wd \in watched \ {Root}
  PROVE  LET w == events[i].wd IN
         /\ w \in DirNode /\ Live(w) /\ loc[w] = PathOf(w) /\ at[w][1] = Root
         /\ loc[w] \in Path /\ Len(loc[w]) = 1 /\ Source(loc[w]) = "dir"
<1> DEFINE w == events[i].wd
<1>1. w \in DirNode /\ Live(w) /\ loc[w] = PathOf(w) /\ Len(loc[w]) <= 1
  BY DEF Watching, EventsWatched, Dir
<1>2. PathOf(w) \in Path /\ Source(PathOf(w)) = "dir"
  BY <1>1 DEF Geography, SourceFacts, Kind
<1>3. Len(PathOf(w)) = 1 /\ at[w][1] = Root
  <2>1. Len(PathOf(w)) <= 1 /\ BelowFacts /\ Live(w)
    BY <1>1 DEF Geography
  <2> HIDE DEF w
  <2>2. \/ at[w][1] = Root /\ Len(PathOf(w)) = 1
        \/ Len(PathOf(w)) = 2
    BY <2>1 DEF BelowFacts
  <2> QED
    BY <2>1, <2>2
<1> QED
  BY <1>1, <1>2, <1>3

\* The event at the head finds the directory it is in.
LEMMA TakeSettles ==
  ASSUME MirrorIInv, Trees, NEW loc \in Locations, Follows(loc), NEW M, Take(M),
         Handled(backup, backup', loc)
  PROVE  Settling(loc)'
<1> DEFINE e == EventAt(loc, 1)
<1>1. Geography /\ backup \in [Path -> Content]
  BY GeographyHolds DEF MirrorIInv, TypeOK
<1>2. /\ events # <<>> /\ events' = Tail(events) /\ events \in Seq(SoundEvent)
      /\ 1 \in Queue /\ watched' = watched /\ \A p : Source(p)' = Source(p)
      /\ Len(events') + 1 = Len(events) /\ Len(events') \in Nat /\ 1 \in Nat
  BY TakeFacts
<1>3. /\ Settling(loc) /\ Watching(loc) /\ EventsWatched(loc)
  BY DEF Follows
<1>4. ASSUME NEW p
      PROVE  /\ Cleared(loc, p) <=> (Drops(1) /\ IsPrefix(e, p)) \/ Cleared(loc, p)'
             /\ \A i \in Nat : DueBefore(loc, p, i + 1) =>
                  DueBefore(loc, p, i)' \/ (Copies(1) /\ IsPrefix(e, p) /\ ~Cleared(loc, p)')
             /\ Due(loc, p) =>
                  Due(loc, p)' \/ (Copies(1) /\ IsPrefix(e, p) /\ ~Cleared(loc, p)')
  <2>1. /\ Cleared(loc, p) <=> (Drops(1) /\ IsPrefix(e, p)) \/ Cleared(loc, p)'
        /\ \A i \in Nat : DueBefore(loc, p, i + 1) =>
             DueBefore(loc, p, i)' \/ (Copies(1) /\ IsPrefix(e, p) /\ ~Cleared(loc, p)')
    BY <1>2, PromisesTail
  <2>2. Len(events') + 1 \in Nat /\ Len(events) + 1 = (Len(events') + 1) + 1
    BY <1>2
  <2> QED
    BY <2>1, <2>2 DEF Due
<1>5. \A p \in Path : Compatible("none", Source(p)) /\ Compatible(Source(p), Source(p))
  BY DEF Compatible
<1>6. e \in Path \/ ~OfEntry(1)
  BY <1>2, <1>3, EventFacts
<1>7. ASSUME NEW p \in Path
      PROVE  /\ ~OfEntry(1) => backup'[p] = backup[p]
             /\ Drops(1) => backup'[p] = IF IsPrefix(e, p) THEN "none" ELSE backup[p]
             /\ Copies(1) =>
                  /\ ~IsPrefix(e, p) \/ Source(p) = "none" => backup'[p] = backup[p]
                  /\ backup'[p] = backup[p] \/ backup'[p] = Source(p)
                  /\ IsPrefix(e, p) /\ Source(p) # "none" /\ Compatible(backup[p], Source(p))
                     /\ (Len(p) = 1 \/ backup'[Front(p)] = "dir")
                        => backup'[p] = Source(p)
  <2>1. CASE ~OfEntry(1) /\ backup' = backup
    BY <2>1 DEF OfEntry
  <2>2. CASE Drops(1) /\ backup' = remove_recursive(backup, e)
    BY <2>2, MasksApart DEF OfEntry, remove_recursive
  <2>3. CASE Copies(1) /\ Refreshed(backup, backup', e)
    BY <2>3, MasksApart DEF OfEntry, Refreshed
  <2> QED
    BY <2>1, <2>2, <2>3 DEF Handled
<1>8. OfEntry(1) <=> Copies(1) \/ Drops(1)
  BY DEF OfEntry
<1>9. ~(Copies(1) /\ Drops(1))
  BY MasksApart
<1> HIDE DEF e
<1>10. ASSUME NEW p \in Path, Source(p) = "none", backup'[p] # "none"
       PROVE  Cleared(loc, p)'
  <2>1. backup[p] # "none" /\ ~(Drops(1) /\ IsPrefix(e, p))
    BY <1>7, <1>8, <1>10
  <2>2. Cleared(loc, p)
    BY <1>3, <1>10, <2>1 DEF Settling, GoneCleared
  <2> QED
    BY <1>4, <2>1, <2>2
<1>11. ASSUME NEW p \in Path, Source(p) # "none", backup[p] = Source(p), ~Cleared(loc, p)
       PROVE  backup'[p] = Source(p) /\ ~Cleared(loc, p)'
  <2>1. ~Cleared(loc, p)' /\ ~(Drops(1) /\ IsPrefix(e, p))
    BY <1>4, <1>11
  <2> QED
    BY <1>7, <1>8, <1>11, <2>1
\* What is not due any more has just been copied.
<1>12. ASSUME NEW p \in Path, Len(p) = 1, Source(p) # "none",
              Copies(1), IsPrefix(e, p), ~Cleared(loc, p)'
       PROVE  backup'[p] = Source(p)
  <2>1. ~Cleared(loc, p)
    BY <1>4, <1>9, <1>12
  <2>2. backup[p] = Source(p) \/ Compatible(backup[p], Source(p))
    BY <1>3, <1>12, <2>1 DEF Settling, ThereDue
  <2>3. Compatible(backup[p], Source(p))
    BY <1>5, <2>2
  <2> QED
    BY <1>7, <1>12, <2>3
<1>13. ASSUME NEW p \in Path, Len(p) = 2, Source(p) # "none",
              Copies(1), IsPrefix(e, p), ~Cleared(loc, p)'
       PROVE  backup'[p] = Source(p)
  <2> DEFINE f == Front(p)
  <2>1. ~Cleared(loc, p)
    BY <1>4, <1>9, <1>13
  <2>2. backup[p] = Source(p) \/ Compatible(backup[p], Source(p))
    BY <1>3, <1>13, <2>1 DEF Settling, ThereDue
  <2>3. Compatible(backup[p], Source(p))
    BY <1>5, <2>2
  <2>4. f \in Path /\ Len(f) = 1 /\ Source(f) = "dir"
        /\ \A q \in Seq(Name) : IsPrefix(q, f) => IsPrefix(q, p)
    BY <1>1, <1>13, ParentPath DEF Geography, BelowFacts
  <2>5. ~Cleared(loc, f)
    <3>1. ASSUME NEW j \in Queue, Drops(j), IsPrefix(EventAt(loc, j), f) PROVE FALSE
      <4>1. EventAt(loc, j) \in Path
        BY <1>3, <3>1, EventFacts DEF OfEntry
      <4>2. IsPrefix(EventAt(loc, j), p)
        BY <2>4, <3>1, <4>1, PathSeq
      <4> QED
        BY <2>1, <3>1, <4>2 DEF Cleared
    <3> QED
      BY <3>1 DEF Cleared
  <2>6. e \in Path /\ e = EventAt(loc, 1)
    BY <1>6, <1>8, <1>13 DEF e
  <2>7. e = p \/ e = f
    BY <1>13, <2>6, PrefixOf
  <2>8. CASE e = f
    <3>1. IsPrefix(e, f)
      BY <2>4, <2>6, <2>8, PrefixOf
    <3>2. ~Cleared(loc, f)'
      BY <1>4, <2>5
    <3>3. backup'[f] = "dir"
      BY <1>12, <1>13, <2>4, <3>1, <3>2
    <3> QED
      BY <1>7, <1>13, <2>3, <3>3
  <2>9. CASE e = p
    <3> DEFINE w == events[1].wd
    <3>1. loc[w] = f /\ w \in Dir /\ OfEntry(1)
      <4>1. OfEntry(1) /\ e = EventAt(loc, 1) /\ Len(e) = 2
        BY <1>8, <1>13, <2>6, <2>9
      <4>2. w \in Dir /\ (Len(e) = 1 \/ Front(e) = loc[w])
        BY <1>2, <1>3, <4>1, EventFacts
      <4> QED
        BY <2>9, <4>1, <4>2
    <3>2. w \in watched
      <4>1. SUFFICES ASSUME w \notin watched PROVE FALSE
        OBVIOUS
      <4>2. PICK j \in Queue : Drops(j) /\ EventAt(loc, j) = f
        BY <1>2, <3>1, <4>1, DeadDropped, TakeFacts
      <4>3. IsPrefix(f, f)
        BY <2>4, PrefixOf
      <4> QED
        BY <2>5, <4>2, <4>3 DEF Cleared
    <3>3. w # Root
      <4>1. loc[Root] = <<>> /\ Len(<<>>) = 0
        BY DeadDropped, TakeFacts
      <4>2. f # <<>>
        BY <2>4, <4>1
      <4> HIDE DEF f, w
      <4> QED
        BY <3>1, <4>1, <4>2
    <3>4. backup[f] = "dir" /\ ~Cleared(loc, f)
      <4>1. ~DueBefore(loc, f, 1)
        BY DEF DueBefore, Queue
      <4> QED
        BY <1>2, <1>3, <3>1, <3>2, <3>3, <4>1 DEF Settling, DirsFirst
    <3>5. backup'[f] = "dir"
      BY <1>11, <2>4, <3>4
    <3> QED
      BY <1>7, <1>13, <2>3, <3>5
  <2> QED
    BY <2>7, <2>8, <2>9
<1>14. ASSUME NEW p \in Path, Source(p) # "none"
       PROVE  \/ backup'[p] = Source(p) /\ ~Cleared(loc, p)'
              \/ Due(loc, p)' /\ (Compatible(backup'[p], Source(p)) \/ Cleared(loc, p)')
  <2>1. CASE backup[p] = Source(p) /\ ~Cleared(loc, p)
    BY <1>11, <1>14, <2>1
  <2>2. CASE Due(loc, p)'
    <3>1. Compatible(backup[p], Source(p)) \/ Cleared(loc, p)
      BY <1>3, <1>5, <1>14 DEF Settling, ThereDue
    <3>2. Cleared(loc, p) => Cleared(loc, p)' \/ backup'[p] = "none"
      BY <1>4, <1>7
    <3>3. backup'[p] \in {backup[p], Source(p), "none"}
      BY <1>7, <1>8
    <3> QED
      BY <1>5, <2>2, <3>1, <3>2, <3>3
  <2>3. CASE Copies(1) /\ IsPrefix(e, p) /\ ~Cleared(loc, p)'
    <3>1. backup'[p] = Source(p)
      BY <1>12, <1>13, <1>14, <2>3, PathCases
    <3> QED
      BY <2>3, <3>1
  <2> QED
    BY <1>3, <1>4, <1>14, <2>1, <2>2, <2>3 DEF Settling, ThereDue
<1>15. ASSUME NEW i \in Queue', OfEntry(i)', events'[i].wd \in watched \ {Root},
              NEW f, f = loc[events'[i].wd]
       PROVE  (backup'[f] = "dir" /\ ~Cleared(loc, f)') \/ DueBefore(loc, f, i)'
  <2>1. i \in Nat /\ i + 1 \in Queue /\ events'[i] = events[i + 1] /\ OfEntry(i + 1)
    BY <1>2, <1>15, QueueTail
  <2>2. f \in Path /\ Len(f) = 1 /\ Source(f) = "dir"
    BY <1>1, <1>3, <1>15, <2>1, WatchedDir
  <2>3. \/ backup[f] = "dir" /\ ~Cleared(loc, f)
        \/ DueBefore(loc, f, i + 1)
    BY <1>3, <1>15, <2>1 DEF Settling, DirsFirst
  <2>4. CASE backup[f] = "dir" /\ ~Cleared(loc, f)
    BY <1>11, <2>2, <2>4
  <2>6. CASE Copies(1) /\ IsPrefix(e, f) /\ ~Cleared(loc, f)'
    <3>1. backup'[f] = "dir"
      BY <1>12, <2>2, <2>6
    <3> QED
      BY <2>6, <3>1
  <2> QED
    BY <1>4, <2>1, <2>3, <2>4, <2>6
<1>16. GoneCleared(loc)' /\ ThereDue(loc)'
  BY <1>2, <1>10, <1>14 DEF GoneCleared, ThereDue
<1>17. DirsFirst(loc)'
  BY <1>2, <1>15 DEF DirsFirst
<1> QED
  BY <1>16, <1>17 DEF Settling

-----------------------------------------------------------------------------
(* The first event is handled: what is watched, and what is expected.      *)

LEMMA ChildPath ==
  ASSUME Geography, NEW n, Live(n)
  PROVE  /\ PathOf(n) = Append(PathOf(at[n][1]), at[n][2])
         /\ at[n][1] = Root \/ (Live(at[n][1]) /\ at[n][1] \in DirNode)
<1>1. at[n][2] \in Name
  BY DEF Geography, LiveFacts
<1>2. CASE at[n] = <<Root, at[n][2]>> /\ PathOf(n) = <<at[n][2]>>
  <2>1. at[n][1] = Root /\ PathOf(Root) = <<>>
    BY <1>2 DEF PathOf
  <2>2. \A x \in Name : Append(<<>>, x) = <<x>>
    OBVIOUS
  <2> QED
    BY <1>1, <1>2, <2>1, <2>2
<1>3. CASE LET d == at[n][1] IN
           /\ at[n] = <<d, at[n][2]>> /\ PathOf(n) = <<at[d][2], at[n][2]>>
           /\ d \in DirNode /\ d # n /\ Live(d) /\ at[d] = <<Root, at[d][2]>> /\ at[d][2] \in Name
  <2> DEFINE d == at[n][1]
  <2>1. PathOf(n) = <<at[d][2], at[n][2]>> /\ d \in DirNode /\ Live(d) /\ at[d][1] = Root
        /\ at[d][2] \in Name
    BY <1>3
  <2>2. PathOf(d) = <<at[d][2]>>
    BY <2>1, Nodes DEF PathOf, Live
  <2> HIDE DEF d
  <2>3. Append(<<at[d][2]>>, at[n][2]) = <<at[d][2], at[n][2]>>
    BY <1>1, <2>1, AppendPair
  <2> QED
    BY <2>1, <2>2, <2>3 DEF d
<1> QED
  BY <1>2, <1>3 DEF Geography, LiveFacts

LEMMA SelfPrefix == \A p \in Path : IsPrefix(p, p)
BY PrefixOf

LEMMA TakeExpects ==
  ASSUME MirrorIInv, Trees, NEW loc \in Locations, Follows(loc), NEW M, Take(M),
         Handled(backup, backup', loc),
         Copies(1) /\ Source(EventAt(loc, 1)) = "dir" => pc' = "watch" /\ target' = EventAt(loc, 1)
  PROVE  DirsExpected(loc)' /\ BelowUnwatched(loc)'
<1> DEFINE e == EventAt(loc, 1)
<1>1. Geography
  BY GeographyHolds DEF MirrorIInv
<1>2. /\ events # <<>> /\ events' = Tail(events) /\ events \in Seq(SoundEvent)
      /\ 1 \in Queue /\ watched' = watched /\ at' = at /\ pc = "read"
      /\ \A n : (Live(n)' <=> Live(n)) /\ PathOf(n)' = PathOf(n)
  BY TakeFacts
<1>3. /\ Watching(loc) /\ EventsWatched(loc) /\ DirsExpected(loc) /\ BelowUnwatched(loc)
      /\ Root \in watched /\ loc[Root] = <<>>
  BY <1>2, DeadDropped DEF Follows
<1>4. \A d : InTarget(d)' <=> pc' = "watch" /\ IsPrefix(target', PathOf(d))
  BY <1>2 DEF InTarget
<1>5. \A d : ~InTarget(d)
  BY <1>2 DEF InTarget
<1>6. ASSUME NEW d \in DirNode, Live(d), d \notin watched, Awaited(loc, d)
      PROVE  Awaited(loc, d)' \/ (pc' = "watch" /\ target' = PathOf(d))
  <2>1. PICK i \in Queue :
           /\ Copies(i) /\ events[i].wd = at[d][1] /\ events[i].name = at[d][2]
           /\ \A j \in Queue : j > i /\ Drops(j) => ~IsPrefix(EventAt(loc, j), PathOf(d))
    BY <1>6 DEF Awaited
  <2>2. CASE i = 1
    <3>1. at[d][1] = Root \/ (Live(at[d][1]) /\ at[d][1] \in DirNode)
      BY <1>1, <1>6, ChildPath
    <3>2. at[d][1] \in watched
      <4>1. at[d][1] # Root => at[at[d][1]] # Nowhere
        BY <3>1 DEF Live
      <4> QED
        BY <1>3, <2>1, <4>1 DEF EventsWatched, OfEntry
    <3>3. loc[at[d][1]] = PathOf(at[d][1])
      BY <1>3, <3>2 DEF Watching
    <3>4. e = PathOf(d)
      BY <1>1, <1>6, <2>1, <2>2, <3>3, ChildPath DEF EventAt
    <3>5. Source(PathOf(d)) = "dir"
      BY <1>1, <1>6 DEF Geography, SourceFacts, Kind
    <3> QED
      BY <2>1, <2>2, <3>4, <3>5
  <2>3. CASE i # 1
    <3>1. i - 1 \in Queue' /\ (i - 1) + 1 = i /\ i \in Nat
      BY <1>2, <2>3, QueueTail
    <3>2. Copies(i - 1)' /\ events'[i - 1] = events[i]
      BY <1>2, <2>1, <3>1, QueueTail
    <3>3. ASSUME NEW j \in Queue', j > i - 1, Drops(j)'
          PROVE  ~IsPrefix(EventAt(loc, j), PathOf(d))'
      <4>1. j \in Nat /\ j + 1 \in Queue /\ Drops(j + 1) /\ EventAt(loc, j)' = EventAt(loc, j + 1)
        BY <1>2, <3>3, QueueTail
      <4>2. j + 1 > i
        BY <3>1, <3>3, <4>1
      <4> QED
        BY <1>2, <2>1, <4>1, <4>2
    <3> QED
      BY <1>2, <2>1, <3>1, <3>2, <3>3 DEF Awaited
  <2> QED
    BY <2>2, <2>3
<1>7. ASSUME NEW d \in DirNode, Live(d), d \notin watched
      PROVE  \/ InTarget(d)' \/ Awaited(loc, d)'
             \/ at[d][1] # Root /\ at[d][1] \notin watched /\ Awaited(loc, at[d][1])'
  <2>1. PathOf(d) \in Path
    BY <1>1, <1>7 DEF Geography, SourceFacts
  <2>2. CASE Awaited(loc, d)
    BY <1>4, <1>6, <1>7, <2>1, <2>2, SelfPrefix
  <2>3. CASE at[d][1] # Root /\ at[d][1] \notin watched /\ Awaited(loc, at[d][1])
    <3>1. Live(at[d][1]) /\ at[d][1] \in DirNode /\ IsPrefix(PathOf(at[d][1]), PathOf(d))
      BY <1>1, <1>7, <2>3 DEF Geography, BelowFacts
    <3> QED
      BY <1>2, <1>4, <1>6, <2>3, <3>1
  <2> QED
    BY <1>3, <1>5, <1>7, <2>2, <2>3 DEF DirsExpected
<1>8. DirsExpected(loc)'
  BY <1>2, <1>7 DEF DirsExpected
<1>9. ASSUME NEW d \in DirNode, Live(d), d \notin watched, ~InTarget(d)',
             NEW p \in Path, Len(p) = 2, Front(p) = PathOf(d), backup'[p] # "none"
      PROVE  Cleared(loc, p)'
  <2>1. Cleared(loc, p) <=> (Drops(1) /\ IsPrefix(e, p)) \/ Cleared(loc, p)'
    BY <1>2, PromisesTail
  <2>2. CASE backup[p] # "none"
    <3>1. Cleared(loc, p)
      BY <1>3, <1>5, <1>9, <2>2 DEF BelowUnwatched
    <3>2. Drops(1) => ~IsPrefix(e, p)
      BY <1>9, MasksApart DEF Handled, OfEntry, remove_recursive
    <3> QED
      BY <2>1, <3>1, <3>2
  <2>3. CASE backup[p] = "none"
    <3>1. Copies(1) /\ IsPrefix(e, p)
      BY <1>9, <2>3 DEF Handled, Refreshed, remove_recursive
    <3>2. e \in Path /\ events[1].wd \in Dir /\ OfEntry(1)
          /\ (Len(e) = 2 => Front(e) = loc[events[1].wd])
      <4>1. OfEntry(1)
        BY <3>1 DEF OfEntry
      <4>2. /\ events[1].wd \in Dir /\ e \in Path
            /\ Len(e) = 1 \/ Front(e) = loc[events[1].wd]
        BY <1>2, <1>3, <4>1, EventFacts
      <4> QED
        BY <4>1, <4>2
    <3>3. Source(PathOf(d)) = "dir" /\ PathOf(d) \in Path /\ Len(PathOf(d)) = 1
      BY <1>1, <1>9, ParentPath DEF Geography, SourceFacts, Kind
    <3>4. e # PathOf(d)
      BY <1>4, <1>9, <3>1, <3>3, SelfPrefix
    <3>5. e = p /\ loc[events[1].wd] = PathOf(d)
      BY <1>9, <3>1, <3>2, <3>4, PrefixOf
    <3>6. events[1].wd # Root
      <4>1. Len(<<>>) = 0
        OBVIOUS
      <4>2. PathOf(d) # <<>>
        BY <3>3, <4>1
      <4> QED
        BY <1>3, <3>5, <4>2
    <3>7. events[1].wd \notin watched
      <4> SUFFICES ASSUME events[1].wd \in watched PROVE FALSE
        OBVIOUS
      <4>1. Live(events[1].wd) /\ PathOf(events[1].wd) = PathOf(d)
        BY <1>1, <1>2, <1>3, <3>2, <3>5, <3>6, WatchedDir
      <4>2. events[1].wd = d
        BY <1>1, <1>9, <4>1 DEF Geography, Unique
      <4> QED
        BY <1>9, <4>2
    <3>8. PICK j \in Queue : Drops(j) /\ EventAt(loc, j) = PathOf(d)
      BY <1>2, <3>2, <3>5, <3>7, DeadDropped
    <3>9. IsPrefix(PathOf(d), p)
      BY <1>9, <3>3, PrefixOf
    <3>10. Cleared(loc, p)
      BY <3>8, <3>9 DEF Cleared
    <3> QED
      BY <2>1, <3>1, <3>10, MasksApart
  <2> QED
    BY <2>2, <2>3
<1>10. BelowUnwatched(loc)'
  BY <1>2, <1>9 DEF BelowUnwatched
<1> QED
  BY <1>8, <1>10

\* The map finds the path of the event at the head.
LEMMA HeadPath ==
  ASSUME MirrorIInv, NEW loc \in Locations, Follows(loc), events # <<>>, 1 \in Queue,
         Head(events) = events[1], OfEntry(1)
  PROVE  /\ Known(Head(events).wd) /\ EventPath = EventAt(loc, 1)
         /\ EventAt(loc, 1) \in Path
<1> DEFINE w == events[1].wd
<1>1. MapResolves(loc) /\ RenamesFirst /\ EventsWatched(loc) /\ map \in Seq(Entry)
  BY DEF Follows, MirrorIInv
<1>2. w \in Named
  BY DEF Named
<1>3. Known(w) /\ \A i \in Indices(w) : Resolved(loc, map[i].path) = loc[w]
  BY <1>1, <1>2 DEF MapResolves
<1>4. Moving => events[1].mask \in {"moved_from", "moved_to"}
  BY <1>1 DEF Moving, RenamesFirst
<1>5. \A i \in Indices(w) : map[i].path = loc[w]
  <2>1. ASSUME NEW i \in Indices(w) PROVE map[i].path = loc[w]
    <3>1. Moving => ~IsPrefix(Old(loc), map[i].path)
      BY <1>1, <1>4, <2>1 DEF MapResolves
    <3>2. Resolved(loc, map[i].path) = map[i].path
      BY <3>1 DEF Resolved
    <3> QED
      BY <1>3, <2>1, <3>2
  <2> QED
    BY <2>1
<1>6. FirstIndex(w) \in Indices(w)
  <2>1. FirstIndex(w) \in 1..Len(map) /\ map[FirstIndex(w)].wd = w
    BY <1>1, <1>3, FirstFound
  <2> QED
    BY <2>1 DEF Indices
<1>7. find_watch(w) = loc[w]
  BY <1>5, <1>6 DEF find_watch
<1>8. EventPath = EventAt(loc, 1)
  BY <1>7 DEF EventPath, EventAt
<1> QED
  BY <1>1, <1>3, <1>8, EventFacts

\* What becomes of a rename.
RenameTaken(loc) ==
    \/ /\ events[1].mask = "moved_from" /\ pc' = "read"
       /\ pending' = <<events[1].cookie, EventAt(loc, 1)>>
    \/ events[1].mask = "moved_to" /\ pending' = NoCookie
    \/ events[1].mask \notin {"moved_from", "moved_to"} /\ pending' = pending

LEMMA TakeRenames ==
  ASSUME MirrorIInv, NEW loc \in Locations, RenamesFirst, NEW M, Take(M), RenameTaken(loc)
  PROVE  /\ RenamesFirst'
         /\ Moving' <=> events[1].mask = "moved_from"
         /\ Moving' => Moving /\ Old(loc)' = Old(loc) /\ New(loc)' = New(loc)
         /\ events[1].mask \notin {"moved_from", "moved_to"} => ~Moving /\ pending = NoCookie
         /\ events[1].mask = "moved_to" =>
              /\ Moving <=> pending # NoCookie
              /\ pending # NoCookie => pending[1] = events[1].cookie
<1>1. /\ events # <<>> /\ 1 \in Queue /\ pc = "read" /\ Len(events') + 1 = Len(events)
      /\ Len(events) \in Nat /\ Len(events') \in Nat
  BY TakeFacts
<1>2. \A k \in Queue' : /\ k \in Nat /\ k # 0 /\ k + 1 \in Queue /\ events'[k] = events[k + 1]
                        /\ EventAt(loc, k)' = EventAt(loc, k + 1)
  BY TakeFacts, QueueTail DEF Queue
<1>3. \A k \in Queue' : events'[k].mask # "moved_from"
  BY <1>2 DEF RenamesFirst
<1>4. \A k \in Queue' : events'[k].mask = "moved_to" => k = 1 /\ events[1].mask = "moved_from"
  <2>1. ASSUME NEW k \in Queue', events'[k].mask = "moved_to"
        PROVE  k = 1 /\ events[1].mask = "moved_from"
    <3>1. k + 1 = 1 \/ (k + 1 = 2 /\ events[1].mask = "moved_from")
      BY <1>2, <2>1 DEF RenamesFirst
    <3> QED
      BY <1>2, <3>1
  <2> QED
    BY <2>1
<1>5. CASE events[1].mask = "moved_from"
  <2>1. /\ pc' = "read" /\ pending' = <<events[1].cookie, EventAt(loc, 1)>>
        /\ pending = NoCookie /\ Len(events) > 1 /\ events[2].mask = "moved_to"
        /\ events[2].cookie = events[1].cookie
    BY <1>1, <1>5 DEF RenameTaken, RenamesFirst
  <2>2. pending' # NoCookie /\ pending'[1] = events[1].cookie /\ pending'[2] = EventAt(loc, 1)
    BY <2>1 DEF NoCookie
  <2>3. 1 \in Queue' /\ events'[1] = events[2] /\ EventAt(loc, 1)' = EventAt(loc, 2)
    <3>1. 1 \in Queue'
      BY <1>1, <2>1 DEF Queue
    <3> QED
      BY <1>2, <3>1
  <2>4. events' # <<>>
    <3>1. Len(<<>>) = 0
      OBVIOUS
    <3> QED
      BY <1>1, <2>1, <3>1
  <2>5. RenamesFirst'
    BY <1>3, <1>4, <2>1, <2>2, <2>3, <2>4 DEF RenamesFirst
  <2>6. Moving' /\ Moving
    BY <1>1, <1>5, <2>2 DEF Moving
  <2>7. Old(loc)' = Old(loc)
    BY <2>1, <2>2 DEF Old
  <2>8. New(loc)' = New(loc)
    BY <2>1, <2>2, <2>3 DEF New
  <2> QED
    BY <1>5, <2>5, <2>6, <2>7, <2>8
<1>6. CASE events[1].mask # "moved_from"
  <2>1. \A k \in Queue' : events'[k].mask \notin {"moved_from", "moved_to"}
    BY <1>3, <1>4, <1>6
  <2>2. events[1].mask # "moved_to" => pending = NoCookie
    BY DEF RenamesFirst
  <2>3. pending' = NoCookie
    BY <1>6, <2>2 DEF RenameTaken
  <2>4. RenamesFirst'
    BY <2>1, <2>3 DEF RenamesFirst
  <2>5. ~Moving'
    <3>1. ASSUME events' # <<>> PROVE 1 \in Queue'
      <4>1. events' \in Seq(SoundEvent)
        BY InvParts, TakeFacts, HeadTailProperties
      <4>2. Len(events') # 0
        BY <3>1, <4>1, EmptySeq
      <4> QED
        BY <1>1, <4>2 DEF Queue
    <3> QED
      BY <2>1, <2>3, <3>1 DEF Moving
  <2>6. events[1].mask = "moved_to" /\ pending # NoCookie => pending[1] = events[1].cookie
    BY DEF RenamesFirst
  <2> QED
    BY <1>6, <2>2, <2>4, <2>5, <2>6 DEF Moving
<1> QED
  BY <1>5, <1>6

\* The map keeps what it holds, but for entries nobody needs, and the paths that
\* a rename was to change.
LEMMA TakeMap ==
  ASSUME MirrorIInv, NEW loc \in Locations, MapResolves(loc), NEW M, Take(M),
         \A w \in Named' : Known(w)',
         \A i \in 1..Len(map') : \E k \in 1..Len(map) :
            /\ map'[i].wd = map[k].wd
            /\ Resolved(loc, map[i].path)' = Resolved(loc, map[k].path),
         Moving' => Moving /\ map' = map /\ Old(loc)' = Old(loc)
  PROVE  MapResolves(loc)'
<1>1. UNCHANGED <<at, watched>>
  BY TakeFacts
<1>2. \A k \in Queue' : k + 1 \in Queue /\ events'[k] = events[k + 1] /\ (OfEntry(k)' <=> OfEntry(k + 1))
  BY TakeFacts, QueueTail
<1>3. \A w \in Named' : w \in Named
  BY <1>1, <1>2 DEF Named
<1>4. ASSUME NEW w \in Named', NEW i \in Indices(w)'
      PROVE  Resolved(loc, map[i].path)' = loc[w]
  <2>1. i \in 1..Len(map') /\ map'[i].wd = w
    BY <1>4 DEF Indices
  <2>2. PICK k \in 1..Len(map) : /\ map[k].wd = w
                                 /\ Resolved(loc, map[i].path)' = Resolved(loc, map[k].path)
    BY <2>1
  <2>3. k \in Indices(w)
    BY <2>2 DEF Indices
  <2> QED
    BY <1>3, <2>2, <2>3 DEF MapResolves
<1>5. ASSUME NEW k \in Queue', Moving', events'[k].mask \in {"moved_from", "moved_to"},
             NEW i \in 1..Len(map'), map'[i].wd = events'[k].wd
      PROVE  ~IsPrefix(Old(loc), map[i].path)'
  <2>1. Moving /\ map' = map /\ Old(loc)' = Old(loc)
    BY <1>5
  <2>2. k + 1 \in Queue /\ events'[k] = events[k + 1]
    BY <1>2
  <2>3. i \in Indices(events[k + 1].wd)
    BY <1>5, <2>1, <2>2 DEF Indices
  <2>4. ~IsPrefix(Old(loc), map[i].path)
    BY <1>5, <2>1, <2>2, <2>3 DEF MapResolves
  <2> QED
    BY <2>1, <2>4
<1>6. ASSUME NEW n \in Node, at[n] # Nowhere, n \notin watched PROVE ~Known(n)'
  <2>1. \A i \in 1..Len(map') : \E k \in 1..Len(map) : map'[i].wd = map[k].wd
    OBVIOUS
  <2>2. ~Known(n)
    BY <1>6 DEF MapResolves
  <2> QED
    BY <2>1, <2>2 DEF Known, Indices
<1>7. \A w \in Named' : Known(w)' /\ \A i \in Indices(w)' : Resolved(loc, map[i].path)' = loc[w]
  BY <1>4
<1>8. \A k \in Queue' : Moving' /\ events'[k].mask \in {"moved_from", "moved_to"} =>
         \A i \in Indices(events[k].wd)' : ~IsPrefix(Old(loc), map[i].path)'
  BY <1>5 DEF Indices
<1> QED
  BY <1>1, <1>6, <1>7, <1>8 DEF MapResolves

LEMMA TakeQueue ==
  ASSUME MirrorIInv, NEW loc \in Locations, Follows(loc), NEW M, Take(M)
  PROVE  EventsWatched(loc)' /\ SelfLast'
<1>1. UNCHANGED <<at, watched>>
  BY TakeFacts
<1>2. /\ \A k \in Queue' : /\ k \in Nat /\ k + 1 \in Queue /\ events'[k] = events[k + 1]
                           /\ OfEntry(k)' <=> OfEntry(k + 1)
      /\ \A k \in Queue : k \in Nat /\ (k = 1 \/ (k - 1 \in Queue' /\ (k - 1) + 1 = k))
  BY TakeFacts, QueueTail
<1>3. EventsWatched(loc) /\ SelfLast
  BY DEF Follows
<1>4. ASSUME NEW i \in Queue', OfEntry(i)'
      PROVE  LET w == events'[i].wd IN
             /\ w \in Dir /\ Len(loc[w]) <= 1
             /\ \/ w \in watched
                \/ /\ at[w] = Nowhere
                   /\ \E j \in Queue' : /\ j > i /\ events'[j].mask = "delete" /\ events'[j].wd = Root
                                        /\ loc[w] = <<events'[j].name>>
  <2> DEFINE w == events'[i].wd
  <2>1. i + 1 \in Queue /\ OfEntry(i + 1) /\ w = events[i + 1].wd /\ i \in Nat
    BY <1>2, <1>4
  <2> HIDE DEF w
  <2>2. /\ w \in Dir /\ Len(loc[w]) <= 1
        /\ \/ w \in watched
           \/ /\ at[w] = Nowhere
              /\ \E j \in Queue : /\ j > i + 1 /\ events[j].mask = "delete" /\ events[j].wd = Root
                                  /\ loc[w] = <<events[j].name>>
    BY <1>3, <2>1 DEF EventsWatched
  <2>3. ASSUME NEW j \in Queue, j > i + 1
        PROVE  j - 1 \in Queue' /\ j - 1 > i /\ events'[j - 1] = events[j]
    BY <1>2, <2>1, <2>3
  <2> QED
    BY <2>2, <2>3 DEF w
<1>5. EventsWatched(loc)'
  BY <1>1, <1>4 DEF EventsWatched
<1>6. SelfLast'
  <2>1. ASSUME NEW i \in Queue', NEW j \in Queue', i < j, ~OfEntry(i)', OfEntry(j)'
        PROVE  events'[i].wd # events'[j].wd
    <3>1. i + 1 < j + 1
      BY <1>2, <2>1
    <3> QED
      BY <1>2, <1>3, <2>1, <3>1 DEF SelfLast
  <2> QED
    BY <2>1 DEF SelfLast
<1> QED
  BY <1>5, <1>6

-----------------------------------------------------------------------------
(* The child's steps that handle an event.                                 *)

LEMMA TakeFollows ==
  ASSUME MirrorIInv, Trees, NEW loc \in Locations, Follows(loc), NEW M, Take(M),
         Handled(backup, backup', loc), RenameTaken(loc),
         \/ pc' = "read"
         \/ pc' = "watch" /\ target' \in Path /\ Source(target') = "dir",
         Copies(1) /\ Source(EventAt(loc, 1)) = "dir" => pc' = "watch" /\ target' = EventAt(loc, 1),
         \A w \in Named' : Known(w)',
         \A i \in 1..Len(map') : \E k \in 1..Len(map) :
            /\ map'[i].wd = map[k].wd
            /\ Resolved(loc, map[i].path)' = Resolved(loc, map[k].path),
         Moving' => map' = map
  PROVE  Follows(loc)'
<1>1. Settling(loc)'
  BY TakeSettles
<1>2. DirsExpected(loc)' /\ BelowUnwatched(loc)'
  BY TakeExpects
<1>3. EventsWatched(loc)' /\ SelfLast'
  BY TakeQueue
<1>4. RenamesFirst' /\ (Moving' => Moving /\ Old(loc)' = Old(loc))
  BY TakeRenames DEF Follows
<1>5. MapResolves(loc)'
  BY <1>4, TakeMap DEF Follows
<1>6. Watching(loc)'
  <2>1. /\ pc = "read" /\ UNCHANGED watched /\ \A p : Source(p)' = Source(p)
        /\ \A n : (Live(n)' <=> Live(n)) /\ PathOf(n)' = PathOf(n)
    BY TakeFacts
  <2>2. /\ watched \subseteq Dir /\ Root \in watched
        /\ \A n \in watched : loc[n] = PathOf(n) /\ (n # Root => Live(n))
    BY <2>1 DEF Follows, Watching
  <2>3. \A p \in Path : p # <<>>
    BY PathCases, EmptySeq
  <2>4. pc' = "watch" => target' # <<>> /\ Source(target)' = "dir"
    BY <2>1, <2>3
  <2> QED
    BY <2>1, <2>2, <2>4 DEF Watching
<1> QED
  BY <1>1, <1>2, <1>3, <1>4, <1>5, <1>6 DEF Follows

LEMMA NamedTail ==
  ASSUME MirrorIInv, NEW M, Take(M)
  PROVE  \A w \in Named' : \/ w \in watched
                           \/ \E k \in Queue : k > 1 /\ OfEntry(k) /\ events[k].wd = w
<1>1. UNCHANGED watched
  BY TakeFacts
<1>2. \A k \in Queue' : /\ k + 1 \in Queue /\ events'[k] = events[k + 1] /\ k \in Nat
                        /\ OfEntry(k)' <=> OfEntry(k + 1)
  BY TakeFacts, QueueTail
<1>3. \A k \in Queue' : k + 1 > 1
  BY <1>2 DEF Queue
<1> QED
  BY <1>1, <1>2, <1>3 DEF Named

LEMMA WatchGoneFollows ==
  ASSUME MirrorIInv, Trees, NEW loc \in Locations, Follows(loc), WatchGone
  PROVE  Follows(loc)'
<1> DEFINE wd == events[1].wd
<1>1. /\ Take({"delete_self", "ignored"}) /\ backup' = backup /\ pending' = pending
      /\ \/ Head(events).wd = Root
         \/ map' = remove_from_map(Head(events).wd) /\ pc' = pc
  BY DEF WatchGone
<1>2. /\ pc = "read" /\ 1 \in Queue /\ events[1].mask \in {"delete_self", "ignored"}
      /\ Head(events) = events[1]
  BY <1>1, TakeFacts
<1>3. ~OfEntry(1) /\ ~Copies(1)
  BY <1>2 DEF OfEntry, Copies, Drops
<1>4. wd \notin watched /\ Root \in watched
  BY <1>2, <1>3, EventFacts, DeadDropped DEF Follows
<1>5. map' = remove_from_map(wd) /\ pc' = "read"
  BY <1>1, <1>2, <1>4
<1>6. map \in Seq(Entry)
  BY DEF MirrorIInv
<1> HIDE DEF wd
<1>7. /\ \A i \in 1..Len(map) : map[i].wd # wd => \E j \in 1..Len(map') : map'[j].wd = map[i].wd
      /\ \A j \in 1..Len(map') : \E i \in 1..Len(map) : map'[j] = map[i]
  BY <1>5, <1>6, EntryRemoved
<1>8. Handled(backup, backup', loc) /\ RenameTaken(loc)
  BY <1>1, <1>2, <1>3 DEF Handled, RenameTaken
<1>9. ~Moving /\ ~Moving'
  BY <1>1, <1>2, <1>8, TakeRenames DEF Follows
<1>10. \A i \in 1..Len(map') : \E k \in 1..Len(map) :
          /\ map'[i].wd = map[k].wd
          /\ Resolved(loc, map[i].path)' = Resolved(loc, map[k].path)
  BY <1>7, <1>9 DEF Resolved
<1>11. ASSUME NEW w \in Named' PROVE Known(w)'
  <2>1. w # wd /\ w \in Named
    <3>1. \/ w \in watched
          \/ \E k \in Queue : k > 1 /\ OfEntry(k) /\ events[k].wd = w
      BY <1>1, NamedTail
    <3> QED
      BY <1>2, <1>3, <1>4, <3>1 DEF Follows, SelfLast, Named, wd
  <2>2. Known(w)
    BY <2>1 DEF Follows, MapResolves
  <2>3. \E j \in 1..Len(map') : map'[j].wd = w
    BY <1>7, <2>1, <2>2 DEF Known, Indices
  <2> QED
    BY <2>3 DEF Known, Indices
<1> QED
  BY <1>1, <1>3, <1>5, <1>8, <1>9, <1>10, <1>11, TakeFollows

\* Named inodes stay known while the map keeps its descriptors.
LEMMA NamedKnown ==
  ASSUME MirrorIInv, NEW loc \in Locations, Follows(loc), NEW M, Take(M),
         Len(map') = Len(map), \A i \in 1..Len(map) : map'[i].wd = map[i].wd
  PROVE  \A w \in Named' : Known(w)'
<1>1. ASSUME NEW w \in Named' PROVE Known(w)'
  <2>1. w \in Named
    BY <1>1, NamedTail DEF Named
  <2>2. Known(w)
    BY <2>1 DEF Follows, MapResolves
  <2> QED
    BY <2>2 DEF Known, Indices
<1> QED
  BY <1>1

LEMMA IgnoreEventFollows ==
  ASSUME MirrorIInv, NEW loc \in Locations, Follows(loc), IgnoreEvent
  PROVE  FALSE
<1>1. /\ Take({"create", "modify", "delete", "moved_from", "moved_to"})
      /\ ~Known(Head(events).wd)
  BY DEF IgnoreEvent
<1>2. /\ events # <<>> /\ 1 \in Queue /\ Head(events) = events[1]
      /\ events[1].mask \in {"create", "modify", "delete", "moved_from", "moved_to"}
  BY <1>1, TakeFacts
<1>3. OfEntry(1)
  BY <1>2 DEF OfEntry, Copies, Drops
<1> QED
  BY <1>1, <1>2, <1>3, HeadPath

LEMMA RemoveEntryFollows ==
  ASSUME MirrorIInv, Trees, NEW loc \in Locations, Follows(loc), RemoveEntry
  PROVE  Follows(loc)'
<1>1. /\ Take({"delete", "moved_from"}) /\ backup' = remove_recursive(backup, EventPath)
      /\ pending' = IF Head(events).mask = "moved_from"
                    THEN <<Head(events).cookie, EventPath>> ELSE pending
      /\ pc' = pc /\ map' = map
  BY DEF RemoveEntry
<1>2. /\ pc = "read" /\ events # <<>> /\ 1 \in Queue /\ Head(events) = events[1]
      /\ events[1].mask \in {"delete", "moved_from"}
  BY <1>1, TakeFacts
<1>3. Drops(1) /\ OfEntry(1) /\ ~Copies(1)
  BY <1>2 DEF OfEntry, Copies, Drops
<1>4. EventPath = EventAt(loc, 1)
  BY <1>2, <1>3, HeadPath
<1>5. Handled(backup, backup', loc) /\ RenameTaken(loc)
  BY <1>1, <1>2, <1>3, <1>4 DEF Handled, RenameTaken
<1>6. \/ Moving /\ Moving' /\ Old(loc)' = Old(loc) /\ New(loc)' = New(loc)
      \/ ~Moving /\ ~Moving'
  BY <1>1, <1>2, <1>5, TakeRenames DEF Follows
<1>7. \A i \in 1..Len(map') : \E k \in 1..Len(map) :
         /\ map'[i].wd = map[k].wd
         /\ Resolved(loc, map[i].path)' = Resolved(loc, map[k].path)
  BY <1>1, <1>6 DEF Resolved
<1>8. \A w \in Named' : Known(w)'
  BY <1>1, NamedKnown
<1> QED
  BY <1>1, <1>2, <1>3, <1>5, <1>7, <1>8, TakeFollows

LEMMA CopyNowRefreshes ==
  ASSUME MirrorIInv, Trees, NEW e \in Path, CopyNow(e)
  PROVE  /\ Refreshed(backup, backup', e)
         /\ IF Source(e) = "dir" THEN pc' = "watch" /\ target' = e ELSE pc' = pc
<1>1. TypeOK /\ backup \in [Path -> Content] /\ Geography
  BY GeographyHolds DEF MirrorIInv, TypeOK
<1>2. CASE Source(e) = "none"
  <2>1. backup' = backup
    BY <1>2 DEF CopyNow
  <2>2. ASSUME NEW p \in Path, IsPrefix(e, p) PROVE Source(p) = "none"
    BY <1>1, <1>2, <2>2, PrefixOf DEF Geography, BelowFacts
  <2> QED
    BY <1>2, <2>1, <2>2 DEF CopyNow, Refreshed
<1>3. CASE Source(e) # "none"
  <2>1. backup' = copy_recursive(backup, e)
    BY <1>3 DEF CopyNow
  <2>2. Refreshed(backup, backup', e)
    BY <1>1, <2>1, CopyEffect DEF Refreshed
  <2> QED
    BY <2>2 DEF CopyNow
<1> QED
  BY <1>2, <1>3

LEMMA CopyEntryNowFollows ==
  ASSUME MirrorIInv, Trees, NEW loc \in Locations, Follows(loc), CopyEntryNow
  PROVE  Follows(loc)'
<1>1. /\ Take({"create", "modify"}) /\ CopyNow(EventPath) /\ map' = map /\ pending' = pending
  BY DEF CopyEntryNow
<1>2. /\ pc = "read" /\ events # <<>> /\ 1 \in Queue /\ Head(events) = events[1]
      /\ events[1].mask \in {"create", "modify"}
  BY <1>1, TakeFacts
<1>3. Copies(1) /\ OfEntry(1)
  BY <1>2 DEF OfEntry, Copies
<1>4. EventPath = EventAt(loc, 1) /\ EventAt(loc, 1) \in Path
  BY <1>2, <1>3, HeadPath
<1>5. /\ Refreshed(backup, backup', EventAt(loc, 1))
      /\ IF Source(EventAt(loc, 1)) = "dir" THEN pc' = "watch" /\ target' = EventAt(loc, 1) ELSE pc' = pc
  BY <1>1, <1>4, CopyNowRefreshes
<1>6. Handled(backup, backup', loc) /\ RenameTaken(loc)
  BY <1>1, <1>2, <1>3, <1>5 DEF Handled, RenameTaken
<1>7. ~Moving /\ ~Moving'
  BY <1>1, <1>2, <1>6, TakeRenames DEF Follows
<1>8. \A i \in 1..Len(map') : \E k \in 1..Len(map) :
         /\ map'[i].wd = map[k].wd
         /\ Resolved(loc, map[i].path)' = Resolved(loc, map[k].path)
  BY <1>1, <1>7 DEF Resolved
<1>9. \A w \in Named' : Known(w)'
  BY <1>1, NamedKnown
<1> QED
  BY <1>1, <1>2, <1>4, <1>5, <1>6, <1>8, <1>9, TakeFollows

LEMMA MovedToFollows ==
  ASSUME MirrorIInv, Trees, NEW loc \in Locations, Follows(loc), MovedTo
  PROVE  Follows(loc)'
<1>1. /\ Take({"moved_to"}) /\ CopyNow(EventPath)
      /\ IF pending # NoCookie /\ pending[1] = Head(events).cookie
         THEN map' = update_watch_paths(pending[2], EventPath) /\ pending' = NoCookie
         ELSE map' = map /\ pending' = pending
  BY DEF MovedTo
<1>2. /\ pc = "read" /\ events # <<>> /\ 1 \in Queue /\ Head(events) = events[1]
      /\ events[1].mask = "moved_to"
  BY <1>1, TakeFacts
<1>3. Copies(1) /\ OfEntry(1)
  BY <1>2 DEF OfEntry, Copies
<1>4. EventPath = EventAt(loc, 1) /\ EventAt(loc, 1) \in Path
  BY <1>2, <1>3, HeadPath
<1>5. /\ Refreshed(backup, backup', EventAt(loc, 1))
      /\ IF Source(EventAt(loc, 1)) = "dir" THEN pc' = "watch" /\ target' = EventAt(loc, 1) ELSE pc' = pc
  BY <1>1, <1>4, CopyNowRefreshes
<1>6. /\ pending # NoCookie => pending[1] = events[1].cookie
      /\ pending' = NoCookie
  BY <1>1, <1>2 DEF Follows, RenamesFirst
<1>7. Handled(backup, backup', loc) /\ RenameTaken(loc)
  BY <1>2, <1>3, <1>5, <1>6 DEF Handled, RenameTaken
<1>8. (Moving <=> pending # NoCookie) /\ ~Moving'
  BY <1>1, <1>2, <1>7, TakeRenames DEF Follows
<1>9. \A q : Resolved(loc, q)' = q
  BY <1>8 DEF Resolved
<1>10. /\ Len(map') = Len(map)
       /\ \A i \in 1..Len(map) : map'[i].wd = map[i].wd /\ map'[i].path = Resolved(loc, map[i].path)
  <2>1. CASE pending = NoCookie
    BY <1>1, <1>8, <2>1 DEF Resolved
  <2>2. CASE pending # NoCookie
    <3>1. map' = update_watch_paths(pending[2], EventAt(loc, 1))
      BY <1>1, <1>2, <1>4, <1>6, <2>2
    <3>2. Old(loc) = pending[2] /\ New(loc) = EventAt(loc, 1) /\ Moving
      BY <1>8, <2>2 DEF Old, New
    <3>3. map \in Seq(Entry) /\ pending[2] \in Seq(Name) /\ EventAt(loc, 1) \in Seq(Name)
      BY <1>4, <2>2, PathSeq DEF MirrorIInv, PendingTyped
    <3>4. Len(map') = Len(map) /\ \A i \in 1..Len(map) : map'[i].wd = map[i].wd
      BY <3>1, <3>3, PathsUpdated
    <3>5. ASSUME NEW i \in 1..Len(map) PROVE map'[i].path = Resolved(loc, map[i].path)
      <4>1. map'[i] = IF IsPrefix(pending[2], map[i].path)
                      THEN [map[i] EXCEPT !.path = EventAt(loc, 1)
                               \o SubSeq(map[i].path, Len(pending[2]) + 1, Len(map[i].path))]
                      ELSE map[i]
        BY <3>1 DEF update_watch_paths
      <4>2. map[i] \in Entry
        BY <3>3, EntryTyped
      <4>3. \A q : [map[i] EXCEPT !.path = q].path = q
        BY <4>2 DEF Entry
      <4> QED
        BY <3>2, <4>1, <4>3 DEF Resolved
    <3> QED
      BY <3>4, <3>5
  <2> QED
    BY <2>1, <2>2
<1>11. \A i \in 1..Len(map') : \E k \in 1..Len(map) :
          /\ map'[i].wd = map[k].wd
          /\ Resolved(loc, map[i].path)' = Resolved(loc, map[k].path)
  BY <1>9, <1>10
<1>12. \A w \in Named' : Known(w)'
  BY <1>1, <1>10, NamedKnown
<1> QED
  BY <1>1, <1>2, <1>4, <1>5, <1>7, <1>8, <1>11, <1>12, TakeFollows

-----------------------------------------------------------------------------
(* The first copy, and the watches.                                        *)

\* add_watch_recursive meets the directories of the source at or below p.
LEMMA VisitedDirs ==
  ASSUME MirrorIInv, Trees, NEW p \in Path \cup {<<>>}, p = <<>> \/ Source(p) = "dir"
  PROVE  /\ \A n \in Visited(p) : (n = Root /\ p = <<>>) \/ (n \in DirNode /\ Live(n))
         /\ \A d \in DirNode : Live(d) /\ IsPrefix(p, PathOf(d)) => d \in Visited(p)
         /\ \A d \in DirNode : Live(d) /\ at[d][1] # Root /\ at[d][1] \in Visited(p) => d \in Visited(p)
         /\ p = <<>> => Root \in Visited(p)
<1> DEFINE first == IF p = <<>> THEN {Root} ELSE At(p)
           below(D) == UNION {Under(d) \cap DirNode : d \in D}
           one == below(first \cap Dir)
           two == below(one)
<1>1. Visited(p) = first \cup one \cup two
  BY DEF Visited
<1>2. Geography /\ TypeOK
  BY GeographyHolds DEF MirrorIInv
<1>3. \A n : n \in one <=> \E d \in first \cap Dir : n \in DirNode /\ n \in Node /\ at[n] # Nowhere /\ at[n][1] = d
  BY DEF Under
<1>4. \A n : n \in two <=> \E d \in one : n \in DirNode /\ n \in Node /\ at[n] # Nowhere /\ at[n][1] = d
  BY DEF Under
<1> HIDE DEF one, two
<1>5. CASE p = <<>>
  <2>1. first = {Root} /\ first \cap Dir = {Root}
    BY <1>5 DEF Dir
  <2>2. \A n \in one : n \in DirNode /\ Live(n) /\ at[n][1] = Root
    BY <1>3, <2>1 DEF Live
  <2>3. \A n \in two : n \in DirNode /\ Live(n)
    BY <1>4, <2>2, Nodes DEF Live
  <2>4. \A d \in DirNode : Live(d) => d \in one \cup two
    BY <1>3, <1>4, <2>1, Nodes DEF Live
  <2> QED
    BY <1>1, <1>5, <2>1, <2>2, <2>3, <2>4
<1>6. CASE p # <<>>
  <2>1. p \in Path /\ Source(p) = "dir"
    BY <1>6
  <2>2. PICK n : Live(n) /\ PathOf(n) = p
    BY <1>2, <2>1 DEF Geography, SourceFacts
  <2>3. n \in DirNode
    <3>1. Kind(n) = "dir"
      BY <1>2, <2>1, <2>2 DEF Geography, SourceFacts
    <3>2. n \notin DirNode => data[n] \in Version
      BY <1>2, <2>2, Nodes DEF Live, TypeOK
    <3> QED
      BY <3>1, <3>2 DEF Kind, Version
  <2>4. At(p) = {n}
    BY <1>2, <2>1, <2>2 DEF Geography, AtFacts, Unique
  <2>5. first = {n} /\ first \cap Dir = {n}
    BY <1>6, <2>3, <2>4 DEF Dir
  <2>6. \A m \in one : m \in DirNode /\ m \in Node /\ at[m] # Nowhere /\ at[m][1] = n
    BY <1>3, <2>5
  <2>7. \A m \in one : at[n][1] = Root
    BY <2>2, <2>3, <2>6, Nodes, MirrorAssumption DEF Trees, Holds, Live
  <2>8. \A m \in one : Live(m)
    BY <2>2, <2>3, <2>6, <2>7 DEF Live
  <2>9. two = {}
    <3> SUFFICES ASSUME NEW m \in two PROVE FALSE
      OBVIOUS
    <3>1. PICK d \in one : m \in Node /\ at[m] # Nowhere /\ at[m][1] = d
      BY <1>4
    <3>2. Holds(d) /\ d \in DirNode /\ at[d][1] = n
      BY <2>6, <3>1 DEF Trees
    <3> QED
      BY <2>3, <3>2, Nodes, MirrorAssumption DEF Holds
  <2>10. \A d \in DirNode : Live(d) /\ at[d][1] = n => d \in one
    BY <1>3, <2>5 DEF Live
  <2>11. \A d : Live(d) /\ IsPrefix(p, PathOf(d)) => d = n \/ at[d][1] = n
    BY <1>2, <2>2 DEF Geography, BelowFacts
  <2>12. \A d : Live(d) /\ at[d][1] # Root => at[d][1] \notin one
    BY <2>3, <2>6, Nodes DEF Live
  <2> QED
    BY <1>1, <1>6, <2>2, <2>3, <2>5, <2>8, <2>6, <2>9, <2>10, <2>11, <2>12
<1> QED
  BY <1>5, <1>6

LEMMA LivePath ==
  ASSUME MirrorIInv, Trees, NEW n, n = Root \/ Live(n)
  PROVE  PathOf(n) \in Seq(Name)
<1>1. CASE n = Root
  BY <1>1 DEF PathOf
<1>2. CASE Live(n)
  <2>1. Geography
    BY GeographyHolds DEF MirrorIInv
  <2> QED
    BY <1>2, <2>1, PathSeq DEF Geography, SourceFacts
<1> QED
  BY <1>1, <1>2

LEMMA SamePromises ==
  ASSUME NEW loc, NEW loc2, events' = events,
         \A i \in Queue : OfEntry(i) => loc2[events[i].wd] = loc[events[i].wd]
  PROVE  /\ Queue' = Queue
         /\ \A i : /\ Copies(i)' <=> Copies(i)
                   /\ Drops(i)' <=> Drops(i)
                   /\ OfEntry(i)' <=> OfEntry(i)
         /\ \A i \in Queue : OfEntry(i) => EventAt(loc2, i)' = EventAt(loc, i)
         /\ \A p : (Cleared(loc2, p)' <=> Cleared(loc, p)) /\ (Due(loc2, p)' <=> Due(loc, p))
         /\ \A p, i : DueBefore(loc2, p, i)' <=> DueBefore(loc, p, i)
<1>1. Queue' = Queue
  BY DEF Queue
<1>2. \A i : (Copies(i)' <=> Copies(i)) /\ (Drops(i)' <=> Drops(i))
  BY DEF Copies, Drops
<1>3. \A i : OfEntry(i)' <=> OfEntry(i)
  BY <1>2 DEF OfEntry
<1>4. \A i \in Queue : OfEntry(i) => EventAt(loc2, i)' = EventAt(loc, i)
  BY DEF EventAt
<1>5. \A p : Cleared(loc2, p)' <=> Cleared(loc, p)
  BY <1>1, <1>2, <1>4 DEF Cleared, OfEntry
<1>6. \A p, i : DueBefore(loc2, p, i)' <=> DueBefore(loc, p, i)
  BY <1>1, <1>2, <1>4 DEF DueBefore, OfEntry
<1>7. \A p : Due(loc2, p)' <=> Due(loc, p)
  BY <1>6 DEF Due
<1> QED
  BY <1>1, <1>2, <1>3, <1>4, <1>5, <1>6, <1>7

LEMMA AddWatchesFollows ==
  ASSUME MirrorIInv, MirrorIInv', Trees, NEW loc \in Locations, Follows(loc), AddWatches, ~tooMany'
  PROVE  \E loc2 \in Locations : Follows(loc2)'
<1>1. /\ pc = "watch" /\ pc' = "read" /\ target' = <<>> /\ add_watch_recursive(target)
      /\ UNCHANGED <<at, data, rootExists, events, backup, pending>>
  BY DEF AddWatches, userVars
<1>2. /\ Settling(loc) /\ MapResolves(loc) /\ RenamesFirst /\ Watching(loc)
      /\ EventsWatched(loc) /\ SelfLast /\ DirsExpected(loc) /\ BelowUnwatched(loc)
  BY DEF Follows
<1>3. TypeOK /\ map \in Seq(Entry) /\ tooMany \in BOOLEAN /\ target \in Path \cup {<<>>}
  BY DEF MirrorIInv, TypeOK
<1>4. /\ watched' = watched \cup Visited(target)
      /\ \A i \in 1..Len(map) : \E j \in 1..Len(map') : map'[j].wd = map[i].wd
      /\ \A i \in 1..Len(map') :
            \/ \E j \in 1..Len(map) : map'[i] = map[j]
            \/ \E n \in Visited(target) : map'[i].wd = n /\ map'[i].path = PathOf(n)
  BY <1>1, <1>3, WatchesAdded
<1>5. target = <<>> \/ Source(target) = "dir"
  BY <1>1, <1>2 DEF Watching
<1>6. /\ \A n \in Visited(target) : (n = Root /\ target = <<>>) \/ (n \in DirNode /\ Live(n))
      /\ \A d \in DirNode : Live(d) /\ IsPrefix(target, PathOf(d)) => d \in Visited(target)
      /\ \A d \in DirNode : Live(d) /\ at[d][1] # Root /\ at[d][1] \in Visited(target) => d \in Visited(target)
      /\ target = <<>> => Root \in Visited(target)
  BY <1>3, <1>5, VisitedDirs
<1>7. /\ \A p : Source(p)' = Source(p)
      /\ \A n : (Live(n)' <=> Live(n)) /\ PathOf(n)' = PathOf(n)
  BY <1>1, SameSource
<1>8. \A w \in watched' : w \in Dir /\ (w # Root => Live(w))
  BY <1>2, <1>4, <1>6 DEF Watching, Dir
<1>9. PICK loc2 \in Locations :
        \A w \in Node \cup {Root} : loc2[w] = IF w \in watched' THEN PathOf(w) ELSE loc[w]
  <2> DEFINE l == [w \in Node \cup {Root} |-> IF w \in watched' THEN PathOf(w) ELSE loc[w]]
  <2>1. \A w \in Node \cup {Root} : (IF w \in watched' THEN PathOf(w) ELSE loc[w]) \in Seq(Name)
    BY <1>8, LivePath DEF Locations
  <2>2. l \in Locations
    BY <2>1 DEF Locations
  <2>3. \A w \in Node \cup {Root} : l[w] = IF w \in watched' THEN PathOf(w) ELSE loc[w]
    OBVIOUS
  <2> HIDE DEF l
  <2> QED
    BY <2>2, <2>3
<1>10. \A w \in watched' : loc2[w] = PathOf(w)
  BY <1>8, <1>9, Nodes DEF Dir
<1>11. \A w \in watched : w \in watched' /\ loc2[w] = loc[w]
  BY <1>2, <1>4, <1>10 DEF Watching
<1>12. ASSUME NEW i \in Queue
       PROVE  /\ target # <<>> /\ Root \in watched
              /\ OfEntry(i) => /\ events[i].wd \in Dir /\ loc2[events[i].wd] = loc[events[i].wd]
                               /\ events[i].wd \in watched' => events[i].wd \in watched
  <2>1. events # <<>>
    BY DEF Queue
  <2>2. target # <<>> /\ Root \in watched
    BY <1>1, <1>2, <2>1 DEF Watching
  <2>3. ASSUME OfEntry(i), events[i].wd \notin watched
        PROVE  events[i].wd \in Dir /\ events[i].wd \notin watched'
    <3>1. events[i].wd \in Dir /\ at[events[i].wd] = Nowhere
      BY <1>2, <2>3 DEF EventsWatched
    <3>2. events[i].wd # Root
      BY <2>2, <2>3
    <3> QED
      BY <1>8, <3>1, <3>2 DEF Live
  <2>4. OfEntry(i) => events[i].wd \in Dir
    BY <1>2 DEF EventsWatched
  <2> QED
    BY <1>9, <1>11, <2>2, <2>3, <2>4, Nodes DEF Dir
<1>13. /\ Queue' = Queue
       /\ \A i : /\ Copies(i)' <=> Copies(i)
                 /\ Drops(i)' <=> Drops(i)
                 /\ OfEntry(i)' <=> OfEntry(i)
       /\ \A i \in Queue : OfEntry(i) => EventAt(loc2, i)' = EventAt(loc, i)
       /\ \A p : (Cleared(loc2, p)' <=> Cleared(loc, p)) /\ (Due(loc2, p)' <=> Due(loc, p))
       /\ \A p, i : DueBefore(loc2, p, i)' <=> DueBefore(loc, p, i)
  BY <1>1, <1>12, SamePromises
<1>14. Settling(loc2)'
  <2>1. GoneCleared(loc2)' /\ ThereDue(loc2)'
    BY <1>1, <1>2, <1>7, <1>13 DEF Settling, GoneCleared, ThereDue
  <2>2. DirsFirst(loc2)'
    <3>1. ASSUME NEW i \in Queue, OfEntry(i), events[i].wd \in watched' \ {Root},
                 NEW f, f = loc2[events[i].wd]
          PROVE  (backup[f] = "dir" /\ ~Cleared(loc2, f)') \/ DueBefore(loc2, f, i)'
      <4>1. events[i].wd \in watched \ {Root} /\ f = loc[events[i].wd]
        BY <1>12, <3>1
      <4> QED
        BY <1>2, <1>13, <3>1, <4>1 DEF Settling, DirsFirst
    <3> QED
      BY <1>1, <1>13, <3>1 DEF DirsFirst
  <2> QED
    BY <2>1, <2>2 DEF Settling
<1>15. ~Moving /\ ~Moving'
  <2>1. pending = NoCookie /\ \A k \in Queue : events[k].mask # "moved_from"
    BY <1>1, <1>2 DEF RenamesFirst
  <2>2. events # <<>> => 1 \in Queue
    <3>1. events \in Seq(SoundEvent)
      BY InvParts
    <3>2. events # <<>> => Len(events) \in Nat \ {0}
      BY <3>1, EmptySeq
    <3> QED
      BY <3>2 DEF Queue
  <2> QED
    BY <1>1, <2>1, <2>2 DEF Moving
<1>16. MapResolves(loc2)'
  <2>1. ASSUME NEW w \in Named', NEW i \in 1..Len(map'), map'[i].wd = w
        PROVE  map'[i].path = loc2[w]
    <3>1. CASE \E n \in Visited(target) : map'[i].wd = n /\ map'[i].path = PathOf(n)
      BY <1>4, <1>10, <2>1, <3>1
    <3>2. ASSUME NEW k \in 1..Len(map), map'[i] = map[k]
          PROVE  map'[i].path = loc2[w]
      <4>1. k \in Indices(w) /\ Known(w)
        BY <2>1, <3>2 DEF Indices, Known
      <4>2. CASE w \in Named
        <5>1. map[k].path = loc[w]
          BY <1>2, <1>15, <4>1, <4>2 DEF MapResolves, Resolved
        <5>2. loc2[w] = loc[w]
          BY <1>11, <1>12, <4>2 DEF Named
        <5> QED
          BY <3>2, <5>1, <5>2
      <4>3. CASE w \notin Named
        <5>1. w \in Visited(target) /\ w \notin watched
          BY <1>1, <1>4, <1>13, <2>1, <4>3 DEF Named
        <5>2. map # <<>>
          BY <3>2
        <5>3. target # <<>>
          BY <1>1, <1>2, <5>2 DEF Watching
        <5>4. w \in Node /\ at[w] # Nowhere
          BY <1>6, <5>1, <5>3 DEF Live
        <5> QED
          BY <1>2, <4>1, <5>1, <5>4 DEF MapResolves
      <4> QED
        BY <4>2, <4>3
    <3> QED
      BY <1>4, <3>1, <3>2
  <2>2. ASSUME NEW w \in Named' PROVE Known(w)'
    <3>1. CASE w \in watched'
      BY <3>1 DEF MirrorIInv, EveryWatchKnown
    <3>2. CASE w \notin watched'
      <4>1. w \in Named
        BY <1>1, <1>4, <1>13, <2>2, <3>2 DEF Named
      <4>2. Known(w)
        BY <1>2, <4>1 DEF MapResolves
      <4>3. \E j \in 1..Len(map') : map'[j].wd = w
        BY <1>4, <4>2 DEF Known, Indices
      <4> QED
        BY <4>3 DEF Known, Indices
    <3> QED
      BY <3>1, <3>2
  <2>3. ASSUME NEW n \in Node, at[n] # Nowhere, n \notin watched' PROVE ~Known(n)'
    <3>1. ~Known(n)
      BY <1>2, <1>4, <2>3 DEF MapResolves
    <3>2. \A i \in 1..Len(map') : map'[i].wd # n
      BY <1>4, <2>3, <3>1 DEF Known, Indices
    <3> QED
      BY <3>2 DEF Known, Indices
  <2>4. \A w \in Named' : Known(w)' /\ \A i \in Indices(w)' : Resolved(loc2, map[i].path)' = loc2[w]
    BY <1>15, <2>1, <2>2 DEF Resolved, Indices
  <2> QED
    BY <1>1, <1>15, <2>3, <2>4 DEF MapResolves
<1>17. RenamesFirst' /\ SelfLast'
  <2>1. RenamesFirst'
    BY <1>1, <1>2, <1>13 DEF RenamesFirst
  <2>2. SelfLast'
    BY <1>1, <1>2, <1>13 DEF SelfLast
  <2> QED
    BY <2>1, <2>2
<1>18. Watching(loc2)'
  <2>1. Root \in watched'
    BY <1>1, <1>2, <1>4, <1>6 DEF Watching
  <2> QED
    BY <1>1, <1>7, <1>8, <1>10, <2>1 DEF Watching
<1>19. EventsWatched(loc2)'
  <2>1. ASSUME NEW i \in Queue, OfEntry(i), NEW w, w = events[i].wd
        PROVE  /\ w \in Dir /\ Len(loc2[w]) <= 1
               /\ \/ w \in watched'
                  \/ /\ at[w] = Nowhere
                     /\ \E j \in Queue : /\ j > i /\ events[j].mask = "delete" /\ events[j].wd = Root
                                         /\ loc2[w] = <<events[j].name>>
    <3>1. loc2[w] = loc[w]
      BY <1>12, <2>1
    <3> QED
      BY <1>2, <1>11, <2>1, <3>1 DEF EventsWatched
  <2> QED
    BY <1>1, <1>13, <2>1 DEF EventsWatched
<1>20. \A d : Awaited(loc2, d)' <=> Awaited(loc, d)
  BY <1>1, <1>7, <1>13 DEF Awaited, OfEntry
<1>21. DirsExpected(loc2)'
  <2>1. ASSUME NEW d \in DirNode, Live(d), d \notin watched'
        PROVE  \/ Awaited(loc2, d)'
               \/ at[d][1] # Root /\ at[d][1] \notin watched' /\ Awaited(loc, at[d][1])
    <3>1. d \notin watched /\ ~InTarget(d)
      BY <1>4, <1>6, <2>1 DEF InTarget
    <3>2. at[d][1] # Root /\ at[d][1] \notin watched => at[d][1] \notin watched'
      BY <1>4, <1>6, <2>1
    <3> QED
      BY <1>2, <1>20, <2>1, <3>1, <3>2 DEF DirsExpected
  <2> QED
    BY <1>1, <1>7, <1>20, <2>1 DEF DirsExpected
<1>22. BelowUnwatched(loc2)'
  <2>1. ASSUME NEW d \in DirNode, Live(d), d \notin watched'
        PROVE  d \notin watched /\ ~InTarget(d)
    BY <1>4, <1>6, <2>1 DEF InTarget
  <2> QED
    BY <1>1, <1>2, <1>7, <1>13, <2>1 DEF BelowUnwatched
<1> QED
  BY <1>14, <1>16, <1>17, <1>18, <1>19, <1>21, <1>22 DEF Follows

LEMMA CopySourceFollows ==
  ASSUME MirrorIInv, Trees, Blank, CopySource
  PROVE  \E loc \in Locations : Follows(loc)'
<1>1. /\ pc = "copy" /\ pc' = "watch" /\ backup' = copy_recursive(backup, <<>>)
      /\ UNCHANGED <<at, data, watched, events, target, map, pending>>
      /\ watched = {} /\ events = <<>> /\ target = <<>> /\ map = <<>> /\ pending = NoCookie
      /\ backup = [p \in Path |-> "none"]
  BY DEF CopySource, Blank, userVars
<1>2. TypeOK /\ backup \in [Path -> Content] /\ Geography
  BY GeographyHolds DEF MirrorIInv, TypeOK
<1>3. /\ \A p : Source(p)' = Source(p)
      /\ \A n : (Live(n)' <=> Live(n)) /\ PathOf(n)' = PathOf(n)
  BY <1>1, SameSource
<1>4. ASSUME NEW p \in Path
      PROVE  /\ Source(p) = "none" => backup'[p] = "none"
             /\ IsPrefix(<<>>, p) /\ (Len(p) = 1 \/ backup'[Front(p)] = "dir")
                  => backup'[p] = Source(p)
  <2>1. /\ Source(p) = "none" => backup'[p] = backup[p]
        /\ IsPrefix(<<>>, p) /\ Source(p) # "none" /\ Compatible(backup[p], Source(p))
           /\ (Len(p) = 1 \/ backup'[Front(p)] = "dir") => backup'[p] = Source(p)
    BY <1>1, <1>2, CopyEffect
  <2>2. backup[p] = "none"
    BY <1>1
  <2>3. Compatible(backup[p], Source(p))
    BY <2>2 DEF Compatible
  <2> QED
    BY <2>1, <2>2, <2>3
<1>5. ASSUME NEW p \in Path PROVE backup'[p] = Source(p)
  <2>1. CASE Source(p) = "none"
    BY <1>4, <2>1
  <2>2. CASE Source(p) # "none" /\ Len(p) = 1
    BY <1>4, <2>2, PrefixRoot
  <2>3. CASE Source(p) # "none" /\ Len(p) = 2
    <3>1. Front(p) \in Path /\ Len(Front(p)) = 1 /\ Source(Front(p)) = "dir"
      BY <1>2, <2>3, ParentPath DEF Geography, BelowFacts
    <3>2. backup'[Front(p)] = "dir"
      BY <1>4, <3>1, PrefixRoot
    <3> QED
      BY <1>4, <3>2, PrefixRoot
  <2> QED
    BY <2>1, <2>2, <2>3, PathCases
<1>6. PICK loc \in Locations : TRUE
  <2>1. [w \in Node \cup {Root} |-> <<>>] \in Locations
    BY EmptySeq DEF Locations
  <2> QED
    BY <2>1
<1>7. Queue' = {} /\ events' = <<>>
  <2>1. Len(<<>>) = 0 /\ 1..0 = {}
    OBVIOUS
  <2> QED
    BY <1>1, <2>1 DEF Queue
<1>8. Settling(loc)'
  <2>1. \A p : ~Cleared(loc, p)'
    BY <1>7 DEF Cleared
  <2>2. GoneCleared(loc)' /\ ThereDue(loc)'
    BY <1>3, <1>5, <2>1 DEF GoneCleared, ThereDue
  <2>3. DirsFirst(loc)'
    BY <1>7 DEF DirsFirst
  <2> QED
    BY <2>2, <2>3 DEF Settling
<1>9. Indices(0)' = {} /\ Len(map') = 0
  BY <1>1 DEF Indices
<1>10. MapResolves(loc)'
  <2>1. Named' = {}
    BY <1>1, <1>7 DEF Named
  <2>2. \A n : ~Known(n)'
    BY <1>9 DEF Known, Indices
  <2> QED
    BY <1>7, <2>1, <2>2 DEF MapResolves
<1>11. RenamesFirst' /\ SelfLast' /\ EventsWatched(loc)'
  BY <1>1, <1>7 DEF RenamesFirst, SelfLast, EventsWatched
<1>12. Watching(loc)'
  BY <1>1 DEF Watching
<1>13. \A d : Live(d) => InTarget(d)'
  <2>1. \A d : Live(d) => PathOf(d) \in Path
    BY <1>2 DEF Geography, SourceFacts
  <2> QED
    BY <1>1, <1>3, <2>1, PrefixRoot DEF InTarget
<1>14. DirsExpected(loc)' /\ BelowUnwatched(loc)'
  BY <1>3, <1>13 DEF DirsExpected, BelowUnwatched
<1> QED
  BY <1>8, <1>10, <1>11, <1>12, <1>14 DEF Follows

-----------------------------------------------------------------------------
(* The user keeps the tree a tree.                                         *)

LEMMA HoldsNext ==
  ASSUME NEW d, d \in DirNode => at'[d] = at[d] \/ (at'[d] # Nowhere /\ at'[d][1] \in {Root, Outside}),
         Holds(d)
  PROVE  Holds(d)'
BY DEF Holds

\* n comes to <<d, x>>, and what was there before goes.
LEMMA PlacedTrees ==
  ASSUME at \in [Node -> Place], Trees, NEW n \in Node, NEW d, NEW x \in Name,
         d \in Dir \cup {Outside}, Holds(d), d # n, d \in DirNode => Under(n) = {},
         at' \in [Node -> Place], at'[n] = <<d, x>>,
         \A m \in Node : m # n => at'[m] = IF at[m] = <<d, x>> THEN Nowhere ELSE at[m],
         \A m \in Node : at[m] = <<d, x>> => Under(m) = {}
  PROVE  Trees'
<1>1. <<d, x>> # Nowhere /\ at'[n] # Nowhere /\ at'[n][1] = d
  BY Nodes
<1>2. ASSUME NEW m \in Node, at'[m] # Nowhere, NEW c, c = at'[m][1] PROVE Holds(c)'
  <2>1. Holds(c)
    BY <1>1, <1>2 DEF Trees
  <2>2. ASSUME c \in DirNode PROVE at'[c] = at[c] \/ (at'[c] # Nowhere /\ at'[c][1] \in {Root, Outside})
    <3>1. c \in Node
      BY <2>2, Nodes
    <3>2. CASE c = n
      <4>1. m # n /\ at[m] # Nowhere /\ at[m][1] = n
        BY <1>1, <1>2, <3>2
      <4>2. Under(n) # {}
        BY <4>1 DEF Under
      <4>3. d \in {Root, Outside}
        BY <4>2 DEF Dir
      <4> QED
        BY <1>1, <3>2, <4>3
    <3>3. CASE c # n /\ at[c] = <<d, x>>
      <4>1. CASE m = n
        <5>1. c = d
          BY <1>1, <1>2, <4>1
        <5>2. Holds(d) /\ d \in DirNode /\ at[d][1] \in {Root, Outside} /\ at[d][1] = d
          BY <2>2, <3>3, <5>1, Nodes, MirrorAssumption DEF Holds
        <5> QED
          BY <5>2, <2>2, <3>3, <5>1, Nodes, MirrorAssumption
      <4>2. CASE m # n
        <5>1. at[m] # Nowhere /\ at[m][1] = c
          BY <1>2, <4>2
        <5> QED
          BY <3>1, <3>3, <5>1 DEF Under
      <4> QED
        BY <4>1, <4>2
    <3> QED
      BY <3>1, <3>2, <3>3
  <2> QED
    BY <2>1, <2>2, HoldsNext
<1>3. ASSUME NEW c \in DirNode, at'[c] # Nowhere PROVE at'[c][1] # c
  BY <1>1, <1>3, Nodes DEF Trees
<1>4. ASSUME NEW m \in Node, NEW k \in Node, at'[m] = at'[k], at'[m] # Nowhere PROVE m = k
  BY <1>1, <1>4 DEF Trees
<1> QED
  BY <1>2, <1>3, <1>4 DEF Trees

LEMMA GoneTrees ==
  ASSUME at \in [Node -> Place], Trees, NEW n \in Node, Under(n) = {},
         \A m \in Node : at'[m] = IF m = n THEN Nowhere ELSE at[m]
  PROVE  Trees'
<1>1. ASSUME NEW m \in Node, at'[m] # Nowhere, NEW c, c = at'[m][1] PROVE Holds(c)'
  <2>1. at'[m] = at[m] /\ at[m] # Nowhere /\ m # n
    BY <1>1
  <2>2. c # n /\ Holds(c)
    BY <1>1, <2>1 DEF Under, Trees
  <2>3. c \in DirNode => at'[c] = at[c]
    BY <2>2, Nodes
  <2> QED
    BY <2>2, <2>3, HoldsNext
<1>2. ASSUME NEW c \in DirNode, at'[c] # Nowhere PROVE at'[c][1] # c
  BY <1>2, Nodes DEF Trees
<1>3. ASSUME NEW m \in Node, NEW k \in Node, at'[m] = at'[k], at'[m] # Nowhere PROVE m = k
  BY <1>3 DEF Trees
<1> QED
  BY <1>1, <1>2, <1>3 DEF Trees

LEMMA NothingUnder ==
  ASSUME Trees, NEW n \in Node, at[n] = Nowhere \/ n \notin DirNode
  PROVE  Under(n) = {}
<1> SUFFICES ASSUME NEW m \in Under(n) PROVE FALSE
  OBVIOUS
<1>1. m \in Node /\ at[m] # Nowhere /\ Holds(n)
  BY DEF Under, Trees
<1> QED
  BY <1>1, Nodes, MirrorAssumption DEF Holds

LEMMA UserTrees ==
  ASSUME MirrorIInv, Trees, UserStep
  PROVE  Trees'
<1>1. at \in [Node -> Place] /\ at' \in [Node -> Place]
  <2>1. MirrorIInv'
    BY UserStepKeeps
  <2>2. MirrorIInv => at \in [Node -> Place]
    BY InvParts
  <2>3. MirrorIInv' => at' \in [Node -> Place]
    BY DEF MirrorIInv, TypeOK, Place
  <2> QED
    BY <2>1, <2>2, <2>3
<1>2. ASSUME NEW n \in Node, NEW d \in Dir \cup {Outside}, NEW x \in Name, Create(n, d, x)
      PROVE  Trees'
  <2>1. at[n] = Nowhere /\ Holds(d) /\ Free(d, x) /\ at' = [at EXCEPT ![n] = <<d, x>>]
    BY <1>2 DEF Create, Fresh
  <2>2. Under(n) = {} /\ d # n
    BY <2>1, NothingUnder, Nodes, MirrorAssumption DEF Holds
  <2>3. /\ at'[n] = <<d, x>> /\ \A m \in Node : at[m] # <<d, x>>
        /\ \A m \in Node : m # n => at'[m] = at[m]
    BY <1>1, <2>1 DEF Free
  <2> QED
    BY <1>1, <2>1, <2>2, <2>3, PlacedTrees
<1>3. ASSUME NEW n \in Node, NEW d \in Dir \cup {Outside}, NEW x \in Name, Move(n, d, x)
      PROVE  Trees'
  <2>1. /\ Fits(n, d) /\ Free(d, x) /\ at' = [at EXCEPT ![n] = <<d, x>>]
    BY <1>3 DEF Move
  <2>2. /\ at'[n] = <<d, x>> /\ \A m \in Node : at[m] # <<d, x>>
        /\ \A m \in Node : m # n => at'[m] = at[m]
    BY <1>1, <2>1 DEF Free
  <2>3. Holds(d) /\ d # n /\ (d \in DirNode => Under(n) = {})
    BY <2>1 DEF Fits
  <2> QED
    BY <1>1, <2>2, <2>3, PlacedTrees
<1>4. ASSUME NEW f \in FileNode, Write(f) PROVE Trees'
  BY <1>4 DEF Write, Trees, Holds
<1>5. ASSUME NEW n \in Node, Delete(n) PROVE Trees'
  <2>1. Under(n) = {} /\ \A m \in Node : at'[m] = IF m = n THEN Nowhere ELSE at[m]
    BY <1>1, <1>5 DEF Delete
  <2> QED
    BY <1>1, <2>1, GoneTrees
<1>6. CASE DeleteRoot
  BY <1>6 DEF DeleteRoot, Trees, Holds
<1>7. ASSUME NEW f \in FileNode, NEW g \in FileNode, Replace(f, g) PROVE Trees'
  <2>1. f # g /\ at[g] # Nowhere /\ at' = [at EXCEPT ![f] = at[g], ![g] = Nowhere]
        /\ f \in Node /\ g \in Node /\ f \notin DirNode /\ g \notin DirNode
    BY <1>7, Nodes, MirrorAssumption DEF Replace
  <2>2. PICK d \in Dir \cup {Outside}, x \in Name : at[g] = <<d, x>>
    BY <1>1, <2>1 DEF Place
  <2>3. /\ at'[f] = <<d, x>> /\ at'[g] = Nowhere
        /\ \A m \in Node : m # f /\ m # g => at'[m] = at[m]
    BY <1>1, <2>1, <2>2
  <2>4. \A m \in Node : at[m] = <<d, x>> => m = g
    BY <2>1, <2>2 DEF Trees
  <2>5. Under(f) = {} /\ Under(g) = {} /\ Holds(d)
    <3>1. at[g][1] = d
      BY <2>2
    <3>2. Holds(at[g][1])
      BY <2>1 DEF Trees
    <3> QED
      BY <3>1, <3>2, <2>1, NothingUnder
  <2>6. d # f
    BY <2>1, <2>5, MirrorAssumption, Nodes DEF Holds
  <2>7. \A m \in Node : m # f => at'[m] = IF at[m] = <<d, x>> THEN Nowhere ELSE at[m]
    BY <2>1, <2>2, <2>3, <2>4
  <2>8. \A m \in Node : at[m] = <<d, x>> => Under(m) = {}
    BY <2>4, <2>5
  <2> QED
    BY <1>1, <2>1, <2>3, <2>5, <2>6, <2>7, <2>8, PlacedTrees
<1> QED
  BY <1>2, <1>3, <1>4, <1>5, <1>6, <1>7 DEF UserStep

LEMMA ChildTrees ==
  ASSUME Trees, ChildStep
  PROVE  Trees'
<1>1. at' = at
  BY DEF ChildStep, CopySource, AddWatches, WatchGone, IgnoreEvent, RemoveEntry, CopyEntryNow,
     MovedTo, Take, userVars
<1> QED
  BY <1>1 DEF Trees, Holds

-----------------------------------------------------------------------------
(* What the user may do while the child catches up.                        *)

PatientUser == UserMay \subseteq PatientRenames

LEMMA Patience ==
  ASSUME MirrorIInv, PatientUser, NEW op, User(op)
  PROVE  /\ pc = "read" /\ rootExists
         /\ op \in {"create", "write", "delete"} \/ (op = "rename" /\ events = <<>>)
         /\ UNCHANGED <<backup, pc, target, map, pending, tooMany>>
         /\ tooMany => op # "rename"
<1>1. PICK ph : ph = Phase /\ <<ph, op>> \in ({"idle"} \X {"create", "write", "delete", "rename"})
                                      \cup ({"pending"} \X {"create", "write", "delete"})
  BY DEF PatientUser, User, PatientRenames
<1>2. pc \in {"copy", "watch", "read", "done"}
  BY DEF MirrorIInv, TypeOK
<1>3. \/ Phase = "idle" /\ op \in {"create", "write", "delete", "rename"}
      \/ Phase = "pending" /\ op \in {"create", "write", "delete"}
  <2>1. \/ <<ph, op>> \in {"idle"} \X {"create", "write", "delete", "rename"}
        \/ <<ph, op>> \in {"pending"} \X {"create", "write", "delete"}
    BY <1>1
  <2>2. CASE <<ph, op>> \in {"idle"} \X {"create", "write", "delete", "rename"}
    BY <1>1, <2>2
  <2>3. CASE <<ph, op>> \in {"pending"} \X {"create", "write", "delete"}
    BY <1>1, <2>3
  <2> QED
    BY <2>1, <2>2, <2>3
<1>4. pc = "read"
  BY <1>2, <1>3 DEF Phase
<1>5. Phase = "idle" => events = <<>>
  BY <1>4 DEF Phase
<1> QED
  BY <1>3, <1>4, <1>5 DEF User, monitorVars

-----------------------------------------------------------------------------
(* The user creates, writes or deletes n, the entry x of d.                *)

\* The queue grows by the entry's event, if d is watched, behind n's own last ones.
Reported(n, d, x, mask) ==
    /\ Len(events) \in Nat /\ Len(events') \in Nat /\ Len(events) <= Len(events')
    /\ \A i \in Queue : i \in Queue' /\ events'[i] = events[i]
    /\ \A i \in Queue' : i \notin Queue =>
          /\ i > Len(events)
          /\ \/ /\ d \in watched /\ i = Len(events')
                /\ events'[i].mask = mask /\ events'[i].wd = d /\ events'[i].name = x
             \/ events'[i].mask \in SelfMasks /\ events'[i].wd = n
    /\ d \in watched =>
          /\ Len(events') > Len(events)
          /\ events'[Len(events')].mask = mask /\ events'[Len(events')].wd = d
          /\ events'[Len(events')].name = x

Changed(n, d, x, mask) ==
    /\ n \in Node /\ d \in Dir /\ x \in Name /\ Under(n) = {} /\ n # d
    /\ d = Root \/ (Live(d) /\ d \in DirNode /\ at[d][1] = Root)
    /\ mask \in {"create", "modify", "delete"}
    /\ \A m \in Node : m # n => at'[m] = at[m]
    /\ mask = "create" => at[n] = Nowhere /\ Free(d, x) /\ Fresh(n)
    /\ mask # "create" => at[n] = <<d, x>>
    /\ mask = "delete" => at'[n] = Nowhere /\ watched' = watched \ {n}
    /\ mask # "delete" => at'[n] = <<d, x>> /\ watched' = watched
    /\ mask = "modify" => n \notin DirNode
    /\ \A f \in FileNode : f # n => data'[f] = data[f]
    /\ pc = "read" /\ UNCHANGED <<backup, pc, target, map, pending>>

\* The source changes at the path e of the entry, and nowhere else.
Repathed(n, d, mask, e) ==
    /\ e \in Path /\ (d = Root => Len(e) = 1)
    /\ d # Root => Len(e) = 2 /\ Front(e) = PathOf(d) /\ Len(PathOf(d)) = 1
    /\ \A m : m # n => (Live(m)' <=> Live(m))
    /\ \A m : m = Root \/ (Live(m) /\ m # n) => PathOf(m)' = PathOf(m)
    /\ mask # "create" => Live(n) /\ PathOf(n) = e
    /\ mask # "delete" => Live(n)' /\ PathOf(n)' = e
    /\ \A p : p # e => Source(p)' = Source(p)
    /\ mask = "create" => Source(e) = "none"
    /\ mask # "delete" => Source(e)' # "none"
    /\ mask = "modify" => Source(e) \notin {"none", "dir"} /\ Source(e)' # "dir"
    /\ mask = "delete" => Source(e)' = "none"

LEMMA ChangedPaths ==
  ASSUME MirrorIInv, MirrorIInv', Trees, Trees', NEW n, NEW d, NEW x, NEW mask,
         Changed(n, d, x, mask), NEW e, e = Append(PathOf(d), x)
  PROVE  Repathed(n, d, mask, e)
<1>0. /\ n \in Node /\ d \in Dir /\ x \in Name /\ Under(n) = {} /\ n # d
      /\ d = Root \/ (Live(d) /\ d \in DirNode /\ at[d][1] = Root)
      /\ mask \in {"create", "modify", "delete"}
      /\ \A m \in Node : m # n => at'[m] = at[m]
      /\ mask = "create" => at[n] = Nowhere /\ Free(d, x)
      /\ mask # "create" => at[n] = <<d, x>>
      /\ mask = "delete" => at'[n] = Nowhere
      /\ mask # "delete" => at'[n] = <<d, x>>
      /\ mask = "modify" => n \notin DirNode
      /\ \A f \in FileNode : f # n => data'[f] = data[f]
  BY DEF Changed
<1>1. Geography /\ Geography' /\ TypeOK'
  BY GeographyHolds, GeographyNext DEF MirrorIInv
<1>2. PathOf(d) \in Seq(Name) /\ n # Root
  BY <1>0, LivePath, Nodes
<1>3. <<d, x>> # Nowhere
  BY <1>0, Nodes
<1>4. ASSUME d = Root PROVE e = <<x>> /\ e \in Path /\ Len(e) = 1
  <2>1. \A y \in Name : Append(<<>>, y) = <<y>>
    OBVIOUS
  <2>2. PathOf(d) = <<>>
    BY <1>4 DEF PathOf
  <2>3. e = <<x>>
    BY <1>0, <2>1, <2>2
  <2> QED
    BY <1>0, <2>3 DEF Path
<1>5. ASSUME d # Root
      PROVE  /\ e \in Path /\ Len(e) = 2 /\ Front(e) = PathOf(d) /\ Len(PathOf(d)) = 1
             /\ e = <<at[d][2], x>> /\ PathOf(d) = <<at[d][2]>> /\ at[d][2] \in Name
             /\ Live(d) /\ d \in DirNode /\ at[d][1] = Root
  <2>1. Live(d) /\ d \in DirNode /\ at[d][1] = Root
    BY <1>0, <1>5
  <2>2. PathOf(d) = <<at[d][2]>> /\ at[d][2] \in Name
    BY <1>1, <1>5, <2>1 DEF PathOf, Geography, LiveFacts
  <2>3. e = <<at[d][2], x>>
    BY <1>0, <2>2, AppendPair
  <2>4. e \in Path /\ Len(e) = 2 /\ Front(e) = <<at[d][2]>>
    <3>1. PICK y \in Name : y = at[d][2]
      BY <2>2
    <3>2. <<y, x>> \in Path /\ Len(<<y, x>>) = 2 /\ Front(<<y, x>>) = <<y>>
      BY <1>0, SubPath
    <3> QED
      BY <2>3, <3>1, <3>2
  <2>5. Len(<<at[d][2]>>) = 1
    OBVIOUS
  <2> QED
    BY <2>1, <2>2, <2>3, <2>4, <2>5
<1>6. \A m \in Node : at[m] # Nowhere => at[m][1] # n
  BY <1>0 DEF Under
<1>7. \A m \in Node : at'[m] # Nowhere => at'[m][1] # n
  <2> SUFFICES ASSUME NEW m \in Node, at'[m] # Nowhere PROVE at'[m][1] # n
    OBVIOUS
  <2>1. CASE m = n
    <3>1. at'[n] = <<d, x>>
      BY <1>0, <2>1
    <3> QED
      BY <1>0, <2>1, <3>1
  <2>2. CASE m # n
    BY <1>0, <1>6, <2>2
  <2> QED
    BY <2>1, <2>2
<1>8. \A m : m # n => (Live(m)' <=> Live(m))
  <2> SUFFICES ASSUME NEW m, m # n PROVE Live(m)' <=> Live(m)
    OBVIOUS
  <2>1. m \in Node => at'[m] = at[m]
    BY <1>0
  <2>2. m \in Node /\ at[m] # Nowhere /\ at[m][1] \in DirNode => at'[at[m][1]] = at[at[m][1]]
    BY <1>0, <1>6, Nodes
  <2> QED
    BY <2>1, <2>2 DEF Live
<1>9. \A m : m = Root \/ (Live(m) /\ m # n) => PathOf(m)' = PathOf(m)
  <2> SUFFICES ASSUME NEW m, m = Root \/ (Live(m) /\ m # n) PROVE PathOf(m)' = PathOf(m)
    OBVIOUS
  <2>1. CASE m = Root
    BY <2>1 DEF PathOf
  <2>2. CASE m # Root
    <3>1. m \in Node /\ at'[m] = at[m] /\ at[m] # Nowhere
      BY <1>0, <2>2 DEF Live
    <3>2. at[m][1] # Root => at'[at[m][1]] = at[at[m][1]]
      BY <1>0, <1>6, <2>2, <3>1, Nodes DEF Live
    <3> QED
      BY <2>2, <3>1, <3>2 DEF PathOf
  <2> QED
    BY <2>1, <2>2
<1>10. ASSUME mask # "create" PROVE Live(n) /\ PathOf(n) = e
  <2>0. at[n] = <<d, x>>
    BY <1>0, <1>10
  <2>1. at[n] = <<d, x>> /\ at[n][1] = d /\ at[n][2] = x /\ at[n] # Nowhere
    BY <1>3, <2>0
  <2>2. CASE d = Root
    BY <1>0, <1>2, <1>4, <2>1, <2>2 DEF Live, PathOf
  <2>3. CASE d # Root
    <3>1. at[d] # Nowhere
      BY <1>5, <2>3 DEF Live
    <3> QED
      BY <1>0, <1>2, <1>5, <2>1, <2>3, <3>1 DEF Live, PathOf
  <2> QED
    BY <2>2, <2>3
<1>11. ASSUME mask # "delete" PROVE Live(n)' /\ PathOf(n)' = e
  <2>0. at'[n] = <<d, x>>
    BY <1>0, <1>11
  <2>1. at'[n] = <<d, x>> /\ at'[n][1] = d /\ at'[n][2] = x /\ at'[n] # Nowhere
    BY <1>3, <2>0
  <2>2. CASE d = Root
    BY <1>0, <1>2, <1>4, <2>1, <2>2 DEF Live, PathOf
  <2>3. CASE d # Root
    <3>1. at'[d] = at[d] /\ at[d] # Nowhere
      BY <1>0, <1>5, <2>3, Nodes DEF Live
    <3> QED
      BY <1>0, <1>2, <1>5, <2>1, <2>3, <3>1 DEF Live, PathOf
  <2> QED
    BY <2>2, <2>3
<1>12. \A m : Live(m) /\ m # n => Kind(m)' = Kind(m)
  BY <1>0, Nodes DEF Live, Kind
<1>13. \A m : Live(m) /\ PathOf(m) = e => m = n
  <2> SUFFICES ASSUME NEW m, Live(m), PathOf(m) = e, m # n PROVE FALSE
    OBVIOUS
  <2>1. mask = "create"
    BY <1>1, <1>10 DEF Geography, Unique
  <2>2. Live(m)' /\ PathOf(m)' = e
    BY <1>8, <1>9
  <2> QED
    BY <1>1, <1>11, <2>1, <2>2 DEF Geography, Unique
<1>14. ASSUME NEW p, p # e PROVE Source(p)' = Source(p)
  <2>1. CASE p \notin Path
    BY <2>1 DEF Source
  <2>2. CASE p \in Path /\ Source(p) # "none"
    <3>1. PICK m : Live(m) /\ PathOf(m) = p /\ Source(p) = Kind(m)
      BY <1>1, <2>2 DEF Geography, SourceFacts
    <3>2. m # n
      <4> SUFFICES ASSUME m = n PROVE FALSE
        OBVIOUS
      <4>1. mask = "create"
        BY <1>10, <1>14, <3>1
      <4> QED
        BY <1>0, <3>1, <4>1 DEF Live
    <3>3. Live(m)' /\ PathOf(m)' = p /\ Kind(m)' = Kind(m)
      BY <1>8, <1>9, <1>12, <3>1, <3>2
    <3> QED
      BY <1>1, <3>1, <3>3 DEF Geography, SourceFacts
  <2>3. CASE p \in Path /\ Source(p)' # "none"
    <3>1. PICK m : Live(m)' /\ PathOf(m)' = p
      BY <1>1, <2>3 DEF Geography, SourceFacts
    <3>2. m # n
      <4> SUFFICES ASSUME m = n PROVE FALSE
        OBVIOUS
      <4>1. mask = "delete"
        BY <1>11, <1>14, <3>1
      <4> QED
        BY <1>0, <3>1, <4>1 DEF Live
    <3>3. Live(m) /\ PathOf(m) = p /\ Kind(m)' = Kind(m)
      BY <1>8, <1>9, <1>12, <3>1, <3>2
    <3> QED
      BY <1>1, <3>1, <3>3 DEF Geography, SourceFacts
  <2> QED
    BY <2>1, <2>2, <2>3
<1>15. e \in Path
  BY <1>4, <1>5
<1>16. ASSUME mask = "create" PROVE Source(e) = "none"
  <2>1. ~Live(n)
    BY <1>0, <1>16 DEF Live
  <2> QED
    BY <1>1, <1>13, <1>15, <2>1 DEF Geography, SourceFacts
<1>17. ASSUME mask # "delete" PROVE Source(e)' = Kind(n)' /\ Source(e)' # "none"
  BY <1>1, <1>11, <1>17 DEF Geography, SourceFacts
<1>18. ASSUME mask = "modify" PROVE Source(e) \notin {"none", "dir"} /\ Source(e)' # "dir"
  <2>1. Source(e) = Kind(n) /\ Source(e) # "none" /\ Source(e)' = Kind(n)'
    BY <1>1, <1>10, <1>17, <1>18 DEF Geography, SourceFacts
  <2>2. data[n] \in Version /\ data'[n] \in Version
    BY <1>0, <1>1, <1>18, Nodes DEF MirrorIInv, TypeOK
  <2> QED
    BY <1>0, <1>18, <2>1, <2>2 DEF Kind, Version
<1>19. ASSUME mask = "delete" PROVE Source(e)' = "none"
  <2> SUFFICES ASSUME Source(e)' # "none" PROVE FALSE
    OBVIOUS
  <2>1. PICK m : Live(m)' /\ PathOf(m)' = e
    BY <1>1, <1>15 DEF Geography, SourceFacts
  <2>2. m # n
    BY <1>0, <1>19, <2>1 DEF Live
  <2> QED
    BY <1>8, <1>9, <1>13, <2>1, <2>2
<1> QED
  BY <1>4, <1>5, <1>8, <1>9, <1>10, <1>11, <1>14, <1>16, <1>17, <1>18, <1>19 DEF Repathed

-----------------------------------------------------------------------------
(* What the event promises: every path is settled as before, or by it.     *)

\* What the queue promised it still promises; its new event concerns the entry.
Promised(loc, n, d, x, mask, e) ==
    /\ \A i \in Queue : /\ i \in Queue' /\ i <= Len(events) /\ i \in Nat /\ events'[i] = events[i]
                        /\ Copies(i)' <=> Copies(i)
                        /\ Drops(i)' <=> Drops(i)
                        /\ OfEntry(i)' <=> OfEntry(i)
                        /\ EventAt(loc, i)' = EventAt(loc, i)
    /\ \A i \in Queue' : i \notin Queue =>
         /\ i > Len(events) /\ i \in Nat
         /\ OfEntry(i)' => /\ d \in watched /\ i = Len(events') /\ EventAt(loc, i)' = e
                           /\ events'[i].mask = mask /\ events'[i].wd = d /\ events'[i].name = x
         /\ ~OfEntry(i)' => events'[i].mask \in SelfMasks /\ events'[i].wd = n
         /\ Drops(i)' => mask = "delete" /\ OfEntry(i)'
    /\ d \in watched => \E l \in Queue' : /\ l \notin Queue /\ l = Len(events')
                                          /\ EventAt(loc, l)' = e
                                          /\ mask = "delete" <=> Drops(l)'
                                          /\ mask # "delete" <=> Copies(l)'
    /\ \A p : Cleared(loc, p) => Cleared(loc, p)'
    /\ \A p : Cleared(loc, p)' => Cleared(loc, p) \/ (mask = "delete" /\ IsPrefix(e, p))
    /\ mask = "delete" /\ d \in watched => Cleared(loc, e)'
    /\ mask # "delete" /\ d \in watched => Due(loc, e)'
    /\ \A p, i : DueBefore(loc, p, i) /\ ~(mask = "delete" /\ IsPrefix(e, p)) => DueBefore(loc, p, i)'
    /\ \A p : Due(loc, p) /\ ~(mask = "delete" /\ IsPrefix(e, p)) =>
          /\ Due(loc, p)'
          /\ \A i \in Queue' : i \notin Queue => DueBefore(loc, p, i)'

LEMMA ReportedPromises ==
  ASSUME MirrorIInv, MirrorIInv', Trees, Trees', NEW loc \in Locations, Follows(loc),
         NEW n, NEW d, NEW x, NEW mask,
         Changed(n, d, x, mask), Reported(n, d, x, mask), NEW e, e = Append(PathOf(d), x)
  PROVE  Promised(loc, n, d, x, mask, e)
<1>0. /\ Len(events) \in Nat /\ Len(events') \in Nat /\ Len(events) <= Len(events')
      /\ \A i \in Queue : i \in Queue' /\ events'[i] = events[i]
      /\ \A i \in Queue' : i \notin Queue =>
          /\ i > Len(events)
          /\ \/ /\ d \in watched /\ i = Len(events')
                /\ events'[i].mask = mask /\ events'[i].wd = d /\ events'[i].name = x
             \/ events'[i].mask \in SelfMasks /\ events'[i].wd = n
      /\ d \in watched =>
          /\ Len(events') > Len(events)
          /\ events'[Len(events')].mask = mask /\ events'[Len(events')].wd = d
          /\ events'[Len(events')].name = x
  BY DEF Reported
<1>00. mask \in {"create", "modify", "delete"} /\ e \in Path
  <2>1. e \in Path
    BY ChangedPaths DEF Repathed
  <2> QED
    BY <2>1 DEF Changed
<1>1. ASSUME NEW i \in Queue
      PROVE  /\ i \in Queue' /\ i <= Len(events) /\ i \in Nat /\ events'[i] = events[i]
             /\ Copies(i)' <=> Copies(i)
             /\ Drops(i)' <=> Drops(i)
             /\ OfEntry(i)' <=> OfEntry(i)
             /\ EventAt(loc, i)' = EventAt(loc, i)
  <2>1. i \in Queue' /\ events'[i] = events[i]
    BY <1>0
  <2>2. i <= Len(events) /\ i \in Nat
    BY <1>0 DEF Queue
  <2> QED
    BY <2>1, <2>2 DEF Copies, Drops, OfEntry, EventAt
<1>2. ASSUME d \in watched PROVE loc[d] = PathOf(d)
  BY <1>2 DEF Follows, Watching
<1>3. ASSUME NEW i \in Queue', i \notin Queue
      PROVE  /\ i > Len(events) /\ i \in Nat
             /\ OfEntry(i)' => /\ d \in watched /\ i = Len(events') /\ EventAt(loc, i)' = e
                               /\ events'[i].mask = mask /\ events'[i].wd = d /\ events'[i].name = x
             /\ ~OfEntry(i)' => events'[i].mask \in SelfMasks /\ events'[i].wd = n
             /\ Drops(i)' => mask = "delete" /\ OfEntry(i)'
  <2>1. i > Len(events) /\ i \in Nat
    BY <1>0, <1>3 DEF Queue
  <2>2. CASE /\ d \in watched /\ i = Len(events')
             /\ events'[i].mask = mask /\ events'[i].wd = d /\ events'[i].name = x
    <3>1. EventAt(loc, i)' = e
      BY <1>2, <2>2 DEF EventAt
    <3>2. OfEntry(i)' /\ (Drops(i)' => mask = "delete")
      BY <1>00, <2>2 DEF OfEntry, Copies, Drops
    <3> QED
      BY <2>1, <2>2, <3>1, <3>2
  <2>3. CASE events'[i].mask \in SelfMasks /\ events'[i].wd = n
    <3>1. ~OfEntry(i)' /\ ~Drops(i)'
      BY <2>3 DEF OfEntry, Copies, Drops, SelfMasks
    <3> QED
      BY <2>1, <2>3, <3>1
  <2> QED
    BY <1>0, <1>3, <2>2, <2>3
<1>4. ASSUME d \in watched
      PROVE  \E l \in Queue' : /\ l \notin Queue /\ l = Len(events')
                               /\ EventAt(loc, l)' = e
                               /\ mask = "delete" <=> Drops(l)'
                               /\ mask # "delete" <=> Copies(l)'
  <2>1. PICK l \in Nat : l = Len(events')
    BY <1>0
  <2>2. l \in Queue' /\ l \notin Queue
    BY <1>0, <1>4, <2>1 DEF Queue
  <2>3. events'[l].mask = mask /\ events'[l].wd = d /\ events'[l].name = x
    BY <1>0, <1>4, <2>1
  <2>4. EventAt(loc, l)' = e
    BY <1>2, <1>4, <2>3 DEF EventAt
  <2>5. /\ mask = "delete" <=> Drops(l)'
        /\ mask # "delete" <=> Copies(l)'
    BY <1>00, <2>3 DEF Copies, Drops
  <2> QED
    BY <2>1, <2>2, <2>4, <2>5
<1>5. \A p : Cleared(loc, p) => Cleared(loc, p)'
  BY <1>1 DEF Cleared
<1>6. ASSUME NEW p, NEW j \in Queue', Drops(j)', j \notin Queue, IsPrefix(EventAt(loc, j)', p)
      PROVE  mask = "delete" /\ IsPrefix(e, p)
  BY <1>3, <1>6
<1>7. \A p : Cleared(loc, p)' => Cleared(loc, p) \/ (mask = "delete" /\ IsPrefix(e, p))
  <2> SUFFICES ASSUME NEW p, NEW j \in Queue', Drops(j)', IsPrefix(EventAt(loc, j)', p)
               PROVE  Cleared(loc, p) \/ (mask = "delete" /\ IsPrefix(e, p))
    BY DEF Cleared
  <2>1. CASE j \in Queue
    <3>1. Drops(j) /\ EventAt(loc, j)' = EventAt(loc, j)
      BY <1>1, <2>1
    <3> QED
      BY <2>1, <3>1 DEF Cleared
  <2> QED
    BY <1>6, <2>1
<1>8. IsPrefix(e, e)
  BY <1>00, SelfPrefix
<1>9. mask = "delete" /\ d \in watched => Cleared(loc, e)'
  <2> SUFFICES ASSUME mask = "delete", d \in watched PROVE Cleared(loc, e)'
    OBVIOUS
  <2>1. PICK l \in Queue' : EventAt(loc, l)' = e /\ Drops(l)'
    BY <1>4
  <2>2. IsPrefix(EventAt(loc, l)', e)
    BY <1>8, <2>1
  <2> QED
    BY <2>1, <2>2 DEF Cleared
<1>10. ASSUME NEW p, NEW k \in Queue', Copies(k)', IsPrefix(EventAt(loc, k)', p), NEW i, k < i,
              \A j \in Queue : j > k /\ Drops(j) => ~IsPrefix(EventAt(loc, j), p),
              ~(mask = "delete" /\ IsPrefix(e, p))
       PROVE  DueBefore(loc, p, i)'
  <2>1. ASSUME NEW j \in Queue', j > k, Drops(j)' PROVE ~IsPrefix(EventAt(loc, j)', p)
    <3>1. CASE j \in Queue
      <4>1. Drops(j) /\ EventAt(loc, j)' = EventAt(loc, j)
        BY <1>1, <2>1, <3>1
      <4> QED
        BY <1>10, <2>1, <3>1, <4>1
    <3>2. CASE j \notin Queue
      BY <1>6, <1>10, <2>1, <3>2
    <3> QED
      BY <3>1, <3>2
  <2> QED
    BY <1>10, <2>1 DEF DueBefore
<1>11. \A p, i : DueBefore(loc, p, i) /\ ~(mask = "delete" /\ IsPrefix(e, p)) => DueBefore(loc, p, i)'
  <2> SUFFICES ASSUME NEW p, NEW i, DueBefore(loc, p, i), ~(mask = "delete" /\ IsPrefix(e, p))
               PROVE  DueBefore(loc, p, i)'
    OBVIOUS
  <2>1. PICK k \in Queue : /\ k < i /\ Copies(k) /\ IsPrefix(EventAt(loc, k), p)
                           /\ \A j \in Queue : j > k /\ Drops(j) => ~IsPrefix(EventAt(loc, j), p)
    BY DEF DueBefore
  <2>2. k \in Queue' /\ Copies(k)' /\ IsPrefix(EventAt(loc, k)', p)
    BY <1>1, <2>1
  <2> QED
    BY <1>10, <2>1, <2>2
<1>12. \A p : Due(loc, p) /\ ~(mask = "delete" /\ IsPrefix(e, p)) =>
               /\ Due(loc, p)'
               /\ \A i \in Queue' : i \notin Queue => DueBefore(loc, p, i)'
  <2> SUFFICES ASSUME NEW p, Due(loc, p), ~(mask = "delete" /\ IsPrefix(e, p)),
                      NEW i \in Nat, i > Len(events)
               PROVE  DueBefore(loc, p, i)'
    <3>1. Len(events') + 1 \in Nat /\ Len(events') + 1 > Len(events)
      BY <1>0
    <3> QED
      BY <1>3, <3>1 DEF Due
  <2>1. PICK k \in Queue : /\ Copies(k) /\ IsPrefix(EventAt(loc, k), p)
                           /\ \A j \in Queue : j > k /\ Drops(j) => ~IsPrefix(EventAt(loc, j), p)
    BY DEF Due, DueBefore
  <2>2. k \in Queue' /\ Copies(k)' /\ IsPrefix(EventAt(loc, k)', p) /\ k < i
    <3>1. k <= Len(events) /\ k \in Nat
      BY <1>1
    <3> QED
      BY <1>0, <1>1, <2>1, <3>1
  <2> QED
    BY <1>10, <2>1, <2>2
<1>13. mask # "delete" /\ d \in watched => Due(loc, e)'
  <2> SUFFICES ASSUME mask # "delete", d \in watched PROVE Due(loc, e)'
    OBVIOUS
  <2>1. PICK k \in Queue' : k \notin Queue /\ k = Len(events') /\ EventAt(loc, k)' = e /\ Copies(k)'
    BY <1>4
  <2>2. k < Len(events') + 1 /\ (\A j \in Queue : ~(j > k)) /\ IsPrefix(EventAt(loc, k)', e)
    BY <1>0, <1>1, <1>8, <2>1
  <2>3. PICK m : m = Len(events') + 1
    OBVIOUS
  <2>4. DueBefore(loc, e, m)'
    BY <1>10, <2>1, <2>2, <2>3
  <2> QED
    BY <2>3, <2>4 DEF Due
<1> QED
  BY <1>1, <1>3, <1>4, <1>5, <1>7, <1>9, <1>11, <1>12, <1>13 DEF Promised

\* A directory that is not watched yet will be copied: so will what is in it.
LEMMA UnwatchedDue ==
  ASSUME MirrorIInv, Trees, NEW loc \in Locations, Follows(loc), pc = "read",
         NEW d \in DirNode, Live(d), at[d][1] = Root, d \notin watched,
         NEW x \in Name, NEW e, e = Append(PathOf(d), x), e \in Path, Len(e) = 2, Front(e) = PathOf(d)
  PROVE  Awaited(loc, d) /\ Due(loc, e)
<1>1. Geography /\ Root \in watched /\ loc[Root] = <<>>
  BY GeographyHolds, DeadDropped DEF MirrorIInv
<1>2. DirsExpected(loc) /\ EventsWatched(loc) /\ Watching(loc)
  BY DEF Follows
<1>3. Awaited(loc, d)
  BY <1>2 DEF DirsExpected, InTarget
<1>4. PICK i \in Queue :
       /\ Copies(i) /\ events[i].wd = Root /\ events[i].name = at[d][2]
       /\ \A j \in Queue : j > i /\ Drops(j) => ~IsPrefix(EventAt(loc, j), PathOf(d))
  BY <1>3 DEF Awaited
<1>5. PathOf(d) \in Path /\ Len(PathOf(d)) = 1 /\ PathOf(d) = <<at[d][2]>> /\ at[d][2] \in Name
  BY <1>1 DEF Geography, BelowFacts, LiveFacts, AtFacts, PathOf
<1>6. EventAt(loc, i) = PathOf(d)
  <2>1. Append(<<>>, at[d][2]) = <<at[d][2]>>
    BY <1>5
  <2> QED
    BY <1>1, <1>4, <1>5, <2>1 DEF EventAt
<1>7. IsPrefix(EventAt(loc, i), e)
  BY <1>5, <1>6, PrefixOf
<1>8. ASSUME NEW j \in Queue, j > i, Drops(j), IsPrefix(EventAt(loc, j), e) PROVE FALSE
  <2>0. OfEntry(j) /\ j \in Nat /\ i \in Nat
    <3>1. Len(events) \in Nat
      BY InvParts, LenProperties
    <3> QED
      BY <1>8, <3>1 DEF OfEntry, Queue
  <2>1. EventAt(loc, j) \in Path
    BY <1>2, <2>0, EventFacts
  <2>2. EventAt(loc, j) = e
    <3>1. ~IsPrefix(EventAt(loc, j), PathOf(d))
      BY <1>4, <1>8
    <3>2. EventAt(loc, j) # PathOf(d)
      BY <1>5, <3>1, SelfPrefix
    <3> QED
      BY <1>8, <2>1, <3>2, PrefixOf
  <2>3. loc[events[j].wd] = PathOf(d)
    <3>1. \/ loc[events[j].wd] = <<>> /\ Len(EventAt(loc, j)) = 1
          \/ Front(EventAt(loc, j)) = loc[events[j].wd]
      BY <1>2, <2>0, EventFacts
    <3> QED
      BY <2>2, <3>1
  <2>4. CASE events[j].wd \in watched
    <3>0. Len(<<>>) = 0 /\ Len(PathOf(d)) = 1
      BY <1>5
    <3>00. events[j].wd # Root
      BY <1>1, <2>3, <3>0
    <3>1. Live(events[j].wd) /\ PathOf(events[j].wd) = PathOf(d)
      BY <1>2, <2>3, <2>4, <3>00 DEF Watching
    <3> QED
      BY <1>1, <2>4, <3>1 DEF Geography, Unique
  <2>5. CASE events[j].wd \notin watched
    <3>1. PICK k \in Queue : k > j /\ Drops(k) /\ EventAt(loc, k) = PathOf(d)
      BY <2>0, <2>3, <2>5, DeadDropped
    <3>2. k \in Nat
      <4>1. Len(events) \in Nat
        BY InvParts, LenProperties
      <4> QED
        BY <4>1 DEF Queue
    <3>3. k > i
      BY <1>8, <2>0, <3>1, <3>2
    <3>4. IsPrefix(EventAt(loc, k), PathOf(d))
      BY <1>5, <3>1, SelfPrefix
    <3> QED
      BY <1>4, <3>1, <3>3, <3>4
  <2> QED
    BY <2>4, <2>5
<1>9. i < Len(events) + 1
  <2>1. Len(events) \in Nat
    BY InvParts, LenProperties
  <2> QED
    BY <2>1 DEF Queue
<1> QED
  BY <1>3, <1>4, <1>7, <1>8, <1>9 DEF Due, DueBefore

LEMMA ChangedSettles ==
  ASSUME MirrorIInv, MirrorIInv', Trees, Trees', NEW loc \in Locations, Follows(loc),
         NEW n, NEW d, NEW x, NEW mask, Changed(n, d, x, mask), Reported(n, d, x, mask)
  PROVE  Settling(loc)'
<1>0. /\ n \in Node /\ n # d /\ mask \in {"create", "modify", "delete"} /\ x \in Name
      /\ d = Root \/ (Live(d) /\ d \in DirNode /\ at[d][1] = Root)
      /\ watched' \subseteq watched /\ pc = "read" /\ backup' = backup
      /\ d \in watched => d \in watched'
      /\ mask = "delete" => n \notin watched'
  BY DEF Changed
<1>1. PICK q : q = Append(PathOf(d), x)
  OBVIOUS
<1>2. /\ q \in Path
      /\ d # Root => Len(q) = 2 /\ Front(q) = PathOf(d)
      /\ \A m : m # n => (Live(m)' <=> Live(m))
      /\ \A m : m = Root \/ (Live(m) /\ m # n) => PathOf(m)' = PathOf(m)
      /\ \A p : p # q => Source(p)' = Source(p)
      /\ mask = "create" => Source(q) = "none"
      /\ mask # "delete" => Source(q)' # "none"
      /\ mask = "modify" => Source(q) \notin {"none", "dir"} /\ Source(q)' # "dir"
      /\ mask = "delete" => Source(q)' = "none"
  <2>1. Repathed(n, d, mask, q)
    BY <1>1, ChangedPaths
  <2> QED
    BY <2>1 DEF Repathed
<1>3. /\ \A i \in Queue : /\ i \in Queue'
                          /\ events'[i] = events[i] /\ (OfEntry(i)' <=> OfEntry(i))
      /\ \A i \in Queue' : i \notin Queue /\ OfEntry(i)' =>
            d \in watched /\ events'[i].wd = d
      /\ \A p : Cleared(loc, p) => Cleared(loc, p)'
      /\ \A p : Cleared(loc, p)' => Cleared(loc, p) \/ (mask = "delete" /\ IsPrefix(q, p))
      /\ mask = "delete" /\ d \in watched => Cleared(loc, q)'
      /\ mask # "delete" /\ d \in watched => Due(loc, q)'
      /\ \A p, i : DueBefore(loc, p, i) /\ ~(mask = "delete" /\ IsPrefix(q, p)) => DueBefore(loc, p, i)'
      /\ \A p : Due(loc, p) /\ ~(mask = "delete" /\ IsPrefix(q, p)) =>
            /\ Due(loc, p)'
            /\ \A i \in Queue' : i \notin Queue => DueBefore(loc, p, i)'
  <2>1. Promised(loc, n, d, x, mask, q)
    BY <1>1, ReportedPromises
  <2> QED
    BY <2>1 DEF Promised
<1>4. Geography /\ Geography' /\ Watching(loc) /\ Settling(loc) /\ EventsWatched(loc) /\ Root \in watched
  BY <1>0, GeographyHolds, GeographyNext, DeadDropped DEF MirrorIInv, Follows
<1>5. \A p \in Path : Source(p)' # "none" => ~(mask = "delete" /\ IsPrefix(q, p))
  <2> SUFFICES ASSUME NEW p \in Path, Source(p)' # "none", mask = "delete", IsPrefix(q, p) PROVE FALSE
    OBVIOUS
  <2>1. p # q /\ Source(q)' = "none"
    BY <1>2
  <2>2. Len(p) = 2 /\ q = Front(p)
    BY <1>2, <2>1, PrefixOf
  <2>3. Source(Front(p))' = "dir"
    BY <1>4, <2>2 DEF Geography, BelowFacts
  <2> QED
    BY <2>1, <2>2, <2>3
<1>6. GoneCleared(loc)'
  <2> SUFFICES ASSUME NEW p \in Path, Source(p)' = "none", backup[p] # "none" PROVE Cleared(loc, p)'
    BY <1>0 DEF GoneCleared
  <2>1. CASE Source(p) = "none"
    BY <1>3, <1>4, <2>1 DEF Settling, GoneCleared
  <2>2. CASE Source(p) # "none"
    <3>1. p = q /\ mask = "delete"
      BY <1>0, <1>2, <2>2
    <3>2. CASE d \in watched
      BY <1>3, <3>1, <3>2
    <3>3. CASE d \notin watched
      <4>1. d # Root /\ Live(d) /\ d \in DirNode
        BY <1>0, <1>4, <3>3
      <4>2. BelowUnwatched(loc) /\ ~InTarget(d)
        BY <1>0 DEF Follows, InTarget
      <4>3. Cleared(loc, p)
        BY <1>2, <3>1, <3>3, <4>1, <4>2 DEF BelowUnwatched
      <4> QED
        BY <1>3, <4>3
    <3> QED
      BY <3>2, <3>3
  <2> QED
    BY <2>1, <2>2
<1>7. ThereDue(loc)'
  <2> SUFFICES ASSUME NEW p \in Path, Source(p)' # "none"
               PROVE  \/ backup[p] = Source(p)' /\ ~Cleared(loc, p)'
                      \/ Due(loc, p)' /\ (Compatible(backup[p], Source(p)') \/ Cleared(loc, p)')
    BY <1>0 DEF ThereDue, Compatible
  <2>0. ~(mask = "delete" /\ IsPrefix(q, p))
    BY <1>5
  <2>1. CASE p # q
    <3>1. Source(p)' = Source(p)
      BY <1>2, <2>1
    <3>2. \/ backup[p] = Source(p) /\ ~Cleared(loc, p)
          \/ Due(loc, p) /\ (Compatible(backup[p], Source(p)) \/ Cleared(loc, p))
      BY <1>4, <3>1 DEF Settling, ThereDue
    <3>3. (Cleared(loc, p)' <=> Cleared(loc, p)) /\ (Due(loc, p) => Due(loc, p)')
      BY <1>3, <2>0
    <3> QED
      BY <3>1, <3>2, <3>3
  <2>2. CASE p = q
    <3>1. mask # "delete"
      BY <1>2, <2>2
    <3>2. Due(loc, p)'
      <4>1. CASE d \in watched
        BY <1>3, <2>2, <3>1, <4>1
      <4>2. CASE d \notin watched
        <5>1. d # Root /\ Live(d) /\ d \in DirNode /\ at[d][1] = Root
          BY <1>0, <1>4, <4>2
        <5>2. Due(loc, q)
          BY <1>0, <1>1, <1>2, <4>2, <5>1, UnwatchedDue
        <5> QED
          BY <1>3, <2>0, <2>2, <5>2
      <4> QED
        BY <4>1, <4>2
    <3>3. Compatible(backup[p], Source(p)') \/ Cleared(loc, p)'
      <4>1. CASE mask = "create"
        <5>1. Source(p) = "none"
          BY <1>2, <2>2, <4>1
        <5>2. backup[p] = "none" \/ Cleared(loc, p)
          BY <1>4, <5>1 DEF Settling, GoneCleared
        <5> QED
          BY <1>3, <5>2 DEF Compatible
      <4>2. CASE mask = "modify"
        <5>1. Source(p) \notin {"none", "dir"} /\ Source(p)' # "dir"
          BY <1>2, <2>2, <4>2
        <5>2. \/ backup[p] = Source(p) /\ ~Cleared(loc, p)
              \/ Due(loc, p) /\ (Compatible(backup[p], Source(p)) \/ Cleared(loc, p))
          BY <1>4, <5>1 DEF Settling, ThereDue
        <5>3. backup[p] # "dir" \/ Cleared(loc, p)
          BY <5>1, <5>2 DEF Compatible
        <5> QED
          BY <1>3, <5>1, <5>3 DEF Compatible
      <4> QED
        BY <1>0, <3>1, <4>1, <4>2
    <3> QED
      BY <3>2, <3>3
  <2> QED
    BY <2>1, <2>2
<1>8. DirsFirst(loc)'
  <2> SUFFICES ASSUME NEW i \in Queue', OfEntry(i)', events'[i].wd \in watched' \ {Root},
                      NEW w, w = events'[i].wd, NEW f, f = loc[w]
               PROVE  (backup[f] = "dir" /\ ~Cleared(loc, f)') \/ DueBefore(loc, f, i)'
    BY <1>0 DEF DirsFirst
  <2>1. w \in watched /\ w \in DirNode /\ Live(w) /\ f = PathOf(w) /\ Source(f) = "dir" /\ f \in Path
    <3>1. w \in watched /\ w \in DirNode /\ Live(w) /\ f = PathOf(w)
      BY <1>0, <1>4 DEF Watching, Dir
    <3> QED
      BY <1>4, <3>1 DEF Geography, SourceFacts, Kind
  <2>2. Source(f)' # "none"
    <3>1. CASE mask = "delete"
      <4>1. w # n
        BY <1>0, <3>1
      <4>2. Live(w)' /\ PathOf(w)' = f
        BY <1>2, <2>1, <4>1
      <4> QED
        BY <1>4, <4>2 DEF Geography, SourceFacts
    <3>2. CASE mask # "delete"
      BY <1>2, <2>1, <3>2
    <3> QED
      BY <3>1, <3>2
  <2>3. ~(mask = "delete" /\ IsPrefix(q, f))
    BY <1>5, <2>1, <2>2
  <2>4. Cleared(loc, f)' <=> Cleared(loc, f)
    BY <1>3, <2>3
  <2>5. CASE i \in Queue
    <3>1. OfEntry(i) /\ events[i].wd \in watched \ {Root} /\ f = loc[events[i].wd]
      BY <1>3, <2>1, <2>5
    <3>2. (backup[f] = "dir" /\ ~Cleared(loc, f)) \/ DueBefore(loc, f, i)
      BY <1>4, <2>5, <3>1 DEF Settling, DirsFirst
    <3> QED
      BY <1>3, <2>3, <2>4, <3>2
  <2>6. CASE i \notin Queue
    <3>1. \/ backup[f] = "dir" /\ ~Cleared(loc, f)
          \/ Due(loc, f)
      BY <1>4, <2>1 DEF Settling, ThereDue
    <3> QED
      BY <1>3, <2>3, <2>4, <2>6, <3>1
  <2> QED
    BY <2>5, <2>6
<1> QED
  BY <1>6, <1>7, <1>8 DEF Settling

-----------------------------------------------------------------------------
(* The map and the watches after the change.                               *)

LEMMA ChangedQueue ==
  ASSUME MirrorIInv, MirrorIInv', Trees, Trees', NEW loc \in Locations, Follows(loc),
         NEW n, NEW d, NEW x, NEW mask, Changed(n, d, x, mask), Reported(n, d, x, mask)
  PROVE  /\ EventsWatched(loc)' /\ SelfLast' /\ RenamesFirst' /\ Watching(loc)'
         /\ Moving' <=> Moving
         /\ Moving => Old(loc)' = Old(loc) /\ New(loc)' = New(loc)
<1>0. /\ n \in Node /\ n # d /\ n # Root /\ mask \in {"create", "modify", "delete"} /\ x \in Name /\ d \in Dir
      /\ d = Root \/ (Live(d) /\ d \in DirNode /\ at[d][1] = Root)
      /\ pc = "read" /\ pc' = "read" /\ pending' = pending
      /\ IF mask = "delete" THEN at[n] = <<d, x>> /\ at'[n] = Nowhere /\ watched' = watched \ {n}
         ELSE watched' = watched
      /\ mask = "create" => at[n] = Nowhere /\ \A i \in Queue : events[i].wd # n
      /\ \A m \in Node : m # n => at'[m] = at[m]
  BY Nodes DEF Changed, Fresh, Queue
<1>1. PICK q : q = Append(PathOf(d), x)
  OBVIOUS
<1>2. Repathed(n, d, mask, q)
  BY <1>1, ChangedPaths
<1>3. Promised(loc, n, d, x, mask, q)
  BY <1>1, ReportedPromises
<1>4. /\ Geography /\ Watching(loc) /\ EventsWatched(loc) /\ SelfLast /\ RenamesFirst
      /\ Root \in watched /\ loc[Root] = <<>>
  BY <1>0, GeographyHolds, DeadDropped DEF MirrorIInv, Follows
<1>5. Root \in watched' /\ (d \in watched => d \in watched') /\ watched' \subseteq watched
      /\ \A w \in watched : w # n => w \in watched'
  BY <1>0, <1>4
<1>6. /\ \A i \in Queue : /\ i \in Queue' /\ i \in Nat /\ i <= Len(events) /\ events'[i] = events[i]
                          /\ OfEntry(i)' <=> OfEntry(i)
                          /\ EventAt(loc, i)' = EventAt(loc, i)
      /\ \A i \in Queue' : i \notin Queue =>
           /\ i > Len(events) /\ i \in Nat
           /\ OfEntry(i)' => /\ d \in watched /\ i = Len(events')
                             /\ events'[i].mask = mask /\ events'[i].wd = d /\ events'[i].name = x
           /\ ~OfEntry(i)' => events'[i].mask \in SelfMasks /\ events'[i].wd = n
      /\ Len(events) \in Nat /\ Len(events') \in Nat /\ Len(events) <= Len(events')
      /\ d \in watched => \E l \in Queue' : /\ l \notin Queue /\ events'[l].mask = mask
                                            /\ events'[l].wd = d /\ events'[l].name = x
  <2>1. d \in watched => \E l \in Queue' : /\ l \notin Queue /\ events'[l].mask = mask
                                           /\ events'[l].wd = d /\ events'[l].name = x
    <3> SUFFICES ASSUME d \in watched
                 PROVE  \E l \in Queue' : /\ l \notin Queue /\ events'[l].mask = mask
                                          /\ events'[l].wd = d /\ events'[l].name = x
      OBVIOUS
    <3>1. PICK l \in Queue' : l \notin Queue /\ l = Len(events')
      BY <1>3 DEF Promised
    <3>2. /\ events'[Len(events')].mask = mask /\ events'[Len(events')].wd = d
          /\ events'[Len(events')].name = x
      BY DEF Reported
    <3> QED
      BY <3>1, <3>2
  <2> QED
    BY <1>3, <2>1 DEF Promised, Reported
<1>7. EventsWatched(loc)'
  <2> SUFFICES ASSUME NEW i \in Queue', OfEntry(i)', NEW w, w = events'[i].wd
               PROVE  /\ w \in Dir /\ Len(loc[w]) <= 1
                      /\ \/ w \in watched'
                         \/ /\ at'[w] = Nowhere
                            /\ \E j \in Queue' : /\ j > i /\ events'[j].mask = "delete"
                                                 /\ events'[j].wd = Root
                                                 /\ loc[w] = <<events'[j].name>>
    BY DEF EventsWatched
  <2>1. CASE i \in Queue
    <3>1. OfEntry(i) /\ w = events[i].wd
      BY <1>6, <2>1
    <3>2. /\ w \in Dir /\ Len(loc[w]) <= 1
          /\ \/ w \in watched
             \/ /\ at[w] = Nowhere
                /\ \E j \in Queue : /\ j > i /\ events[j].mask = "delete" /\ events[j].wd = Root
                                    /\ loc[w] = <<events[j].name>>
      BY <1>4, <2>1, <3>1 DEF EventsWatched
    <3>3. CASE w \in watched /\ w # n
      BY <1>5, <3>2, <3>3
    <3>4. CASE w \in watched /\ w = n
      <4>1. CASE mask # "delete"
        BY <1>0, <3>2, <3>4, <4>1
      <4>2. CASE mask = "delete"
        <5>1. loc[n] = PathOf(n) /\ Live(n)
          BY <1>0, <1>4, <3>4 DEF Watching
        <5>2. d = Root /\ loc[n] = <<x>>
          <6>0. Len(PathOf(n)) <= 1
            BY <3>2, <3>4, <5>1
          <6>1. PathOf(n) = q /\ (d # Root => Len(q) = 2)
            BY <1>2, <4>2 DEF Repathed
          <6>2. at[n] = <<d, x>> /\ d = Root
            BY <1>0, <4>2, <6>0, <6>1
          <6>3. at[n][1] = d /\ at[n][2] = x
            BY <6>2
          <6>4. PathOf(n) = <<at[n][2]>>
            BY <1>0, <6>2, <6>3 DEF PathOf
          <6> QED
            BY <5>1, <6>2, <6>3, <6>4
        <5>3. PICK l \in Queue' : /\ l \notin Queue /\ events'[l].mask = mask
                                  /\ events'[l].wd = d /\ events'[l].name = x
          BY <1>4, <1>6, <5>2
        <5>4. l > i
          BY <1>6, <2>1, <5>3
        <5> QED
          BY <1>0, <3>2, <3>4, <4>2, <5>2, <5>3, <5>4
      <4> QED
        BY <4>1, <4>2
    <3>5. CASE w \notin watched
      <4>1. at'[w] = Nowhere
        <5>1. w # Root /\ w \in Node
          BY <1>4, <3>2, <3>5, Nodes DEF Dir
        <5>2. w # n
          <6> SUFFICES ASSUME w = n PROVE FALSE
            OBVIOUS
          <6>1. mask # "create"
            BY <1>0, <2>1, <3>1
          <6>2. Live(n)
            BY <1>2, <6>1 DEF Repathed
          <6> QED
            BY <3>2, <3>5, <6>2 DEF Live
        <5> QED
          BY <1>0, <3>2, <3>5, <5>1, <5>2
      <4>2. PICK j \in Queue : /\ j > i /\ events[j].mask = "delete" /\ events[j].wd = Root
                               /\ loc[w] = <<events[j].name>>
        BY <3>2, <3>5
      <4>3. j \in Queue' /\ events'[j] = events[j]
        BY <1>6
      <4> QED
        BY <3>2, <4>1, <4>2, <4>3
    <3> QED
      BY <3>3, <3>4, <3>5
  <2>2. CASE i \notin Queue
    <3>1. d \in watched /\ w = d
      BY <1>6, <2>2
    <3>2. Len(loc[d]) <= 1
      <4>1. CASE d = Root
        <5>1. Len(<<>>) = 0
          OBVIOUS
        <5> QED
          BY <1>4, <4>1, <5>1
      <4>2. CASE d # Root
        <5>1. Len(PathOf(d)) = 1
          BY <1>2, <4>2 DEF Repathed
        <5>2. loc[d] = PathOf(d)
          BY <1>4, <3>1 DEF Watching
        <5>3. Len(loc[d]) = 1
          BY <5>1, <5>2
        <5> QED
          BY <5>3
      <4> QED
        BY <4>1, <4>2
    <3> QED
      BY <1>0, <1>5, <3>1, <3>2
  <2> QED
    BY <2>1, <2>2
<1>8. SelfLast'
  <2> SUFFICES ASSUME NEW i \in Queue', NEW j \in Queue', i < j, ~OfEntry(i)', OfEntry(j)'
               PROVE  events'[i].wd # events'[j].wd
    BY DEF SelfLast
  <2>1. CASE j \in Queue
    <3>1. i \in Queue
      <4>1. j <= Len(events) /\ j \in Nat
        BY <1>6, <2>1
      <4> QED
        BY <1>6, <4>1
    <3> QED
      BY <1>4, <1>6, <2>1, <3>1 DEF SelfLast
  <2>2. CASE j \notin Queue
    <3>1. d \in watched /\ events'[j].wd = d
      BY <1>6, <2>2
    <3>2. CASE i \in Queue
      <4>1. ~OfEntry(i) /\ events'[i] = events[i]
        BY <1>6, <3>2
      <4>2. events[i].wd \notin watched
        BY <1>4, <3>2, <4>1, EventFacts
      <4> QED
        BY <3>1, <4>1, <4>2
    <3>3. CASE i \notin Queue
      BY <1>0, <1>6, <3>1, <3>3
    <3> QED
      BY <3>2, <3>3
  <2> QED
    BY <2>1, <2>2
<1>9. \A i \in Queue' : i \notin Queue => events'[i].mask \notin {"moved_from", "moved_to"}
  BY <1>0, <1>6 DEF SelfMasks
<1>10. /\ Queue = 1..Len(events) /\ Queue' = 1..Len(events')
       /\ events # <<>> => 1 \in Queue
       /\ events' # <<>> => 1 \in Queue'
       /\ events # <<>> => events' # <<>>
       /\ events = <<>> => Queue = {}
  <2>1. Queue = 1..Len(events) /\ Queue' = 1..Len(events')
    BY DEF Queue
  <2>2. events \in Seq(SoundEvent) /\ events' \in Seq(SoundEvent')
    BY DEF MirrorIInv, WatchesExist
  <2>3. (Len(events) = 0 <=> events = <<>>) /\ (Len(events') = 0 <=> events' = <<>>)
    BY <2>2, EmptySeq
  <2> QED
    BY <1>6, <2>1, <2>3
<1>11. /\ Moving' <=> Moving
       /\ Moving => Old(loc)' = Old(loc) /\ New(loc)' = New(loc)
  <2>1. pending # NoCookie => 1 \in Queue
    BY <1>4, <1>10 DEF RenamesFirst
  <2>2. /\ events # <<>> /\ events[1].mask = "moved_from" => 1 \in Queue /\ 2 \in Queue /\ 1 < Len(events)
    BY <1>4, <1>6, <1>10 DEF RenamesFirst
  <2>3. Moving' <=> Moving
    <3>1. events # <<>> /\ events[1].mask = "moved_from" => events' # <<>> /\ events'[1].mask = "moved_from"
      BY <1>6, <1>10
    <3>2. events' # <<>> /\ events'[1].mask = "moved_from" => events # <<>> /\ events[1].mask = "moved_from"
      BY <1>6, <1>9, <1>10
    <3> QED
      BY <1>0, <3>1, <3>2 DEF Moving
  <2>4. ASSUME Moving PROVE Old(loc)' = Old(loc) /\ New(loc)' = New(loc)
    <3>1. CASE pending # NoCookie
      <4>1. EventAt(loc, 1)' = EventAt(loc, 1)
        BY <1>6, <2>1, <3>1
      <4> QED
        BY <1>0, <3>1, <4>1 DEF Old, New
    <3>2. CASE pending = NoCookie
      <4>1. EventAt(loc, 1)' = EventAt(loc, 1) /\ EventAt(loc, 2)' = EventAt(loc, 2)
        BY <1>6, <2>2, <2>4, <3>2 DEF Moving
      <4> QED
        BY <1>0, <3>2, <4>1 DEF Old, New
    <3> QED
      BY <3>1, <3>2
  <2> QED
    BY <2>3, <2>4
<1>12. RenamesFirst'
  <2>1. ASSUME NEW k \in Queue', events'[k].mask = "moved_from"
        PROVE  /\ k = 1 /\ Len(events') > 1 /\ events'[2].mask = "moved_to"
               /\ events'[2].cookie = events'[1].cookie /\ events'[1].cookie # NoCookie
               /\ pending' = NoCookie
    <3>1. k \in Queue /\ events[k].mask = "moved_from"
      BY <1>6, <1>9, <2>1
    <3>2. /\ k = 1 /\ Len(events) > 1 /\ events[2].mask = "moved_to"
          /\ events[2].cookie = events[1].cookie /\ events[1].cookie # NoCookie
          /\ pending = NoCookie
      BY <1>4, <3>1 DEF RenamesFirst
    <3>3. 2 \in Queue /\ 1 \in Queue
      BY <1>6, <3>2 DEF Queue
    <3> QED
      BY <1>0, <1>6, <3>2, <3>3
  <2>2. ASSUME NEW k \in Queue', events'[k].mask = "moved_to"
        PROVE  k = 1 \/ (k = 2 /\ events'[1].mask = "moved_from")
    <3>1. k \in Queue /\ events[k].mask = "moved_to"
      BY <1>6, <1>9, <2>2
    <3>2. k = 1 \/ (k = 2 /\ events[1].mask = "moved_from")
      BY <1>4, <3>1 DEF RenamesFirst
    <3>3. 1 \in Queue
      BY <1>6, <3>1 DEF Queue
    <3> QED
      BY <1>6, <3>2, <3>3
  <2>3. pending' # NoCookie =>
          events' # <<>> /\ events'[1].mask = "moved_to" /\ events'[1].cookie = pending'[1]
    BY <1>0, <1>4, <1>6, <1>10 DEF RenamesFirst
  <2> QED
    BY <1>0, <2>1, <2>2, <2>3 DEF RenamesFirst
<1>13. Watching(loc)'
  <2>1. ASSUME NEW w \in watched', w # Root PROVE loc[w] = PathOf(w)' /\ Live(w)'
    <3>1. loc[w] = PathOf(w) /\ Live(w)
      BY <1>4, <1>5, <2>1 DEF Watching
    <3>2. CASE w # n
      BY <1>2, <3>1, <3>2 DEF Repathed
    <3>3. CASE w = n
      <4>1. mask # "delete" /\ mask # "create"
        BY <1>0, <2>1, <3>1, <3>3 DEF Live
      <4> QED
        BY <1>2, <3>1, <3>3, <4>1 DEF Repathed
    <3> QED
      BY <3>2, <3>3
  <2>2. loc[Root] = PathOf(Root)'
    BY <1>4 DEF PathOf
  <2>3. watched' \subseteq Dir /\ Root \in watched'
    BY <1>4, <1>5 DEF Watching
  <2> QED
    BY <1>0, <2>1, <2>2, <2>3 DEF Watching
<1> QED
  BY <1>7, <1>8, <1>11, <1>12, <1>13

LEMMA ChangedMap ==
  ASSUME MirrorIInv, MirrorIInv', Trees, Trees', NEW loc \in Locations, Follows(loc),
         NEW n, NEW d, NEW x, NEW mask, Changed(n, d, x, mask), Reported(n, d, x, mask)
  PROVE  MapResolves(loc)'
<1>0. /\ n \in Node /\ map' = map
      /\ mask \in {"create", "modify", "delete"}
      /\ mask = "delete" => at'[n] = Nowhere /\ watched' = watched \ {n}
      /\ mask # "delete" => watched' = watched
      /\ mask = "create" => Indices(n) = {}
      /\ mask # "create" => at[n] = <<d, x>> /\ <<d, x>> # Nowhere
      /\ \A m \in Node : m # n => at'[m] = at[m]
  BY Nodes DEF Changed, Fresh
<1>1. PICK q : q = Append(PathOf(d), x)
  OBVIOUS
<1>3. Promised(loc, n, d, x, mask, q)
  BY <1>1, ReportedPromises
<1>4. /\ Moving' <=> Moving
      /\ Moving => Old(loc)' = Old(loc) /\ New(loc)' = New(loc)
  BY ChangedQueue
<1>5. \A w : Indices(w)' = Indices(w) /\ (Known(w)' <=> Known(w))
  BY <1>0 DEF Indices, Known
<1>6. \A p : Resolved(loc, p)' = Resolved(loc, p)
  BY <1>4 DEF Resolved
<1>7. Named' \subseteq Named
  <2> SUFFICES ASSUME NEW w \in Named' PROVE w \in Named
    OBVIOUS
  <2>1. \/ w \in watched'
        \/ \E k \in Queue' : OfEntry(k)' /\ w = events'[k].wd
    BY DEF Named
  <2>2. ASSUME NEW k \in Queue', OfEntry(k)', w = events'[k].wd PROVE w \in Named
    <3>1. CASE k \in Queue
      <4>1. OfEntry(k) /\ w = events[k].wd
        BY <1>3, <2>2, <3>1 DEF Promised
      <4> QED
        BY <3>1, <4>1 DEF Named
    <3>2. CASE k \notin Queue
      <4>1. w \in watched
        BY <1>3, <2>2, <3>2 DEF Promised
      <4> QED
        BY <4>1 DEF Named
    <3> QED
      BY <3>1, <3>2
  <2>3. watched' \subseteq watched
    BY <1>0
  <2> QED
    BY <2>1, <2>2, <2>3 DEF Named
<1>8. MapResolves(loc)
  BY DEF Follows
<1>9. \A w \in Named' : Known(w)' /\ \A i \in Indices(w)' : Resolved(loc, map[i].path)' = loc[w]
  <2> SUFFICES ASSUME NEW w \in Named' PROVE Known(w)' /\ \A i \in Indices(w)' : Resolved(loc, map[i].path)' = loc[w]
    OBVIOUS
  <2>1. Known(w) /\ \A i \in Indices(w) : Resolved(loc, map[i].path) = loc[w]
    BY <1>7, <1>8 DEF MapResolves
  <2> QED
    <3>1. \A i : (i \in Indices(w)' <=> i \in Indices(w)) /\ Resolved(loc, map[i].path)' = Resolved(loc, map[i].path)
      BY <1>0, <1>4, <1>5 DEF Resolved
    <3> QED
      BY <1>5, <2>1, <3>1
<1>10. ASSUME NEW k \in Queue', Moving', events'[k].mask \in {"moved_from", "moved_to"}
       PROVE  \A i \in Indices(events[k].wd)' : ~IsPrefix(Old(loc)', map'[i].path)
  <2>1. CASE k \in Queue
    <3>1. events'[k] = events[k]
      BY <1>3, <2>1 DEF Promised
    <3>2. \A i \in Indices(events[k].wd) : ~IsPrefix(Old(loc), map[i].path)
      BY <1>4, <1>8, <1>10, <2>1, <3>1 DEF MapResolves
    <3>3. \A i : i \in Indices(events[k].wd)' <=> i \in Indices(events[k].wd)
      BY <1>0, <3>1 DEF Indices
    <3>4. Old(loc)' = Old(loc)
      BY <1>4, <1>10
    <3> QED
      BY <1>0, <3>2, <3>3, <3>4
  <2>2. CASE k \notin Queue
    <3>1. events'[k].mask = mask \/ events'[k].mask \in SelfMasks
      BY <1>3, <2>2 DEF Promised
    <3> QED
      BY <1>0, <1>10, <3>1 DEF SelfMasks
  <2> QED
    BY <2>1, <2>2
<1>11. \A m \in Node : at'[m] # Nowhere /\ m \notin watched' => ~Known(m)'
  <2> SUFFICES ASSUME NEW m \in Node, at'[m] # Nowhere, m \notin watched' PROVE ~Known(m)
    BY <1>5
  <2>1. CASE m = n /\ mask = "create"
    BY <1>0, <2>1 DEF Known
  <2>2. CASE ~(m = n /\ mask = "create")
    <3>1. at[m] # Nowhere /\ m \notin watched
      BY <1>0, <2>2
    <3> QED
      BY <1>8, <3>1 DEF MapResolves
  <2> QED
    BY <2>1, <2>2
<1> QED
  BY <1>9, <1>10, <1>11 DEF MapResolves

LEMMA ChangedExpects ==
  ASSUME MirrorIInv, MirrorIInv', Trees, Trees', NEW loc \in Locations, Follows(loc),
         NEW n, NEW d, NEW x, NEW mask, Changed(n, d, x, mask), Reported(n, d, x, mask)
  PROVE  DirsExpected(loc)' /\ BelowUnwatched(loc)'
<1>0. /\ n \in Node /\ n # d /\ mask \in {"create", "modify", "delete"} /\ x \in Name /\ d \in Dir
      /\ d = Root \/ (Live(d) /\ d \in DirNode /\ at[d][1] = Root)
      /\ pc = "read" /\ pc' = "read" /\ backup' = backup
      /\ mask = "delete" => at'[n] = Nowhere /\ watched' = watched \ {n}
      /\ mask # "delete" => watched' = watched /\ at'[n] = <<d, x>>
      /\ mask # "create" => at[n] = <<d, x>>
      /\ mask = "modify" => n \notin DirNode
      /\ \A m \in Node : m # n => at'[m] = at[m]
  BY DEF Changed
<1>1. PICK q : q = Append(PathOf(d), x)
  OBVIOUS
<1>2. Repathed(n, d, mask, q)
  BY <1>1, ChangedPaths
<1>3. Promised(loc, n, d, x, mask, q)
  BY <1>1, ReportedPromises
<1>4. /\ Geography /\ Geography' /\ Root \in watched /\ DirsExpected(loc) /\ BelowUnwatched(loc)
      /\ GoneCleared(loc) /\ Watching(loc)
  BY <1>0, GeographyHolds, GeographyNext, DeadDropped DEF MirrorIInv, Follows, Settling
<1>5. \A w : ~InTarget(w) /\ ~InTarget(w)'
  BY <1>0 DEF InTarget
<1>6. /\ \A i \in Queue : /\ i \in Queue' /\ events'[i] = events[i]
                          /\ Copies(i)' <=> Copies(i)
                          /\ Drops(i)' <=> Drops(i)
                          /\ EventAt(loc, i)' = EventAt(loc, i)
      /\ \A i \in Queue' : i \notin Queue /\ Drops(i)' => mask = "delete" /\ EventAt(loc, i)' = q
      /\ \A p : Cleared(loc, p) => Cleared(loc, p)'
  BY <1>3 DEF Promised
<1>7. ASSUME NEW w \in DirNode, Live(w), w # n, Awaited(loc, w) PROVE Awaited(loc, w)'
  <2>1. Live(w)' /\ PathOf(w)' = PathOf(w) /\ at'[w] = at[w]
    BY <1>0, <1>2, <1>7 DEF Repathed, Live
  <2>2. PICK i \in Queue :
           /\ Copies(i) /\ events[i].wd = at[w][1] /\ events[i].name = at[w][2]
           /\ \A j \in Queue : j > i /\ Drops(j) => ~IsPrefix(EventAt(loc, j), PathOf(w))
    BY <1>7 DEF Awaited
  <2>3. ASSUME NEW j \in Queue', j > i, Drops(j)' PROVE ~IsPrefix(EventAt(loc, j)', PathOf(w)')
    <3>1. CASE j \in Queue
      <4>1. Drops(j) /\ EventAt(loc, j)' = EventAt(loc, j)
        BY <1>6, <2>3, <3>1
      <4> QED
        BY <2>1, <2>2, <2>3, <3>1, <4>1
    <3>2. CASE j \notin Queue
      <4>1. mask = "delete" /\ EventAt(loc, j)' = q
        BY <1>6, <2>3, <3>2
      <4>2. PathOf(n) = q /\ Live(n) /\ Source(q)' = "none"
        BY <1>2, <4>1 DEF Repathed
      <4>3. ~IsPrefix(PathOf(n), PathOf(w))
        <5> SUFFICES ASSUME IsPrefix(PathOf(n), PathOf(w)) PROVE FALSE
          OBVIOUS
        <5>1. at[w][1] = n
          BY <1>4, <1>7, <4>2 DEF Geography, BelowFacts
        <5> QED
          BY <1>7, <5>1 DEF Changed, Under, Live
      <4> QED
        BY <2>1, <4>1, <4>2, <4>3
    <3> QED
      BY <3>1, <3>2
  <2>4. i \in Queue' /\ Copies(i)' /\ events'[i].wd = at'[w][1] /\ events'[i].name = at'[w][2]
    BY <1>6, <2>1, <2>2
  <2> QED
    BY <2>3, <2>4 DEF Awaited
<1>8. ASSUME NEW w \in DirNode, Live(w)', w \notin watched'
      PROVE  /\ w # n => Live(w) /\ w \notin watched /\ at'[w] = at[w] /\ PathOf(w)' = PathOf(w)
             /\ w = n => mask = "create" /\ PathOf(w)' = q /\ at'[w] = <<d, x>>
  <2>1. ASSUME w # n PROVE Live(w) /\ w \notin watched /\ at'[w] = at[w] /\ PathOf(w)' = PathOf(w)
    <3>1. Live(w) /\ PathOf(w)' = PathOf(w)
      BY <1>2, <1>8, <2>1 DEF Repathed
    <3> QED
      BY <1>0, <1>8, <2>1, <3>1 DEF Live
  <2>2. ASSUME w = n PROVE mask = "create" /\ PathOf(w)' = q /\ at'[w] = <<d, x>>
    <3>1. mask # "delete" /\ mask # "modify"
      BY <1>0, <1>8, <2>2 DEF Live
    <3> QED
      BY <1>0, <1>2, <2>2, <3>1 DEF Repathed
  <2> QED
    BY <2>1, <2>2
<1>9. ASSUME NEW w \in DirNode, Live(w)', w \notin watched'
      PROVE  \/ Awaited(loc, w)'
             \/ at'[w][1] # Root /\ at'[w][1] \notin watched' /\ \E u : u = at'[w][1] /\ Awaited(loc, u)'
  <2>1. CASE w # n
    <3>1. Live(w) /\ w \notin watched /\ at'[w] = at[w] /\ PathOf(w)' = PathOf(w)
      BY <1>8, <1>9, <2>1
    <3>2. \/ Awaited(loc, w)
          \/ at[w][1] # Root /\ at[w][1] \notin watched /\ Awaited(loc, at[w][1])
      BY <1>4, <1>5, <3>1 DEF DirsExpected
    <3>3. CASE Awaited(loc, w)
      BY <1>7, <2>1, <3>1, <3>3
    <3>4. CASE at[w][1] # Root /\ at[w][1] \notin watched /\ Awaited(loc, at[w][1])
      <4>1. PICK u : u = at[w][1]
        OBVIOUS
      <4>2. Live(u) /\ u \in DirNode
        BY <1>4, <3>1, <3>4, <4>1 DEF Geography, BelowFacts
      <4>3. u # n
        BY <3>1, <4>1 DEF Changed, Under, Live
      <4>4. Awaited(loc, u)'
        BY <1>7, <3>4, <4>1, <4>2, <4>3
      <4>5. at'[w][1] = u
        BY <3>1, <4>1
      <4>6. u # Root /\ u \notin watched'
        BY <1>0, <3>4, <4>1
      <4> QED
        BY <4>4, <4>5, <4>6
    <3> QED
      BY <3>2, <3>3, <3>4
  <2>2. CASE w = n
    <3>1. mask = "create" /\ PathOf(w)' = q /\ at'[w] = <<d, x>>
      BY <1>8, <1>9, <2>2
    <3>2. CASE d \in watched
      <4>1. PICK l \in Queue' : l \notin Queue /\ l = Len(events') /\ Copies(l)'
        BY <1>3, <3>1, <3>2 DEF Promised
      <4>2. events'[l].wd = d /\ events'[l].name = x
        BY <3>2, <4>1 DEF Reported
      <4>3. \A j \in Queue' : ~(j > l)
        BY <4>1 DEF Queue, Reported
      <4>4. at'[w][1] = d /\ at'[w][2] = x
        BY <3>1
      <4> QED
        BY <4>1, <4>2, <4>3, <4>4 DEF Awaited
    <3>3. CASE d \notin watched
      <4>1. d # Root /\ Live(d) /\ d \in DirNode /\ at[d][1] = Root
        BY <1>0, <1>4, <3>3
      <4>2. q \in Path /\ Len(q) = 2 /\ Front(q) = PathOf(d)
        BY <1>2, <4>1 DEF Repathed
      <4>3. Awaited(loc, d)
        BY <1>0, <1>1, <3>3, <4>1, <4>2, UnwatchedDue
      <4>4. Awaited(loc, d)'
        BY <1>0, <1>7, <4>1, <4>3
      <4>5. at'[w][1] = d /\ d \notin watched'
        BY <1>0, <3>1, <3>3
      <4> QED
        BY <4>1, <4>4, <4>5
    <3> QED
      BY <3>2, <3>3
  <2> QED
    BY <2>1, <2>2
<1>10. DirsExpected(loc)'
  <2>1. ASSUME NEW w, NEW u, u = at'[w][1], Awaited(loc, u)' PROVE Awaited(loc, at[w][1])'
    BY <2>1 DEF Awaited, PathOf, EventAt
  <2> QED
    BY <1>9, <2>1 DEF DirsExpected
<1>11. BelowUnwatched(loc)'
  <2> SUFFICES ASSUME NEW w \in DirNode, Live(w)', w \notin watched', NEW p \in Path,
                      Len(p) = 2, Front(p) = PathOf(w)', backup[p] # "none"
               PROVE  Cleared(loc, p)'
    BY <1>0 DEF BelowUnwatched
  <2>1. CASE w # n
    <3>1. Live(w) /\ w \notin watched /\ PathOf(w)' = PathOf(w)
      BY <1>8, <2>1
    <3>2. Cleared(loc, p)
      BY <1>4, <1>5, <3>1 DEF BelowUnwatched
    <3> QED
      BY <1>6, <3>2
  <2>2. CASE w = n
    <3>1. mask = "create" /\ Front(p) = q
      BY <1>8, <2>2
    <3>2. Source(q) = "none"
      BY <1>2, <3>1 DEF Repathed
    <3>3. Source(p) = "none"
      BY <1>4, <3>1, <3>2 DEF Geography, BelowFacts
    <3>4. Cleared(loc, p)
      BY <1>4, <3>3 DEF GoneCleared
    <3> QED
      BY <1>6, <3>4
  <2> QED
    BY <2>1, <2>2
<1> QED
  BY <1>10, <1>11

LEMMA ChangedFollows ==
  ASSUME MirrorIInv, MirrorIInv', Trees, Trees', NEW loc \in Locations, Follows(loc),
         NEW n, NEW d, NEW x, NEW mask, Changed(n, d, x, mask), Reported(n, d, x, mask)
  PROVE  Follows(loc)'
BY ChangedSettles, ChangedQueue, ChangedMap, ChangedExpects DEF Follows

-----------------------------------------------------------------------------
(* The operations of the user that change one entry.                       *)

\* A patient user works below the root or below a directory at its top.
LEMMA WorkedIn ==
  ASSUME MirrorIInv, Trees, PatientUser, NEW d, Holds(d),
         NEW op \in {"create", "write", "delete", "rename"}, User(In(d, op))
  PROVE  /\ d \in Dir /\ (d = Root \/ (Live(d) /\ d \in DirNode /\ at[d][1] = Root))
         /\ ~Away(d) /\ User(op)
<1>1. ~Away(d)
  <2> SUFFICES ASSUME Away(d) PROVE FALSE
    OBVIOUS
  <2>1. In(d, op) = "elsewhere"
    BY DEF In
  <2>2. User("elsewhere")
    BY <2>1
  <2>3. "elsewhere" \in {"create", "write", "delete"} \/ ("elsewhere" = "rename" /\ events = <<>>)
    BY <2>2, Patience
  <2> QED
    BY <2>3
<1>2. d # Outside /\ (d \in DirNode /\ at[d] # Nowhere => at[d][1] # Outside)
  BY <1>1 DEF Away
<1>3. \/ d = Root
      \/ d \in DirNode /\ at[d] # Nowhere /\ at[d][1] = Root
  BY <1>2 DEF Holds
<1>4. d \in DirNode /\ at[d] # Nowhere /\ at[d][1] = Root => Live(d)
  BY Nodes DEF Live
<1>5. In(d, op) = op
  BY <1>1 DEF In
<1> QED
  BY <1>1, <1>3, <1>4, <1>5 DEF Dir

LEMMA EventsSet == ASSUME MirrorIInv PROVE events \in Seq(EventSet)
<1>1. events \in Seq(SoundEvent) /\ \A i \in 1..Len(events) : events[i] \in SoundEvent
  BY InvParts
<1>2. \A i \in 1..Len(events) : events[i] \in EventSet
  BY <1>1 DEF SoundEvent
<1> QED
  BY <1>1, <1>2, SeqWithin

\* One event, or none.
LEMMA OneEvent ==
  ASSUME NEW mask, NEW d, NEW x, NEW cookie
  PROVE  IF d \in watched
         THEN /\ Len(Event(mask, d, x, cookie)) = 1
              /\ Event(mask, d, x, cookie)[1] = [mask |-> mask, wd |-> d, name |-> x, cookie |-> cookie]
         ELSE Event(mask, d, x, cookie) = <<>> /\ Len(Event(mask, d, x, cookie)) = 0
<1>1. CASE d \in watched
  BY <1>1 DEF Event
<1>2. CASE d \notin watched
  <2>1. Len(<<>>) = 0
    OBVIOUS
  <2> QED
    BY <1>2, <2>1 DEF Event
<1> QED
  BY <1>1, <1>2

LEMMA Reports ==
  ASSUME MirrorIInv, NEW n, NEW d, NEW x \in Name, NEW mask \in {"create", "modify", "delete"},
         NEW self \in Seq(EventSet),
         \A k \in 1..Len(self) : self[k].mask \in SelfMasks /\ self[k].wd = n,
         events' = (events \o self) \o Event(mask, d, x, NoCookie)
  PROVE  Reported(n, d, x, mask)
<1> DEFINE ev == Event(mask, d, x, NoCookie)
<1>1. ev \in Seq(EventSet)
  BY InvParts, EventTyped DEF Masks, SelfMasks, Cookie
<1>2. IF d \in watched THEN Len(ev) = 1 /\ ev[1].mask = mask /\ ev[1].wd = d /\ ev[1].name = x
      ELSE Len(ev) = 0
  <2>1. CASE d \in watched
    <3>1. Len(ev) = 1 /\ ev[1] = [mask |-> mask, wd |-> d, name |-> x, cookie |-> NoCookie]
      BY <2>1, OneEvent
    <3> HIDE DEF ev
    <3> QED
      BY <2>1, <3>1
  <2>2. CASE d \notin watched
    BY <2>2, OneEvent
  <2> QED
    BY <2>1, <2>2
<1> HIDE DEF ev
<1>3. events \in Seq(EventSet) /\ Len(events) \in Nat /\ Len(self) \in Nat /\ Len(ev) \in Nat
  BY <1>1, EventsSet, LenProperties
<1>4. /\ events \o self \in Seq(EventSet) /\ Len(events \o self) = Len(events) + Len(self)
      /\ \A i \in 1..Len(events) + Len(self) :
            (events \o self)[i] = IF i <= Len(events) THEN events[i] ELSE self[i - Len(events)]
  BY <1>3, ConcatProperties
<1>5. /\ Len(events') = Len(events) + Len(self) + Len(ev)
      /\ \A i \in 1..Len(events) + Len(self) + Len(ev) :
            events'[i] = IF i <= Len(events) + Len(self) THEN (events \o self)[i]
                         ELSE ev[i - (Len(events) + Len(self))]
  <2>1. events' = (events \o self) \o ev
    BY DEF ev
  <2> QED
    BY <1>1, <1>3, <1>4, <2>1, ConcatProperties
<1>6. Queue = 1..Len(events) /\ Queue' = 1..Len(events')
  BY DEF Queue
<1>7. \A i \in Queue : i \in Queue' /\ events'[i] = events[i]
  BY <1>3, <1>4, <1>5, <1>6
<1>8. ASSUME NEW i \in Queue', i \notin Queue
      PROVE  /\ i > Len(events)
             /\ \/ /\ d \in watched /\ i = Len(events')
                   /\ events'[i].mask = mask /\ events'[i].wd = d /\ events'[i].name = x
                \/ events'[i].mask \in SelfMasks /\ events'[i].wd = n
  <2>1. i > Len(events) /\ i \in Nat /\ i <= Len(events) + Len(self) + Len(ev)
    BY <1>3, <1>5, <1>6, <1>8
  <2>2. CASE i <= Len(events) + Len(self)
    <3>1. i \in 1..Len(events) + Len(self) /\ i - Len(events) \in 1..Len(self)
      BY <1>3, <2>1, <2>2
    <3>2. events'[i] = self[i - Len(events)]
      BY <1>3, <1>4, <1>5, <2>1, <2>2, <3>1
    <3> QED
      BY <2>1, <3>1, <3>2
  <2>3. CASE i > Len(events) + Len(self)
    <3>1. d \in watched /\ Len(ev) = 1
      BY <1>2, <1>3, <2>1, <2>3
    <3>2. i = Len(events') /\ i - (Len(events) + Len(self)) = 1
      BY <1>3, <1>5, <2>1, <2>3, <3>1
    <3>3. events'[i] = ev[1]
      BY <1>3, <1>5, <2>1, <2>3, <3>2
    <3> QED
      BY <1>2, <2>1, <3>1, <3>2, <3>3
  <2>4. i <= Len(events) + Len(self) \/ i > Len(events) + Len(self)
    BY <1>3, <2>1
  <2> QED
    BY <2>2, <2>3, <2>4
<1>9. ASSUME d \in watched
      PROVE  /\ Len(events') > Len(events)
             /\ events'[Len(events')].mask = mask /\ events'[Len(events')].wd = d
             /\ events'[Len(events')].name = x
  <2>1. Len(ev) = 1
    BY <1>2, <1>9
  <2>2. PICK i \in Nat : i = Len(events) + Len(self) + 1
    BY <1>3
  <2>3. i = Len(events') /\ i > Len(events) /\ i > Len(events) + Len(self) /\ i - (Len(events) + Len(self)) = 1
    BY <1>3, <1>5, <2>1, <2>2
  <2>4. events'[i] = ev[1]
    BY <1>3, <1>5, <2>1, <2>2, <2>3
  <2> QED
    BY <1>2, <1>9, <2>3, <2>4
<1>10. Len(events) \in Nat /\ Len(events') \in Nat /\ Len(events) <= Len(events')
  BY <1>3, <1>5
<1> QED
  BY <1>7, <1>8, <1>9, <1>10 DEF Reported

LEMMA NothingReported ==
  ASSUME MirrorIInv
  PROVE  events \o <<>> = events /\ <<>> \in Seq(EventSet) /\ Len(<<>>) = 0 /\ 1..0 = {}
<1>1. events \o <<>> = events
  BY EventsSet, ConcatEmptySeq
<1> QED
  BY <1>1

LEMMA CreateFollows ==
  ASSUME MirrorIInv, MirrorIInv', Trees, Trees', NEW loc \in Locations, Follows(loc), PatientUser,
         NEW n \in Node, NEW d \in Dir \cup {Outside}, NEW x \in Name, Create(n, d, x)
  PROVE  Follows(loc)'
<1>1. /\ User(In(d, "create")) /\ Fresh(n) /\ at[n] = Nowhere /\ Holds(d) /\ Free(d, x)
      /\ at' = [at EXCEPT ![n] = <<d, x>>]
      /\ events' = events \o Event("create", d, x, NoCookie)
      /\ UNCHANGED <<data, rootExists, watched>>
  BY DEF Create, Fresh
<1>2. d \in Dir /\ (d = Root \/ (Live(d) /\ d \in DirNode /\ at[d][1] = Root)) /\ User("create")
  BY <1>1, WorkedIn
<1>3. pc = "read" /\ UNCHANGED <<backup, pc, target, map, pending>>
  BY <1>2, Patience
<1>4. Under(n) = {} /\ d # n
  BY <1>1, <1>2, NothingUnder, Nodes DEF Live
<1>5. at'[n] = <<d, x>> /\ \A m \in Node : m # n => at'[m] = at[m]
  BY <1>1, InvParts
<1>6. Changed(n, d, x, "create")
  BY <1>1, <1>2, <1>3, <1>4, <1>5 DEF Changed
<1>7. Reported(n, d, x, "create")
  BY <1>1, NothingReported, Reports
<1> QED
  BY <1>6, <1>7, ChangedFollows

LEMMA WriteFollows ==
  ASSUME MirrorIInv, MirrorIInv', Trees, Trees', NEW loc \in Locations, Follows(loc), PatientUser,
         NEW f \in FileNode, Write(f)
  PROVE  Follows(loc)'
<1>1. /\ at[f] # Nowhere /\ User(In(at[f][1], "write"))
      /\ data' = [data EXCEPT ![f] = IF @ = "v1" THEN "v2" ELSE "v1"]
      /\ events' = events \o Event("modify", at[f][1], at[f][2], NoCookie)
      /\ UNCHANGED <<at, rootExists, watched>>
  BY DEF Write
<1>2. f \in Node /\ f \notin DirNode
  BY Nodes, MirrorAssumption
<1>3. PICK d \in Dir \cup {Outside}, x \in Name : at[f] = <<d, x>>
  BY <1>1, <1>2, InvParts DEF Place
<1>4. at[f][1] = d /\ at[f][2] = x
  BY <1>3
<1>5. Holds(d)
  BY <1>1, <1>2, <1>4 DEF Trees
<1>6. d \in Dir /\ (d = Root \/ (Live(d) /\ d \in DirNode /\ at[d][1] = Root)) /\ User("write")
  BY <1>1, <1>4, <1>5, WorkedIn
<1>7. pc = "read" /\ UNCHANGED <<backup, pc, target, map, pending>>
  BY <1>6, Patience
<1>8. Under(f) = {} /\ d # f
  BY <1>2, <1>6, NothingUnder, Nodes
<1>9. \A g \in FileNode : g # f => data'[g] = data[g]
  BY <1>1, InvParts
<1>10. Changed(f, d, x, "modify")
  BY <1>1, <1>2, <1>3, <1>6, <1>7, <1>8, <1>9 DEF Changed
<1>11. Reported(f, d, x, "modify")
  BY <1>1, <1>4, NothingReported, Reports
<1> QED
  BY <1>10, <1>11, ChangedFollows

LEMMA DeleteFollows ==
  ASSUME MirrorIInv, MirrorIInv', Trees, Trees', NEW loc \in Locations, Follows(loc), PatientUser,
         NEW n \in Node, Delete(n)
  PROVE  Follows(loc)'
<1>1. /\ at[n] # Nowhere /\ Under(n) = {} /\ User(In(at[n][1], "delete"))
      /\ at' = [at EXCEPT ![n] = Nowhere]
      /\ watched' = watched \ {n}
      /\ events' = events \o SelfGone(n) \o Event("delete", at[n][1], at[n][2], NoCookie)
      /\ UNCHANGED <<data, rootExists>>
  BY DEF Delete
<1>3. PICK d \in Dir \cup {Outside}, x \in Name : at[n] = <<d, x>>
  BY <1>1, InvParts DEF Place
<1>4. at[n][1] = d /\ at[n][2] = x
  BY <1>3
<1>5. Holds(d)
  BY <1>1, <1>4 DEF Trees
<1>6. d \in Dir /\ (d = Root \/ (Live(d) /\ d \in DirNode /\ at[d][1] = Root)) /\ User("delete")
  BY <1>1, <1>4, <1>5, WorkedIn
<1>7. pc = "read" /\ UNCHANGED <<backup, pc, target, map, pending>>
  BY <1>6, Patience
<1>8. d # n
  BY <1>1, <1>4 DEF Under
<1>9. at'[n] = Nowhere /\ \A m \in Node : m # n => at'[m] = at[m]
  BY <1>1, InvParts
<1>10. Changed(n, d, x, "delete")
  BY <1>1, <1>3, <1>6, <1>7, <1>8, <1>9 DEF Changed
<1>11. PICK self \in Seq(EventSet) :
         self = SelfGone(n) /\ \A k \in 1..Len(self) : self[k].mask \in SelfMasks /\ self[k].wd = n
  <2> DEFINE S == {e \in EventSet : e.mask \in SelfMasks /\ e.wd = n}
  <2>1. SelfGone(n) \in Seq(S)
    BY InvParts, SelfGoneTyped
  <2>2. \A k \in 1..Len(SelfGone(n)) : SelfGone(n)[k] \in S
    BY <2>1, ElementOfSeq
  <2>3. \A e \in S : e \in EventSet /\ e.mask \in SelfMasks /\ e.wd = n
    OBVIOUS
  <2> HIDE DEF S
  <2>4. SelfGone(n) \in Seq(EventSet)
    BY <2>1, <2>2, <2>3, SeqWithin
  <2> QED
    BY <2>2, <2>3, <2>4
<1>12. Reported(n, d, x, "delete")
  BY <1>1, <1>4, <1>11, Reports
<1> QED
  BY <1>10, <1>12, ChangedFollows

\* Nothing is queued: the child has caught up.
CaughtUp(loc) ==
    /\ pending = NoCookie /\ Queue = {} /\ ~Moving
    /\ \A p \in Path : backup[p] = Source(p)
    /\ \A d \in DirNode : Live(d) => d \in watched
    /\ Root \in watched /\ watched \subseteq Dir
    /\ \A w \in watched : (w = Root \/ Live(w)) /\ loc[w] = PathOf(w) /\ Known(w)
    /\ \A w \in watched : \A i \in Indices(w) : map[i].path = PathOf(w)
    /\ \A n \in Node : at[n] # Nowhere /\ n \notin watched => ~Known(n)

LEMMA IdleCaughtUp ==
  ASSUME MirrorIInv, Trees, NEW loc \in Locations, Follows(loc), pc = "read", events = <<>>
  PROVE  CaughtUp(loc)
<1>1. Queue = {}
  <2>1. Len(<<>>) = 0 /\ 1..0 = {}
    OBVIOUS
  <2> QED
    BY <2>1 DEF Queue
<1>2. pending = NoCookie /\ ~Moving
  BY DEF Follows, RenamesFirst, Moving
<1>3. \A p : ~Cleared(loc, p) /\ ~Due(loc, p)
  BY <1>1 DEF Cleared, Due, DueBefore
<1>4. \A p \in Path : backup[p] = Source(p)
  BY <1>3 DEF Follows, Settling, GoneCleared, ThereDue
<1>5. \A d : ~InTarget(d) /\ ~Awaited(loc, d)
  BY <1>1 DEF InTarget, Awaited
<1>6. \A d \in DirNode : Live(d) => d \in watched
  BY <1>5 DEF Follows, DirsExpected
<1>7. Root \in watched /\ watched \subseteq Dir
      /\ \A w \in watched : (w = Root \/ Live(w)) /\ loc[w] = PathOf(w)
  BY DEF Follows, Watching
<1>8. watched \subseteq Named /\ \A p : Resolved(loc, p) = p
  BY <1>2 DEF Named, Resolved
<1>9. \A w \in watched : Known(w) /\ \A i \in Indices(w) : map[i].path = PathOf(w)
  BY <1>7, <1>8 DEF Follows, MapResolves
<1>10. \A n \in Node : at[n] # Nowhere /\ n \notin watched => ~Known(n)
  BY DEF Follows, MapResolves
<1> QED
  BY <1>1, <1>2, <1>4, <1>6, <1>7, <1>9, <1>10 DEF CaughtUp

\* A path tells the place of what is there.
LEMMA PathPlace ==
  ASSUME Geography, Trees, NEW m, Live(m), NEW d, NEW x \in Name,
         d = Root \/ (Live(d) /\ d \in DirNode /\ at[d][1] = Root),
         PathOf(m) = Append(PathOf(d), x)
  PROVE  at[m] = <<d, x>>
<1>1. CASE d = Root
  <2>1. Append(<<>>, x) = <<x>> /\ Len(<<x>>) = 1
    OBVIOUS
  <2>2. PathOf(m) = <<x>> /\ Len(PathOf(m)) = 1
    BY <1>1, <2>1 DEF PathOf
  <2>3. at[m] = <<Root, at[m][2]>> /\ PathOf(m) = <<at[m][2]>>
    <3>1. \A y, z : Len(<<y, z>>) = 2
      OBVIOUS
    <3> QED
      BY <2>2, <3>1 DEF Geography, LiveFacts
  <2>4. at[m][2] = x
    <3>1. <<at[m][2]>> = <<x>>
      BY <2>2, <2>3
    <3> QED
      BY <3>1
  <2> QED
    BY <1>1, <2>3, <2>4
<1>2. CASE d # Root
  <2>1. Live(d) /\ d \in DirNode /\ at[d][1] = Root /\ d \in Node /\ at[d] # Nowhere
    BY <1>2 DEF Live
  <2>2. PathOf(d) = <<at[d][2]>> /\ at[d][2] \in Name /\ at[d] = <<Root, at[d][2]>>
    <3>1. PathOf(d) = <<at[d][2]>>
      BY <1>2, <2>1 DEF PathOf
    <3>2. at[d][2] \in Name
      BY <2>1 DEF Geography, LiveFacts
    <3>3. at[d] = <<at[d][1], at[d][2]>>
      BY <2>1 DEF Geography, LiveFacts
    <3> QED
      BY <2>1, <3>1, <3>2, <3>3
  <2>3. PathOf(m) = <<at[d][2], x>>
    BY <2>2, AppendPair
  <2> DEFINE e == at[m][1]
  <2>4. /\ at[m] = <<e, at[m][2]>> /\ PathOf(m) = <<at[e][2], at[m][2]>>
        /\ e \in DirNode /\ Live(e) /\ at[e] = <<Root, at[e][2]>>
    <3>1. Len(PathOf(m)) = 2
      BY <2>3
    <3>2. LiveFacts
      BY DEF Geography
    <3>3. ~(at[m] = <<Root, at[m][2]>> /\ PathOf(m) = <<at[m][2]>>)
      <4> SUFFICES ASSUME PathOf(m) = <<at[m][2]>> PROVE FALSE
        OBVIOUS
      <4>1. Len(PathOf(m)) = 1
        OBVIOUS
      <4> QED
        BY <3>1, <4>1
    <3> QED
      BY <3>2, <3>3 DEF LiveFacts
  <2>5. at[e][2] = at[d][2] /\ at[m][2] = x
    <3>1. <<at[e][2], at[m][2]>> = <<at[d][2], x>>
      BY <2>3, <2>4
    <3> QED
      BY <3>1
  <2>6. e \in Node /\ at[e] = at[d]
    BY <2>2, <2>4, <2>5, Nodes
  <2>7. e = d
    BY <2>1, <2>6 DEF Trees
  <2> QED
    BY <2>4, <2>5, <2>7
<1> QED
  BY <1>1, <1>2

-----------------------------------------------------------------------------
(* The user renames n to the entry x of d, once the child has caught up.   *)

Renamed(n, d, x) ==
    /\ n \in Node /\ at[n] # Nowhere /\ d \in Dir /\ x \in Name /\ d # n
    /\ d = Root \/ (Live(d) /\ d \in DirNode /\ at[d][1] = Root)
    /\ d \in DirNode => Under(n) = {}
    /\ at'[n] = <<d, x>> /\ at[n] # <<d, x>>
    /\ \A m \in Node : m # n => at'[m] = IF at[m] = <<d, x>> THEN Nowhere ELSE at[m]
    /\ \A m \in Node : at[m] = <<d, x>> => m \notin DirNode /\ n \notin DirNode
    /\ UNCHANGED <<data, watched, backup, pc, target, map, pending>> /\ pc = "read"

\* A rename within the source has two events, one into it has one.
RenameReported(n, d, x) ==
    /\ events = <<>> /\ events' # <<>>
    /\ Live(n) =>
          /\ Len(events') = 2
          /\ events'[1].mask = "moved_from" /\ events'[1].wd = at[n][1] /\ events'[1].name = at[n][2]
          /\ events'[2].mask = "moved_to" /\ events'[2].wd = d /\ events'[2].name = x
          /\ events'[2].cookie = events'[1].cookie /\ events'[1].cookie # NoCookie
    /\ ~Live(n) =>
          /\ Len(events') = 1
          /\ events'[1].mask = "moved_to" /\ events'[1].wd = d /\ events'[1].name = x

\* n and what is below it get new paths, and what was at the new one is gone.
Relocated(n, d, x, b) ==
    /\ b \in Path /\ Live(n)' /\ PathOf(n)' = b
    /\ d = Root => b = <<x>> /\ Len(b) = 1
    /\ d # Root => Len(b) = 2
    /\ \A m : Live(m)' <=> \/ m = n
                           \/ m \in Node /\ at[m] # Nowhere /\ at[m][1] = n
                           \/ Live(m) /\ at[m] # <<d, x>>
    /\ \A m : m = Root \/ (Live(m) /\ m # n /\ at[m][1] # n /\ at[m] # <<d, x>>)
                 => PathOf(m)' = PathOf(m)
    /\ \A m \in Node : at[m] # Nowhere /\ at[m][1] = n =>
          /\ PathOf(m)' = <<x, at[m][2]>> /\ d = Root /\ at[m][2] \in Name
          /\ Live(m) <=> Live(n)
          /\ Live(n) => at[n][1] = Root
    /\ \A m : Live(m) /\ PathOf(m) = b => at[m] = <<d, x>>
    /\ Live(n) => PathOf(n) # b

LEMMA RenamedPaths ==
  ASSUME MirrorIInv, MirrorIInv', Trees, Trees', NEW n, NEW d, NEW x, Renamed(n, d, x),
         NEW b, b = Append(PathOf(d), x)
  PROVE  Relocated(n, d, x, b)
<1>0. /\ n \in Node /\ at[n] # Nowhere /\ d \in Dir /\ x \in Name /\ d # n
      /\ d = Root \/ (Live(d) /\ d \in DirNode /\ at[d][1] = Root)
      /\ d \in DirNode => Under(n) = {}
      /\ at'[n] = <<d, x>> /\ at[n] # <<d, x>>
      /\ \A m \in Node : m # n => at'[m] = IF at[m] = <<d, x>> THEN Nowhere ELSE at[m]
      /\ \A m \in Node : at[m] = <<d, x>> => m \notin DirNode /\ n \notin DirNode
  BY DEF Renamed
<1>1. Geography /\ Geography' /\ <<d, x>> # Nowhere
  BY <1>0, GeographyHolds, GeographyNext, Nodes DEF MirrorIInv
<1>2. at'[n] # Nowhere /\ at'[n][1] = d /\ at'[n][2] = x
  BY <1>0, <1>1
<1>3. d # Root => at'[d] = at[d] /\ at[d] # Nowhere /\ d \in Node
  BY <1>0 DEF Live
<1>4. ASSUME d = Root PROVE b = <<x>> /\ Len(b) = 1 /\ PathOf(n)' = b
  <2>1. Append(<<>>, x) = <<x>>
    BY <1>0
  <2>2. b = <<x>>
    BY <1>4, <2>1 DEF PathOf
  <2> QED
    BY <1>0, <1>2, <1>4, <2>2, Nodes DEF PathOf
<1>5. ASSUME d # Root PROVE Len(b) = 2 /\ PathOf(n)' = b
  <2>1. PathOf(d) = <<at[d][2]>> /\ at[d][2] \in Name
    BY <1>0, <1>1, <1>5 DEF PathOf, Geography, LiveFacts
  <2>2. b = <<at[d][2], x>>
    BY <1>0, <2>1, AppendPair
  <2>3. PathOf(n)' = <<at'[d][2], x>>
    BY <1>0, <1>2, <1>5, Nodes DEF PathOf
  <2> QED
    BY <1>3, <1>5, <2>2, <2>3
<1>6. Live(n)' /\ PathOf(n)' = b
  <2>1. Live(n)'
    BY <1>0, <1>2, <1>3 DEF Live
  <2> QED
    BY <1>4, <1>5, <2>1
<1>7. b \in Path
  <2>1. PathOf(n)' \in Path
    BY <1>1, <1>6 DEF Geography, AtFacts
  <2> QED
    BY <1>6, <2>1
<1>8. ASSUME NEW m \in Node, at[m] # Nowhere, at[m][1] = n
      PROVE  /\ m # n /\ at'[m] = at[m] /\ n \in DirNode /\ d = Root /\ at[m][2] \in Name
             /\ Live(m)' /\ PathOf(m)' = <<x, at[m][2]>>
             /\ (Live(m) <=> Live(n)) /\ (Live(n) => at[n][1] = Root)
  <2>1. m \in Under(n) /\ Holds(n)
    BY <1>8 DEF Under, Trees
  <2>2. n \in DirNode /\ at[n][1] \in {Root, Outside}
    BY <1>0, <2>1, Nodes, MirrorAssumption DEF Holds
  <2>3. d = Root /\ m # n
    BY <1>0, <1>8, <2>1, <2>2 DEF Trees
  <2>4. at'[m] = at[m]
    <3>1. at[m] # <<d, x>>
      BY <1>0, <2>2
    <3> QED
      BY <1>0, <2>3, <3>1
  <2>5. at[m][2] \in Name
    BY <1>8, InvParts DEF Place
  <2>6. Live(m)' /\ PathOf(m)' = <<x, at[m][2]>>
    <3>1. n # Root /\ m # Root
      BY <1>0, Nodes
    <3> QED
      BY <1>2, <1>8, <2>2, <2>3, <2>4, <3>1 DEF Live, PathOf
  <2>7. Outside # Root /\ Outside \notin DirNode /\ n # Root
    BY <1>0, Nodes, MirrorAssumption
  <2>8. Live(n) <=> at[n][1] = Root
    BY <1>0, <2>2, <2>7 DEF Live
  <2>9. Live(m) <=> at[n][1] = Root
    BY <1>0, <1>8, <2>2, <2>7 DEF Live
  <2> QED
    BY <2>2, <2>3, <2>4, <2>5, <2>6, <2>8, <2>9
<1>9. ASSUME NEW m \in Node, m # n, at[m][1] # n, at[m] # <<d, x>>
      PROVE  /\ Live(m)' <=> Live(m)
             /\ Live(m) => PathOf(m)' = PathOf(m)
  <2>1. at'[m] = at[m]
    BY <1>0, <1>9
  <2>2. at[m] # Nowhere /\ at[m][1] \in DirNode => at'[at[m][1]] = at[at[m][1]]
    BY <1>0, <1>9, Nodes
  <2>3. Live(m)' <=> Live(m)
    BY <2>1, <2>2 DEF Live
  <2>4. Live(m) => PathOf(m)' = PathOf(m)
    BY <1>9, <2>1, <2>2, Nodes DEF Live, PathOf
  <2> QED
    BY <2>3, <2>4
<1>10. \A m : Live(m)' <=> \/ m = n
                           \/ m \in Node /\ at[m] # Nowhere /\ at[m][1] = n
                           \/ Live(m) /\ at[m] # <<d, x>>
  <2> SUFFICES ASSUME NEW m
               PROVE  Live(m)' <=> \/ m = n
                                   \/ m \in Node /\ at[m] # Nowhere /\ at[m][1] = n
                                   \/ Live(m) /\ at[m] # <<d, x>>
    OBVIOUS
  <2>1. CASE m \notin Node
    BY <1>0, <2>1 DEF Live
  <2>2. CASE m = n
    BY <1>6, <2>2
  <2>3. CASE m \in Node /\ m # n /\ at[m] = <<d, x>>
    <3>1. at'[m] = Nowhere /\ at[m][1] # n
      BY <1>0, <2>3
    <3> QED
      BY <2>3, <3>1 DEF Live
  <2>4. CASE m \in Node /\ m # n /\ at[m] # <<d, x>> /\ at[m][1] = n
    <3>1. CASE at[m] # Nowhere
      BY <1>8, <2>4, <3>1
    <3>2. CASE at[m] = Nowhere
      <4>1. at'[m] = Nowhere
        BY <1>0, <2>4, <3>2
      <4> QED
        BY <2>4, <3>2, <4>1 DEF Live
    <3> QED
      BY <3>1, <3>2
  <2>5. CASE m \in Node /\ m # n /\ at[m] # <<d, x>> /\ at[m][1] # n
    BY <1>9, <2>5
  <2> QED
    BY <2>1, <2>2, <2>3, <2>4, <2>5
<1>11. \A m : m = Root \/ (Live(m) /\ m # n /\ at[m][1] # n /\ at[m] # <<d, x>>)
                 => PathOf(m)' = PathOf(m)
  <2>1. PathOf(Root)' = PathOf(Root)
    BY DEF PathOf
  <2>2. \A m : Live(m) => m \in Node
    BY DEF Live
  <2> QED
    BY <1>9, <2>1, <2>2
<1>12. \A m : Live(m) /\ PathOf(m) = b => at[m] = <<d, x>>
  BY <1>0, <1>1, PathPlace
<1> QED
  BY <1>0, <1>4, <1>5, <1>6, <1>7, <1>8, <1>10, <1>11, <1>12 DEF Relocated

-----------------------------------------------------------------------------
(* The source, the queue and the map after the rename.                     *)

\* What a rename changes of the source: below the new path and below the old one.
LEMMA RenamedSource ==
  ASSUME MirrorIInv, MirrorIInv', Trees, Trees', NEW n, NEW d, NEW x, Renamed(n, d, x),
         NEW b, b = Append(PathOf(d), x), NEW p \in Path
  PROVE  /\ Source(p)' # "none" /\ ~IsPrefix(b, p) =>
               Source(p) = Source(p)' /\ ~(Live(n) /\ IsPrefix(PathOf(n), p))
         /\ Source(p)' = "none" /\ Source(p) # "none" => Live(n) /\ IsPrefix(PathOf(n), p)
         /\ Source(p)' # "none" /\ IsPrefix(b, p) => Compatible(Source(p), Source(p)')
         /\ Source(b) # "dir"
<1>0. /\ n \in Node /\ data' = data /\ x \in Name
      /\ \A m \in Node : at[m] = <<d, x>> => m \notin DirNode /\ n \notin DirNode
  BY DEF Renamed
<1>1. Geography /\ Geography' /\ TypeOK
  BY GeographyHolds, GeographyNext DEF MirrorIInv
<1>2. Relocated(n, d, x, b)
  BY RenamedPaths
<1>3. /\ b \in Path /\ Live(n)' /\ PathOf(n)' = b
      /\ d = Root => b = <<x>> /\ Len(b) = 1
      /\ \A m : Live(m)' <=> \/ m = n
                             \/ m \in Node /\ at[m] # Nowhere /\ at[m][1] = n
                             \/ Live(m) /\ at[m] # <<d, x>>
      /\ \A m : m = Root \/ (Live(m) /\ m # n /\ at[m][1] # n /\ at[m] # <<d, x>>)
                   => PathOf(m)' = PathOf(m)
      /\ \A m \in Node : at[m] # Nowhere /\ at[m][1] = n =>
            /\ PathOf(m)' = <<x, at[m][2]>> /\ d = Root /\ at[m][2] \in Name
            /\ Live(m) <=> Live(n)
            /\ Live(n) => at[n][1] = Root
      /\ \A m : Live(m) /\ PathOf(m) = b => at[m] = <<d, x>>
  BY <1>2 DEF Relocated
<1>4. \A m : Live(m) => m \in Node /\ at[m] # Nowhere
  BY DEF Live
<1>5. \A m : Kind(m)' = Kind(m)
  BY <1>0 DEF Kind
<1>6. \A m : Live(m) => PathOf(m) \in Path /\ Source(PathOf(m)) = Kind(m)
  BY <1>1 DEF Geography, SourceFacts
<1>7. \A m : Live(m)' => Source(PathOf(m))' = Kind(m)'
  BY <1>1 DEF Geography, SourceFacts
<1>8. Source(b) # "dir" /\ (Source(b) # "none" => n \notin DirNode)
  <2> SUFFICES ASSUME Source(b) # "none" PROVE Source(b) # "dir" /\ n \notin DirNode
    OBVIOUS
  <2>1. PICK m : Live(m) /\ PathOf(m) = b
    BY <1>1, <1>3 DEF Geography, SourceFacts
  <2>2. m \in Node /\ m \notin DirNode /\ n \notin DirNode
    BY <1>0, <1>3, <1>4, <2>1
  <2>3. Source(b) = data[m] /\ data[m] \in Version
    BY <1>1, <1>6, <2>1, <2>2, Nodes DEF Kind, TypeOK
  <2> QED
    BY <2>2, <2>3 DEF Version
<1>9. ASSUME Source(p)' # "none", ~IsPrefix(b, p)
      PROVE  Source(p) = Source(p)' /\ ~(Live(n) /\ IsPrefix(PathOf(n), p))
  <2>1. PICK m : Live(m)' /\ PathOf(m)' = p
    BY <1>1, <1>9 DEF Geography, SourceFacts
  <2>2. m # n
    BY <1>3, <1>9, <2>1, SelfPrefix
  <2>3. ~(m \in Node /\ at[m] # Nowhere /\ at[m][1] = n)
    <3> SUFFICES ASSUME m \in Node, at[m] # Nowhere, at[m][1] = n PROVE FALSE
      OBVIOUS
    <3>1. p = <<x, at[m][2]>> /\ b = <<x>> /\ at[m][2] \in Name
      BY <1>3, <2>1
    <3>2. Len(p) = 2 /\ b = Front(p)
      BY <1>0, <3>1, SubPath
    <3> QED
      BY <1>3, <1>9, <3>2, PrefixOf
  <2>4. Live(m) /\ at[m] # <<d, x>> /\ at[m][1] # n
    BY <1>3, <1>4, <2>1, <2>2, <2>3
  <2>5. PathOf(m) = p
    BY <1>3, <2>1, <2>2, <2>4
  <2>6. Source(p) = Kind(m) /\ Source(p)' = Kind(m)'
    BY <1>6, <1>7, <2>1, <2>4, <2>5
  <2>7. Live(n) => ~IsPrefix(PathOf(n), p)
    BY <1>1, <2>2, <2>4, <2>5 DEF Geography, BelowFacts
  <2> QED
    BY <1>5, <2>6, <2>7
<1>10. ASSUME Source(p)' = "none", Source(p) # "none" PROVE Live(n) /\ IsPrefix(PathOf(n), p)
  <2>1. PICK m : Live(m) /\ PathOf(m) = p
    BY <1>1, <1>10 DEF Geography, SourceFacts
  <2>2. CASE m = n
    BY <2>1, <2>2, SelfPrefix
  <2>3. CASE at[m][1] = n
    <3>1. Live(n)
      BY <1>3, <1>4, <2>1, <2>3
    <3> QED
      BY <1>1, <2>1, <2>3, <3>1 DEF Geography, BelowFacts
  <2>4. CASE m # n /\ at[m][1] # n /\ at[m] # <<d, x>>
    <3>1. Live(m)' /\ PathOf(m)' = p
      BY <1>3, <2>1, <2>4
    <3> QED
      BY <1>1, <1>10, <3>1 DEF Geography, SourceFacts
  <2>5. CASE at[m] = <<d, x>>
    <3>1. p = b
      <4>1. CASE d = Root
        <5>1. at[m][1] = Root /\ at[m][2] = x /\ m # Root
          BY <1>4, <2>1, <2>5, <4>1, Nodes
        <5>2. PathOf(m) = <<x>>
          BY <5>1 DEF PathOf
        <5> QED
          BY <1>3, <2>1, <4>1, <5>2
      <4>2. CASE d # Root
        <5>1. at[m][1] = d /\ at[m][2] = x
          BY <2>5
        <5> QED
          BY <1>1, <2>1, <5>1, ChildPath
      <4> QED
        BY <4>1, <4>2
    <3>2. Source(b)' # "none"
      BY <1>1, <1>3 DEF Geography, SourceFacts
    <3> QED
      BY <1>10, <3>1, <3>2
  <2> QED
    BY <2>2, <2>3, <2>4, <2>5
<1>11. ASSUME Source(p)' # "none", IsPrefix(b, p) PROVE Compatible(Source(p), Source(p)')
  <2>1. CASE Source(p) = "none"
    BY <2>1 DEF Compatible
  <2>2. CASE Source(p) # "none" /\ p = b
    <3>1. n \notin DirNode /\ Source(p) # "dir"
      BY <1>8, <2>2
    <3>2. Source(b)' = data[n] /\ data[n] \in Version
      BY <1>0, <1>1, <1>3, <1>5, <1>7, <3>1, Nodes DEF Kind, TypeOK
    <3> QED
      BY <2>2, <3>1, <3>2 DEF Compatible, Version
  <2>3. CASE Source(p) # "none" /\ p # b
    <3>1. Len(p) = 2 /\ b = Front(p)
      BY <1>3, <1>11, <2>3, PrefixOf
    <3> QED
      BY <1>1, <1>8, <2>3, <3>1 DEF Geography, BelowFacts
  <2> QED
    BY <2>1, <2>2, <2>3
<1> QED
  BY <1>8, <1>9, <1>10, <1>11

\* Where the queue of a rename says that entries went.
LocatedNext(loc) == \A w \in watched' : loc[w] = PathOf(w)'

RenameQueue(loc, n, d, b) ==
    /\ Queue' = IF Live(n) THEN {1, 2} ELSE {1}
    /\ \A i \in Queue' : OfEntry(i)' /\ events'[i].wd \in watched /\ events'[i].wd \in Dir
                         /\ events'[i].wd # n
                         /\ \/ events'[i].wd = Root
                            \/ Live(events'[i].wd) /\ at[events'[i].wd][1] = Root
    /\ Live(n) => /\ Drops(1)' /\ ~Copies(1)' /\ EventAt(loc, 1)' = PathOf(n)
                  /\ Copies(2)' /\ ~Drops(2)' /\ EventAt(loc, 2)' = b
    /\ ~Live(n) => Copies(1)' /\ ~Drops(1)' /\ EventAt(loc, 1)' = b
    /\ \A p : Cleared(loc, p)' <=> Live(n) /\ IsPrefix(PathOf(n), p)
    /\ \A p : IsPrefix(b, p) => Due(loc, p)'

LEMMA RenamedQueue ==
  ASSUME MirrorIInv, MirrorIInv', Trees, Trees', NEW loc0, CaughtUp(loc0),
         NEW n, NEW d, NEW x, Renamed(n, d, x),
         RenameReported(n, d, x), NEW loc, LocatedNext(loc), NEW b, b = Append(PathOf(d), x)
  PROVE  RenameQueue(loc, n, d, b)
<1>0. /\ n \in Node /\ at[n] # Nowhere /\ d # n
      /\ d = Root \/ (Live(d) /\ d \in DirNode /\ at[d][1] = Root)
      /\ watched' = watched /\ d \in Dir
      /\ \A m \in Node : at[m] = <<d, x>> => m \notin DirNode
  BY DEF Renamed
<1>1. Geography
  BY GeographyHolds DEF MirrorIInv
<1>2. Relocated(n, d, x, b)
  BY RenamedPaths
<1>3. ASSUME NEW c, c = Root \/ (Live(c) /\ c \in DirNode /\ at[c][1] = Root), c # n
      PROVE  c \in watched /\ loc[c] = PathOf(c)
  <2>1. c \in watched
    BY <1>3 DEF CaughtUp
  <2>2. PathOf(c)' = PathOf(c)
    <3>1. CASE c = Root
      BY <1>2, <3>1 DEF Relocated
    <3>2. CASE c # Root
      <4>1. at[c][1] # n /\ at[c] # <<d, x>>
        BY <1>0, <1>3, <3>2, Nodes
      <4> QED
        BY <1>2, <1>3, <3>2, <4>1 DEF Relocated
    <3> QED
      BY <3>1, <3>2
  <2> QED
    BY <1>0, <2>1, <2>2 DEF LocatedNext
<1>4. ASSUME Live(n) PROVE LET c == at[n][1] IN
        /\ c = Root \/ (Live(c) /\ c \in DirNode /\ at[c][1] = Root)
        /\ c # n /\ PathOf(n) = Append(PathOf(c), at[n][2])
  BY <1>0, <1>1, <1>4, ChildPath, Nodes DEF Geography, BelowFacts
<1>5. Queue' = IF Live(n) THEN {1, 2} ELSE {1}
  <2>1. Queue' = 1..Len(events')
    BY DEF Queue
  <2> QED
    BY <2>1 DEF RenameReported
<1>6. loc[d] = PathOf(d) /\ d \in watched
  BY <1>0, <1>3
<1>7. ASSUME Live(n)
      PROVE  /\ Drops(1)' /\ ~Copies(1)' /\ EventAt(loc, 1)' = PathOf(n)
             /\ Copies(2)' /\ ~Drops(2)' /\ EventAt(loc, 2)' = b
  <2>1. /\ events'[1].mask = "moved_from" /\ events'[1].wd = at[n][1] /\ events'[1].name = at[n][2]
        /\ events'[2].mask = "moved_to" /\ events'[2].wd = d /\ events'[2].name = x
    BY <1>7 DEF RenameReported
  <2>2. loc[at[n][1]] = PathOf(at[n][1])
    BY <1>3, <1>4, <1>7
  <2>3. EventAt(loc, 1)' = PathOf(n)
    BY <1>4, <1>7, <2>1, <2>2 DEF EventAt
  <2>4. EventAt(loc, 2)' = b
    BY <1>6, <2>1 DEF EventAt
  <2> QED
    BY <2>1, <2>3, <2>4 DEF Drops, Copies
<1>8. ASSUME ~Live(n) PROVE Copies(1)' /\ ~Drops(1)' /\ EventAt(loc, 1)' = b
  <2>1. events'[1].mask = "moved_to" /\ events'[1].wd = d /\ events'[1].name = x
    BY <1>8 DEF RenameReported
  <2> QED
    BY <1>6, <2>1 DEF Drops, Copies, EventAt
<1>9. ASSUME NEW i \in Queue'
      PROVE  /\ OfEntry(i)' /\ events'[i].wd \in watched /\ events'[i].wd \in Dir /\ events'[i].wd # n
             /\ \/ events'[i].wd = Root
                \/ Live(events'[i].wd) /\ at[events'[i].wd][1] = Root
  <2>1. OfEntry(i)'
    BY <1>5, <1>7, <1>8, <1>9 DEF OfEntry
  <2>2. events'[i].wd = d \/ (Live(n) /\ events'[i].wd = at[n][1])
    BY <1>5, <1>9 DEF RenameReported
  <2>3. CASE events'[i].wd = d
    BY <1>0, <1>6, <2>1, <2>3
  <2>4. CASE Live(n) /\ events'[i].wd = at[n][1]
    <3>1. at[n][1] \in watched /\ at[n][1] \in Dir /\ at[n][1] # n
      BY <1>3, <1>4, <2>4 DEF Dir
    <3> QED
      BY <1>4, <2>1, <2>4, <3>1
  <2> QED
    BY <2>2, <2>3, <2>4
<1>10. \A p : Cleared(loc, p)' <=> Live(n) /\ IsPrefix(PathOf(n), p)
  <2>1. CASE Live(n)
    BY <1>5, <1>7, <2>1 DEF Cleared
  <2>2. CASE ~Live(n)
    BY <1>5, <1>8, <2>2 DEF Cleared
  <2> QED
    BY <2>1, <2>2
<1>11. ASSUME NEW p, IsPrefix(b, p) PROVE Due(loc, p)'
  <2>1. CASE Live(n)
    <3>0. Len(events') = 2 /\ Queue' = {1, 2}
      BY <1>5, <2>1 DEF RenameReported
    <3>1. 2 \in Queue' /\ 2 < Len(events') + 1 /\ \A j \in Queue' : ~(j > 2)
      BY <3>0
    <3>2. Copies(2)' /\ IsPrefix(EventAt(loc, 2)', p)
      BY <1>7, <1>11, <2>1
    <3> QED
      BY <3>1, <3>2 DEF Due, DueBefore
  <2>2. CASE ~Live(n)
    <3>1. 1 \in Queue' /\ 1 < Len(events') + 1 /\ \A j \in Queue' : ~(j > 1)
      BY <1>5, <2>2 DEF RenameReported
    <3>2. Copies(1)' /\ IsPrefix(EventAt(loc, 1)', p)
      BY <1>8, <1>11, <2>2
    <3> QED
      BY <3>1, <3>2 DEF Due, DueBefore
  <2> QED
    BY <2>1, <2>2
<1> QED
  BY <1>5, <1>7, <1>8, <1>9, <1>10, <1>11 DEF RenameQueue

LEMMA RenamedSettles ==
  ASSUME MirrorIInv, MirrorIInv', Trees, Trees', NEW loc0, CaughtUp(loc0),
         NEW n, NEW d, NEW x, Renamed(n, d, x), RenameReported(n, d, x),
         NEW loc, LocatedNext(loc)
  PROVE  Settling(loc)'
<1>0. backup' = backup /\ watched' = watched /\ \A p \in Path : backup[p] = Source(p)
  BY DEF Renamed, CaughtUp
<1>1. PICK b : b = Append(PathOf(d), x)
  OBVIOUS
<1>2. RenameQueue(loc, n, d, b) /\ Geography /\ Geography'
  BY <1>1, RenamedQueue, GeographyHolds, GeographyNext DEF MirrorIInv
<1>3. ASSUME NEW p \in Path
      PROVE  /\ Source(p)' # "none" /\ ~IsPrefix(b, p) =>
                  Source(p) = Source(p)' /\ ~(Live(n) /\ IsPrefix(PathOf(n), p))
             /\ Source(p)' = "none" /\ Source(p) # "none" => Live(n) /\ IsPrefix(PathOf(n), p)
             /\ Source(p)' # "none" /\ IsPrefix(b, p) => Compatible(Source(p), Source(p)')
             /\ Source(b) # "dir"
  BY <1>1, RenamedSource
<1>4. GoneCleared(loc)'
  <2> SUFFICES ASSUME NEW p \in Path, Source(p)' = "none", backup[p] # "none" PROVE Cleared(loc, p)'
    BY <1>0 DEF GoneCleared
  <2>1. Source(p) # "none"
    BY <1>0
  <2> QED
    BY <1>2, <1>3, <2>1 DEF RenameQueue
<1>5. ThereDue(loc)'
  <2> SUFFICES ASSUME NEW p \in Path, Source(p)' # "none"
               PROVE  \/ backup[p] = Source(p)' /\ ~Cleared(loc, p)'
                      \/ Due(loc, p)' /\ Compatible(backup[p], Source(p)')
    BY <1>0 DEF ThereDue, Compatible
  <2>1. CASE IsPrefix(b, p)
    BY <1>0, <1>2, <1>3, <2>1 DEF RenameQueue
  <2>2. CASE ~IsPrefix(b, p)
    BY <1>0, <1>2, <1>3, <2>2 DEF RenameQueue
  <2> QED
    BY <2>1, <2>2
<1>6. DirsFirst(loc)'
  <2> SUFFICES ASSUME NEW i \in Queue', NEW w, w = events'[i].wd, w \in watched' \ {Root},
                      NEW f, f = loc[w]
               PROVE  backup[f] = "dir" /\ ~Cleared(loc, f)'
    BY <1>0 DEF DirsFirst
  <2>1. w \in DirNode /\ w # n /\ Live(w) /\ at[w][1] = Root
    BY <1>2 DEF RenameQueue, Dir
  <2>2. f = PathOf(w)
    <3>1. PathOf(w)' = PathOf(w)
      <4>1. Relocated(n, d, x, b)
        BY <1>1, RenamedPaths
      <4>2. at[w][1] # n /\ at[w] # <<d, x>>
        BY <2>1, Nodes DEF Renamed, Live
      <4> QED
        BY <2>1, <4>1, <4>2 DEF Relocated
    <3> QED
      BY <3>1 DEF LocatedNext
  <2>3. f \in Path /\ Source(f) = "dir"
    BY <1>2, <2>1, <2>2 DEF Geography, SourceFacts, Kind
  <2>4. ~(Live(n) /\ IsPrefix(PathOf(n), f))
    <3> SUFFICES ASSUME Live(n), IsPrefix(PathOf(n), PathOf(w)) PROVE FALSE
      BY <2>2
    <3>1. n = w \/ at[w][1] = n
      BY <1>2, <2>1 DEF Geography, BelowFacts
    <3> QED
      BY <2>1, <3>1, Nodes DEF Renamed
  <2> QED
    BY <1>0, <1>2, <2>3, <2>4 DEF RenameQueue
<1> QED
  BY <1>4, <1>5, <1>6 DEF Settling

LEMMA RenamedWatches ==
  ASSUME MirrorIInv, MirrorIInv', Trees, Trees', NEW loc0, CaughtUp(loc0),
         NEW n, NEW d, NEW x, Renamed(n, d, x)
  PROVE  \A w \in watched : w = Root \/ (w \in DirNode /\ Live(w) /\ Live(w)' /\ at[w] # <<d, x>>)
<1> SUFFICES ASSUME NEW w \in watched, w # Root
             PROVE  w \in DirNode /\ Live(w) /\ Live(w)' /\ at[w] # <<d, x>>
  OBVIOUS
<1>1. w \in DirNode /\ Live(w)
  BY DEF CaughtUp, Dir
<1>2. at[w] # <<d, x>>
  BY <1>1 DEF Renamed, Live
<1>3. PICK b : b = Append(PathOf(d), x)
  OBVIOUS
<1>4. Relocated(n, d, x, b)
  BY <1>3, RenamedPaths
<1> QED
  BY <1>1, <1>2, <1>4 DEF Relocated

LEMMA RenamedLocations ==
  ASSUME MirrorIInv, MirrorIInv', Trees, Trees', NEW loc0, CaughtUp(loc0),
         NEW n, NEW d, NEW x, Renamed(n, d, x)
  PROVE  \E loc \in Locations : LocatedNext(loc)
<1> DEFINE loc == [w \in Node \cup {Root} |-> IF w \in watched THEN PathOf(w)' ELSE <<>>]
<1>1. watched' = watched /\ watched \subseteq Node \cup {Root}
  BY InvParts DEF Renamed
<1>2. Geography'
  BY GeographyNext DEF MirrorIInv
<1>3. ASSUME NEW w \in watched PROVE PathOf(w)' \in Seq(Name)
  <2>1. CASE w = Root
    <3>1. PathOf(w)' = <<>> /\ <<>> \in Seq(Name)
      BY <2>1, EmptySeq DEF PathOf
    <3> QED
      BY <3>1
  <2>2. CASE w # Root
    <3>1. Live(w)'
      BY <2>2, RenamedWatches
    <3>2. PathOf(w)' \in Path
      BY <1>2, <3>1 DEF Geography, AtFacts
    <3> QED
      BY <3>2, PathSeq
  <2> QED
    BY <2>1, <2>2
<1>4. loc \in Locations
  BY <1>3, EmptySeq DEF Locations
<1>5. \A w \in watched : loc[w] = PathOf(w)'
  BY <1>1
<1> HIDE DEF loc
<1> QED
  BY <1>1, <1>4, <1>5 DEF LocatedNext

LEMMA RenamedMap ==
  ASSUME MirrorIInv, MirrorIInv', Trees, Trees', NEW loc0, CaughtUp(loc0),
         NEW n, NEW d, NEW x, Renamed(n, d, x), RenameReported(n, d, x),
         NEW loc, LocatedNext(loc)
  PROVE  MapResolves(loc)'
<1>0. /\ n \in Node /\ at[n] # Nowhere /\ watched' = watched /\ map' = map /\ pending' = NoCookie /\ x \in Name
      /\ \A m \in Node : m # n => at'[m] = IF at[m] = <<d, x>> THEN Nowhere ELSE at[m]
      /\ d # n
  BY DEF Renamed, CaughtUp
<1>1. PICK b : b = Append(PathOf(d), x)
  OBVIOUS
<1>2. RenameQueue(loc, n, d, b) /\ Geography /\ Relocated(n, d, x, b)
  BY <1>1, RenamedQueue, RenamedPaths, GeographyHolds DEF MirrorIInv
<1>3. Named' = watched
  BY <1>0, <1>2 DEF Named, RenameQueue
<1>4. \A w : Indices(w)' = Indices(w) /\ (Known(w)' <=> Known(w))
  BY <1>0 DEF Indices, Known
<1>5. Moving' <=> Live(n)
  <2>1. events' # <<>>
    BY DEF RenameReported
  <2>2. events'[1].mask = "moved_from" <=> Live(n)
    BY DEF RenameReported
  <2> QED
    BY <1>0, <2>1, <2>2 DEF Moving
<1>6. Live(n) => Old(loc)' = PathOf(n) /\ New(loc)' = b
  BY <1>0, <1>2 DEF Old, New, RenameQueue
<1>7. ASSUME NEW w \in watched
      PROVE  (IF Live(n) /\ IsPrefix(PathOf(n), PathOf(w))
              THEN b \o SubSeq(PathOf(w), Len(PathOf(n)) + 1, Len(PathOf(w))) ELSE PathOf(w)) = loc[w]
  <2>1. loc[w] = PathOf(w)'
    BY <1>0 DEF LocatedNext
  <2>2. w = Root \/ (w \in DirNode /\ Live(w) /\ at[w] # <<d, x>>)
    BY RenamedWatches
  <2>3. CASE w = Root
    <3>1. PathOf(w)' = PathOf(w) /\ PathOf(w) = <<>> /\ Len(<<>>) = 0
      BY <2>3 DEF PathOf
    <3>2. Live(n) => ~IsPrefix(PathOf(n), <<>>)
      <4>1. Live(n) => PathOf(n) \in Path
        BY <1>2 DEF Geography, AtFacts
      <4>2. Live(n) => Len(PathOf(n)) \in {1, 2}
        BY <4>1, PathSeq
      <4> QED
        BY <3>1, <4>2 DEF IsPrefix
    <3> QED
      BY <2>1, <3>1, <3>2
  <2>4. CASE w # Root /\ w # n /\ at[w][1] # n
    <3>1. PathOf(w)' = PathOf(w)
      BY <1>2, <2>2, <2>4 DEF Relocated
    <3>2. Live(n) => ~IsPrefix(PathOf(n), PathOf(w))
      BY <1>2, <2>2, <2>4 DEF Geography, BelowFacts
    <3> QED
      BY <2>1, <3>1, <3>2
  <2>5. CASE w = n
    <3>1. Live(n) /\ PathOf(n)' = b /\ b \in Path /\ PathOf(n) \in Path
      BY <1>0, <1>2, <2>2, <2>5, Nodes DEF Relocated, Geography, AtFacts
    <3>2. IsPrefix(PathOf(n), PathOf(n))
      BY <3>1, SelfPrefix
    <3>3. b \o SubSeq(PathOf(n), Len(PathOf(n)) + 1, Len(PathOf(n))) = b
      <4>1. Len(PathOf(n)) \in Nat /\ PathOf(n) \in Seq(Name) /\ b \in Seq(Name)
        BY <3>1, PathSeq
      <4>2. SubSeq(PathOf(n), Len(PathOf(n)) + 1, Len(PathOf(n))) = <<>>
        BY <4>1, SubSeqEmpty
      <4> QED
        BY <4>1, <4>2, ConcatEmptySeq
    <3> QED
      BY <2>1, <2>5, <3>1, <3>2, <3>3
  <2>6. CASE w # Root /\ at[w][1] = n
    <3>1. Live(w) /\ w \in Node /\ at[w] # Nowhere
      BY <2>2, <2>6 DEF Live
    <3>2. /\ PathOf(w)' = <<x, at[w][2]>> /\ d = Root /\ b = <<x>>
          /\ Live(n) /\ at[n][1] = Root /\ at[w][2] \in Name
      BY <1>2, <2>6, <3>1 DEF Relocated
    <3>3. PathOf(n) = <<at[n][2]>> /\ PathOf(w) = <<at[n][2], at[w][2]>>
      BY <1>0, <2>6, <3>1, <3>2, Nodes DEF PathOf
    <3>4. IsPrefix(PathOf(n), PathOf(w))
      BY <1>2, <2>6, <3>1, <3>2 DEF Geography, BelowFacts
    <3>5. at[n][2] \in Name
      BY <1>2, <3>2 DEF Geography, LiveFacts
    <3>6. \A y \in Name, z \in Name : SubSeq(<<y, z>>, 2, 2) = <<z>>
      <4> SUFFICES ASSUME NEW y \in Name, NEW z \in Name PROVE SubSeq(<<y, z>>, 2, 2) = <<z>>
        OBVIOUS
      <4> DEFINE s == SubSeq(<<y, z>>, 2, 2)
      <4>1. \A i \in 2..2 : <<y, z>>[i] \in Name
        OBVIOUS
      <4>2. s \in Seq(Name) /\ Len(s) = 1 /\ \A i \in 1..1 : s[i] = <<y, z>>[2 + i - 1]
        BY <4>1, SubSeqProperties
      <4>3. <<z>> \in Seq(Name) /\ Len(<<z>>) = 1
        OBVIOUS
      <4> HIDE DEF s
      <4>4. \A i \in 1..Len(s) : s[i] = <<z>>[i]
        BY <4>2
      <4> QED
        BY <4>2, <4>3, <4>4, SeqEqual DEF s
    <3>7. SubSeq(PathOf(w), Len(PathOf(n)) + 1, Len(PathOf(w))) = <<at[w][2]>>
      <4>1. Len(PathOf(n)) + 1 = 2 /\ Len(PathOf(w)) = 2
        BY <3>3
      <4> QED
        BY <3>2, <3>3, <3>5, <3>6, <4>1
    <3>8. <<x>> \o <<at[w][2]>> = <<x, at[w][2]>>
      <4>1. \A y \in Name, z \in Name : <<y>> \o <<z>> = <<y, z>>
        <5> SUFFICES ASSUME NEW y \in Name, NEW z \in Name PROVE <<y>> \o <<z>> = <<y, z>>
          OBVIOUS
        <5>1. <<y>> \in Seq(Name)
          OBVIOUS
        <5>2. Append(<<y>>, z) = <<y>> \o <<z>>
          BY <5>1, AppendIsConcat
        <5> QED
          BY <5>2, AppendPair
      <4> QED
        BY <1>0, <3>2, <4>1
    <3> QED
      BY <2>1, <3>2, <3>4, <3>7, <3>8
  <2> QED
    BY <2>2, <2>3, <2>4, <2>5, <2>6
<1>8. ASSUME NEW w \in Named'
      PROVE  Known(w)' /\ \A i \in Indices(w)' : Resolved(loc, map[i].path)' = loc[w]
  <2>1. w \in watched /\ Known(w) /\ \A i \in Indices(w) : map[i].path = PathOf(w)
    BY <1>3 DEF CaughtUp
  <2>2. ASSUME NEW i \in Indices(w)' PROVE Resolved(loc, map[i].path)' = loc[w]
    <3>1. map'[i].path = PathOf(w)
      BY <1>0, <1>4, <2>1
    <3>2. PICK p : p = map'[i].path /\ p = PathOf(w)
      BY <3>1
    <3>3. Resolved(loc, p)' = IF Live(n) /\ IsPrefix(PathOf(n), p)
                              THEN b \o SubSeq(p, Len(PathOf(n)) + 1, Len(p)) ELSE p
      BY <1>5, <1>6 DEF Resolved
    <3>4. Resolved(loc, p)' = loc[w]
      BY <1>7, <2>1, <3>2, <3>3
    <3> QED
      BY <3>2, <3>4
  <2> QED
    BY <1>4, <2>1, <2>2
<1>9. ASSUME NEW k \in Queue', Moving' PROVE \A i \in Indices(events[k].wd)' : ~IsPrefix(Old(loc)', map'[i].path)
  <2>1. PICK w : w = events'[k].wd
    OBVIOUS
  <2>2. w \in watched /\ w # n /\ (w = Root \/ (Live(w) /\ at[w][1] = Root))
    BY <1>2, <2>1 DEF RenameQueue
  <2>3. ~IsPrefix(PathOf(n), PathOf(w))
    <3>1. Live(n)
      BY <1>5, <1>9
    <3>2. CASE w = Root
      <4>1. PathOf(w) = <<>> /\ Len(<<>>) = 0
        BY <3>2 DEF PathOf
      <4>2. PathOf(n) \in Path
        BY <1>2, <3>1 DEF Geography, AtFacts
      <4>3. Len(PathOf(n)) \in {1, 2}
        BY <4>2, PathSeq
      <4> QED
        BY <4>1, <4>3 DEF IsPrefix
    <3>3. CASE w # Root
      <4>1. at[w][1] # n
        BY <1>0, <2>2, <3>3, Nodes
      <4> QED
        BY <1>2, <2>2, <3>1, <3>3, <4>1 DEF Geography, BelowFacts
    <3> QED
      BY <3>2, <3>3
  <2>4. \A i \in Indices(w) : map[i].path = PathOf(w)
    BY <2>2 DEF CaughtUp
  <2>5. \A i : i \in Indices(events[k].wd)' => i \in Indices(w)
    BY <1>0, <2>1 DEF Indices
  <2> QED
    BY <1>0, <1>5, <1>6, <1>9, <2>3, <2>4, <2>5
<1>10. \A m \in Node : at'[m] # Nowhere /\ m \notin watched' => ~Known(m)'
  <2>1. \A m \in Node : at'[m] # Nowhere => at[m] # Nowhere
    BY <1>0
  <2> QED
    BY <1>0, <1>4, <2>1 DEF CaughtUp
<1> QED
  BY <1>8, <1>9, <1>10 DEF MapResolves

-----------------------------------------------------------------------------
(* What is expected after the rename, and the whole of it.                 *)

LEMMA RenamedExpects ==
  ASSUME MirrorIInv, MirrorIInv', Trees, Trees', NEW loc0, CaughtUp(loc0),
         NEW n, NEW d, NEW x, Renamed(n, d, x), RenameReported(n, d, x),
         NEW loc, LocatedNext(loc)
  PROVE  DirsExpected(loc)' /\ BelowUnwatched(loc)'
<1>0. /\ n \in Node /\ at[n] # Nowhere /\ watched' = watched /\ backup' = backup /\ x \in Name
      /\ at'[n] = <<d, x>>
      /\ \A m \in Node : m # n => at'[m] = IF at[m] = <<d, x>> THEN Nowhere ELSE at[m]
      /\ \A p \in Path : backup[p] = Source(p)
  BY DEF Renamed, CaughtUp
<1>1. PICK b : b = Append(PathOf(d), x)
  OBVIOUS
<1>2. RenameQueue(loc, n, d, b) /\ Relocated(n, d, x, b) /\ Geography
  BY <1>1, RenamedQueue, RenamedPaths, GeographyHolds DEF MirrorIInv
<1>3. ASSUME NEW w \in DirNode, Live(w)', w \notin watched'
      PROVE  /\ ~Live(n)
             /\ \/ w = n
                \/ w # n /\ at'[w] = at[w] /\ at[w][1] = n /\ n # Root /\ n \notin watched
                   /\ PathOf(w)' = <<x, at[w][2]>> /\ at[w][2] \in Name
  <2>1. ~Live(w)
    BY <1>0, <1>3 DEF CaughtUp
  <2>2. w = n \/ (w \in Node /\ at[w] # Nowhere /\ at[w][1] = n)
    BY <1>2, <1>3, <2>1 DEF Relocated
  <2>3. CASE w = n
    BY <2>1, <2>3
  <2>4. CASE w # n /\ w \in Node /\ at[w] # Nowhere /\ at[w][1] = n
    <3>1. ~Live(n) /\ PathOf(w)' = <<x, at[w][2]>> /\ at[w][2] \in Name
      BY <1>2, <2>1, <2>4 DEF Relocated
    <3>2. n # Root /\ n \notin watched
      BY <1>0, <3>1, Nodes DEF CaughtUp
    <3>3. at'[w] = at[w]
      <4>1. at'[w] # Nowhere
        BY <1>3 DEF Live
      <4> QED
        BY <1>0, <2>4, <4>1
    <3> QED
      BY <2>4, <3>1, <3>2, <3>3
  <2> QED
    BY <2>2, <2>3, <2>4
<1>4. ASSUME ~Live(n) PROVE Awaited(loc, n)'
  <2>1. Queue' = {1} /\ Copies(1)' /\ events'[1].wd = d /\ events'[1].name = x
    BY <1>2, <1>4 DEF RenameQueue, RenameReported
  <2>2. at'[n][1] = d /\ at'[n][2] = x
    BY <1>0
  <2>3. 1 \in Queue' /\ \A j \in Queue' : ~(j > 1)
    BY <2>1
  <2> QED
    BY <2>1, <2>2, <2>3 DEF Awaited
<1>5. DirsExpected(loc)'
  <2>1. ASSUME NEW w, NEW u, u = at'[w][1], Awaited(loc, u)' PROVE Awaited(loc, at[w][1])'
    BY <2>1 DEF Awaited, PathOf, EventAt
  <2>2. ASSUME NEW w \in DirNode, Live(w)', w \notin watched'
        PROVE  \/ Awaited(loc, w)'
               \/ at'[w][1] # Root /\ at'[w][1] \notin watched' /\ Awaited(loc, at[w][1])'
    <3>1. CASE w = n
      BY <1>3, <1>4, <2>2, <3>1
    <3>2. CASE w # n
      <4>1. n = at'[w][1] /\ n # Root /\ n \notin watched' /\ Awaited(loc, n)'
        BY <1>0, <1>3, <1>4, <2>2, <3>2
      <4> QED
        BY <2>1, <4>1
    <3> QED
      BY <3>1, <3>2
  <2> QED
    BY <2>2 DEF DirsExpected
<1>6. BelowUnwatched(loc)'
  <2> SUFFICES ASSUME NEW w \in DirNode, Live(w)', w \notin watched', NEW p \in Path,
                      Len(p) = 2, Front(p) = PathOf(w)', backup[p] # "none"
               PROVE  FALSE
    BY <1>0 DEF BelowUnwatched
  <2>1. CASE w = n
    <3>1. Front(p) = b
      BY <1>2, <2>1 DEF Relocated
    <3>2. Source(p) # "none"
      BY <1>0
    <3>3. Source(b) = "dir"
      BY <1>2, <3>1, <3>2 DEF Geography, BelowFacts
    <3> QED
      BY <1>1, <3>3, RenamedSource
  <2>2. CASE w # n
    <3>1. Front(p) = <<x, at[w][2]>>
      BY <1>3, <2>2
    <3>2. Len(Front(p)) = 1
      BY ParentPath
    <3>3. \A y, z : Len(<<y, z>>) = 2
      OBVIOUS
    <3> QED
      BY <3>1, <3>2, <3>3
  <2> QED
    BY <2>1, <2>2
<1> QED
  BY <1>5, <1>6

LEMMA RenamedFollows ==
  ASSUME MirrorIInv, MirrorIInv', Trees, Trees', NEW loc0 \in Locations, Follows(loc0),
         NEW n, NEW d, NEW x, Renamed(n, d, x), RenameReported(n, d, x)
  PROVE  \E loc \in Locations : Follows(loc)'
<1>1. CaughtUp(loc0)
  <2>1. pc = "read" /\ events = <<>>
    BY DEF Renamed, RenameReported
  <2> QED
    BY <2>1, IdleCaughtUp
<1>2. PICK loc \in Locations : LocatedNext(loc)
  BY <1>1, RenamedLocations
<1>3. /\ n \in Node /\ watched' = watched /\ pc' = "read" /\ pending' = NoCookie /\ d # n
      /\ Root \in watched /\ watched \subseteq Dir
  BY <1>1 DEF Renamed, CaughtUp
<1>4. PICK b : b = Append(PathOf(d), x)
  OBVIOUS
<1>5. RenameQueue(loc, n, d, b) /\ Relocated(n, d, x, b) /\ Geography
  BY <1>1, <1>2, <1>4, RenamedQueue, RenamedPaths, GeographyHolds DEF MirrorIInv
<1>6. Settling(loc)' /\ MapResolves(loc)' /\ DirsExpected(loc)' /\ BelowUnwatched(loc)'
  BY <1>1, <1>2, RenamedSettles, RenamedMap, RenamedExpects
<1>7. Watching(loc)'
  <2>1. \A w \in watched' : loc[w] = PathOf(w)' /\ (w # Root => Live(w)')
    BY <1>1, <1>2, <1>3, RenamedWatches DEF LocatedNext
  <2> QED
    BY <1>3, <2>1 DEF Watching
<1>8. EventsWatched(loc)'
  <2> SUFFICES ASSUME NEW i \in Queue', NEW w, w = events'[i].wd
               PROVE  w \in Dir /\ Len(loc[w]) <= 1 /\ w \in watched'
    BY DEF EventsWatched
  <2>1. w \in watched /\ w \in Dir /\ w # n /\ (w = Root \/ (Live(w) /\ at[w][1] = Root))
    BY <1>5 DEF RenameQueue
  <2>2. Len(PathOf(w)) <= 1
    <3>1. CASE w = Root
      <4>1. PathOf(w) = <<>> /\ Len(<<>>) = 0
        BY <3>1 DEF PathOf
      <4> QED
        BY <4>1
    <3>2. CASE Live(w) /\ at[w][1] = Root
      <4>1. Len(PathOf(w)) = 1
        BY <1>5, <3>2 DEF Geography, BelowFacts
      <4> QED
        BY <4>1
    <3> QED
      BY <2>1, <3>1, <3>2
  <2>3. PathOf(w)' = PathOf(w)
    <3>1. w = Root \/ (Live(w) /\ at[w] # <<d, x>> /\ at[w][1] # n)
      BY <1>1, <1>3, <2>1, RenamedWatches, Nodes
    <3> QED
      BY <1>5, <2>1, <3>1 DEF Relocated
  <2> QED
    BY <1>2, <1>3, <2>1, <2>2, <2>3 DEF LocatedNext
<1>9. SelfLast'
  BY <1>5 DEF SelfLast, RenameQueue
<1>10. RenamesFirst'
  <2>1. CASE Live(n)
    <3>1. /\ Queue' = {1, 2} /\ Len(events') = 2
          /\ events'[1].mask = "moved_from" /\ events'[2].mask = "moved_to"
          /\ events'[2].cookie = events'[1].cookie /\ events'[1].cookie # NoCookie
      BY <1>5, <2>1 DEF RenameQueue, RenameReported
    <3> QED
      BY <1>3, <3>1 DEF RenamesFirst
  <2>2. CASE ~Live(n)
    <3>1. Queue' = {1} /\ events'[1].mask = "moved_to"
      BY <1>5, <2>2 DEF RenameQueue, RenameReported
    <3> QED
      BY <1>3, <3>1 DEF RenamesFirst
  <2> QED
    BY <2>1, <2>2
<1> QED
  BY <1>2, <1>6, <1>7, <1>8, <1>9, <1>10 DEF Follows

-----------------------------------------------------------------------------
(* The operations of the user that rename.                                 *)

\* Once the child has caught up, it watches what an inode in the source lies in.
LEMMA HolderWatched ==
  ASSUME MirrorIInv, Trees, NEW loc, CaughtUp(loc), NEW n \in Node, at[n] # Nowhere
  PROVE  Live(n) <=> at[n][1] \in watched
<1>2. PICK c : c = at[n][1] /\ Holds(c)
  BY DEF Trees
<1>3. Outside # Root /\ Outside \notin DirNode /\ Root \notin DirNode /\ DirNode \subseteq Node
  BY Nodes, MirrorAssumption
<1>4. ASSUME Live(n) PROVE c \in watched
  <2>1. c = Root \/ (c \in DirNode /\ at[c] # Nowhere /\ at[c][1] = Root)
    BY <1>2, <1>4 DEF Live
  <2>2. c # Root => Live(c) /\ c \in DirNode
    BY <1>3, <2>1 DEF Live
  <2> QED
    BY <2>1, <2>2 DEF CaughtUp
<1>5. ASSUME c \in watched PROVE Live(n)
  <2>1. c \in Dir /\ (c = Root \/ Live(c))
    BY <1>5 DEF CaughtUp
  <2>2. c = Root \/ (c \in DirNode /\ at[c] # Nowhere /\ at[c][1] = Root)
    <3>1. CASE c = Root
      BY <3>1
    <3>2. CASE c # Root
      <4>1. c \in DirNode /\ Live(c)
        BY <2>1, <3>2 DEF Dir
      <4>2. at[c][1] \in {Root, Outside} /\ at[c] # Nowhere
        BY <1>2, <1>3, <4>1 DEF Holds
      <4>3. at[c][1] = Root
        BY <1>3, <4>1, <4>2 DEF Live
      <4> QED
        BY <4>1, <4>2, <4>3
    <3> QED
      BY <3>1, <3>2
  <2> QED
    BY <1>2, <2>2 DEF Live
<1> QED
  BY <1>2, <1>4, <1>5

\* The events of a rename into a watched directory, when none is queued.
LEMMA RenameEvents ==
  ASSUME MirrorIInv, events = <<>>, NEW c, NEW y \in Name, NEW d \in watched, NEW x \in Name,
         NEW cookie \in Cookie,
         events' = events \o Event("moved_from", c, y, cookie) \o Event("moved_to", d, x, cookie)
  PROVE  /\ c \in watched =>
               /\ Len(events') = 2
               /\ events'[1].mask = "moved_from" /\ events'[1].wd = c /\ events'[1].name = y
               /\ events'[1].cookie = cookie
               /\ events'[2].mask = "moved_to" /\ events'[2].wd = d /\ events'[2].name = x
               /\ events'[2].cookie = cookie
         /\ c \notin watched =>
               /\ Len(events') = 1
               /\ events'[1].mask = "moved_to" /\ events'[1].wd = d /\ events'[1].name = x
         /\ events' # <<>>
<1> DEFINE left == Event("moved_from", c, y, cookie)
           came == Event("moved_to", d, x, cookie)
<1>1. left \in Seq(EventSet) /\ came \in Seq(EventSet)
  BY InvParts, EventTyped DEF Masks, SelfMasks
<1>2. /\ Len(came) = 1 /\ came[1].mask = "moved_to" /\ came[1].wd = d
      /\ came[1].name = x /\ came[1].cookie = cookie
  <2>1. Len(came) = 1 /\ came[1] = [mask |-> "moved_to", wd |-> d, name |-> x, cookie |-> cookie]
    BY OneEvent
  <2> HIDE DEF came
  <2> QED
    BY <2>1
<1>3. c \in watched => /\ Len(left) = 1 /\ left[1].mask = "moved_from" /\ left[1].wd = c
                       /\ left[1].name = y /\ left[1].cookie = cookie
  <2> SUFFICES ASSUME c \in watched
               PROVE  /\ Len(left) = 1 /\ left[1].mask = "moved_from" /\ left[1].wd = c
                      /\ left[1].name = y /\ left[1].cookie = cookie
    OBVIOUS
  <2>1. Len(left) = 1 /\ left[1] = [mask |-> "moved_from", wd |-> c, name |-> y, cookie |-> cookie]
    BY OneEvent
  <2> HIDE DEF left
  <2> QED
    BY <2>1
<1>4. c \notin watched => Len(left) = 0
  <2> SUFFICES ASSUME c \notin watched PROVE Len(left) = 0
    OBVIOUS
  <2>1. left = <<>> /\ Len(<<>>) = 0
    BY DEF Event
  <2> QED
    BY <2>1
<1>5. events' = (<<>> \o left) \o came
  OBVIOUS
<1> HIDE DEF left, came
<1>6. events' = left \o came
  <2>1. <<>> \o left = left
    BY <1>1, ConcatEmptySeq
  <2> QED
    BY <1>5, <2>1
<1>7. /\ Len(events') = Len(left) + 1
      /\ \A i \in 1..Len(left) + 1 : events'[i] = IF i <= Len(left) THEN left[i] ELSE came[i - Len(left)]
  <2>1. /\ Len(events') = Len(left) + Len(came)
        /\ \A i \in 1..Len(left) + Len(came) :
              events'[i] = IF i <= Len(left) THEN left[i] ELSE came[i - Len(left)]
    <3>1. /\ Len(left \o came) = Len(left) + Len(came)
          /\ \A i \in 1..Len(left) + Len(came) :
                (left \o came)[i] = IF i <= Len(left) THEN left[i] ELSE came[i - Len(left)]
      BY <1>1, ConcatProperties
    <3> QED
      BY <1>6, <3>1
  <2>2. Len(came) = 1
    BY <1>2
  <2> QED
    BY <2>1, <2>2
<1>8. ASSUME c \in watched
      PROVE  Len(events') = 2 /\ events'[1] = left[1] /\ events'[2] = came[1]
  <2>1. Len(left) = 1
    BY <1>3, <1>8
  <2> QED
    BY <1>7, <2>1
<1>9. ASSUME c \notin watched PROVE Len(events') = 1 /\ events'[1] = came[1]
  <2>1. Len(left) = 0
    BY <1>4, <1>9
  <2> QED
    BY <1>7, <2>1
<1>10. events' # <<>>
  <2>1. Len(events') # 0 /\ Len(<<>>) = 0
    BY <1>8, <1>9
  <2> QED
    BY <2>1
<1> QED
  BY <1>2, <1>3, <1>8, <1>9, <1>10

LEMMA MoveFollows ==
  ASSUME MirrorIInv, MirrorIInv', Trees, Trees', NEW loc0 \in Locations, Follows(loc0), PatientUser,
         NEW n \in Node, NEW d \in Dir \cup {Outside}, NEW x \in Name, Move(n, d, x)
  PROVE  \E loc \in Locations : Follows(loc)'
<1>1. PICK op, cookie :
         /\ op = IF Away(d) /\ ~Away(at[n][1]) THEN "moveout"
                 ELSE IF Away(d) THEN "elsewhere" ELSE "rename"
         /\ cookie = <<n, Away(at[n][1]), Away(d)>>
         /\ at[n] # Nowhere /\ User(op) /\ Fits(n, d) /\ Free(d, x)
         /\ at' = [at EXCEPT ![n] = <<d, x>>]
         /\ events' = events \o Event("moved_from", at[n][1], at[n][2], cookie)
                             \o Event("moved_to", d, x, cookie)
         /\ UNCHANGED <<data, rootExists, watched>>
  BY DEF Move
<1>2. op = "rename" /\ ~Away(d) /\ events = <<>>
  <2>1. op \in {"create", "write", "delete"} \/ (op = "rename" /\ events = <<>>)
    BY <1>1, Patience
  <2> QED
    BY <1>1, <2>1
<1>3. Holds(d) /\ d # n /\ (d \in DirNode => Under(n) = {}) /\ \A m \in Node : at[m] # <<d, x>>
  BY <1>1 DEF Fits, Free
<1>4. In(d, "rename") = "rename" /\ User("rename")
  BY <1>1, <1>2 DEF In
<1>5. d \in Dir /\ (d = Root \/ (Live(d) /\ d \in DirNode /\ at[d][1] = Root))
  BY <1>3, <1>4, WorkedIn
<1>6. pc = "read" /\ UNCHANGED <<backup, pc, target, map, pending>>
  BY <1>4, Patience
<1>7. at'[n] = <<d, x>> /\ \A m \in Node : m # n => at'[m] = at[m]
  BY <1>1, InvParts
<1>8. Renamed(n, d, x)
  BY <1>1, <1>3, <1>5, <1>6, <1>7 DEF Renamed
<1>9. CaughtUp(loc0)
  BY <1>2, <1>6, IdleCaughtUp
<1>10. d \in watched /\ at[n][2] \in Name /\ (Live(n) <=> at[n][1] \in watched)
  BY <1>1, <1>5, <1>9, HolderWatched, InvParts DEF CaughtUp, Place
<1>11. cookie \in Cookie /\ cookie # NoCookie
  <2>1. Away(at[n][1]) \in BOOLEAN /\ Away(d) \in BOOLEAN
    BY DEF Away
  <2>2. \A a, b, c : <<a, b, c>> # <<>>
    OBVIOUS
  <2> QED
    BY <1>1, <2>1, <2>2 DEF Cookie, NoCookie
<1>12. RenameReported(n, d, x)
  <2>1. PICK c, y : c = at[n][1] /\ y = at[n][2]
    OBVIOUS
  <2>2. events' = events \o Event("moved_from", c, y, cookie) \o Event("moved_to", d, x, cookie)
    BY <1>1, <2>1
  <2>3. events = <<>> /\ y \in Name /\ d \in watched /\ cookie \in Cookie
    BY <1>2, <1>10, <1>11, <2>1
  <2>4. /\ c \in watched =>
              /\ Len(events') = 2
              /\ events'[1].mask = "moved_from" /\ events'[1].wd = c /\ events'[1].name = y
              /\ events'[1].cookie = cookie
              /\ events'[2].mask = "moved_to" /\ events'[2].wd = d /\ events'[2].name = x
              /\ events'[2].cookie = cookie
        /\ c \notin watched =>
              /\ Len(events') = 1
              /\ events'[1].mask = "moved_to" /\ events'[1].wd = d /\ events'[1].name = x
        /\ events' # <<>>
    BY <2>2, <2>3, RenameEvents
  <2> QED
    BY <1>2, <1>10, <1>11, <2>1, <2>4 DEF RenameReported
<1> QED
  BY <1>8, <1>12, RenamedFollows

LEMMA ReplaceFollows ==
  ASSUME MirrorIInv, MirrorIInv', Trees, Trees', NEW loc0 \in Locations, Follows(loc0), PatientUser,
         NEW f \in FileNode, NEW g \in FileNode, Replace(f, g)
  PROVE  \E loc \in Locations : Follows(loc)'
<1>1. PICK cookie :
         /\ cookie = <<f, FALSE, FALSE>>
         /\ f # g /\ at[f] # Nowhere /\ at[g] # Nowhere
         /\ User(In(at[g][1], "rename"))
         /\ at' = [at EXCEPT ![f] = at[g], ![g] = Nowhere]
         /\ watched' = watched \ {g}
         /\ events' = events \o Event("moved_from", at[f][1], at[f][2], cookie)
                             \o Event("moved_to", at[g][1], at[g][2], cookie)
                             \o SelfGone(g)
         /\ UNCHANGED <<data, rootExists>>
  BY DEF Replace
<1>2. f \in Node /\ g \in Node /\ f \notin DirNode /\ g \notin DirNode /\ g # Root
  BY Nodes, MirrorAssumption
<1>3. PICK d \in Dir \cup {Outside}, x \in Name : at[g] = <<d, x>>
  BY <1>1, <1>2, InvParts DEF Place
<1>4. at[g][1] = d /\ at[g][2] = x
  BY <1>3
<1>5. Holds(d)
  BY <1>1, <1>2, <1>4 DEF Trees
<1>6. d \in Dir /\ (d = Root \/ (Live(d) /\ d \in DirNode /\ at[d][1] = Root)) /\ User("rename")
  BY <1>1, <1>4, <1>5, WorkedIn
<1>7. pc = "read" /\ UNCHANGED <<backup, pc, target, map, pending>> /\ events = <<>>
  <2>1. "rename" \in {"create", "write", "delete"} \/ ("rename" = "rename" /\ events = <<>>)
    BY <1>6, Patience
  <2>2. pc = "read" /\ UNCHANGED <<backup, pc, target, map, pending>>
    BY <1>6, Patience
  <2> QED
    BY <2>1, <2>2
<1>8. CaughtUp(loc0)
  BY <1>7, IdleCaughtUp
<1>9. f \notin watched /\ g \notin watched /\ watched' = watched /\ d \in watched
  <2>1. watched \subseteq Dir /\ d \in watched
    BY <1>6, <1>8 DEF CaughtUp
  <2>2. f \notin watched /\ g \notin watched
    BY <1>2, <2>1, Nodes DEF Dir
  <2> QED
    BY <1>1, <2>1, <2>2
<1>10. at[f] # <<d, x>>
  BY <1>1, <1>2, <1>3 DEF Trees
<1>11. at'[f] = <<d, x>> /\ at'[g] = Nowhere /\ \A m \in Node : m # f /\ m # g => at'[m] = at[m]
  BY <1>1, <1>2, <1>3, InvParts
<1>12. \A m \in Node : at[m] = <<d, x>> => m = g
  BY <1>1, <1>2, <1>3 DEF Trees
<1>13. Under(f) = {} /\ d # f
  BY <1>2, <1>6, NothingUnder, Nodes DEF Dir
<1>14. Renamed(f, d, x)
  BY <1>1, <1>2, <1>3, <1>6, <1>7, <1>9, <1>10, <1>11, <1>12, <1>13 DEF Renamed
<1>15. at[f][2] \in Name /\ (Live(f) <=> at[f][1] \in watched)
  BY <1>1, <1>2, <1>8, HolderWatched, InvParts DEF Place
<1>16. cookie \in Cookie /\ cookie # NoCookie
  <2>1. \A a, b, c : <<a, b, c>> # <<>>
    OBVIOUS
  <2> QED
    BY <1>1, <1>2, <2>1 DEF Cookie, NoCookie
<1>17. events' = events \o Event("moved_from", at[f][1], at[f][2], cookie)
                        \o Event("moved_to", d, x, cookie)
  <2> DEFINE left == Event("moved_from", at[f][1], at[f][2], cookie)
             came == Event("moved_to", d, x, cookie)
  <2>1. SelfGone(g) = <<>>
    <3>1. SelfGone(g) = <<>> \o <<>>
      BY <1>9 DEF SelfGone, Event
    <3>2. <<>> \in Seq(EventSet)
      OBVIOUS
    <3> QED
      BY <3>1, <3>2, ConcatEmptySeq
  <2>2. events \in Seq(EventSet) /\ left \in Seq(EventSet) /\ came \in Seq(EventSet)
    BY <1>15, <1>16, EventsSet, InvParts, EventTyped DEF Masks, SelfMasks
  <2>3. events' = ((events \o left) \o came) \o <<>>
    BY <1>1, <1>4, <2>1
  <2> HIDE DEF left, came
  <2>4. (events \o left) \o came \in Seq(EventSet)
    BY <2>2, ConcatProperties
  <2>5. events' = (events \o left) \o came
    BY <2>3, <2>4, ConcatEmptySeq
  <2> QED
    BY <2>5 DEF left, came
<1>18. RenameReported(f, d, x)
  <2>1. PICK c, y : c = at[f][1] /\ y = at[f][2]
    OBVIOUS
  <2>2. events' = events \o Event("moved_from", c, y, cookie) \o Event("moved_to", d, x, cookie)
    BY <1>17, <2>1
  <2>3. events = <<>> /\ y \in Name /\ d \in watched /\ cookie \in Cookie
    BY <1>7, <1>9, <1>15, <1>16, <2>1
  <2>4. /\ c \in watched =>
              /\ Len(events') = 2
              /\ events'[1].mask = "moved_from" /\ events'[1].wd = c /\ events'[1].name = y
              /\ events'[1].cookie = cookie
              /\ events'[2].mask = "moved_to" /\ events'[2].wd = d /\ events'[2].name = x
              /\ events'[2].cookie = cookie
        /\ c \notin watched =>
              /\ Len(events') = 1
              /\ events'[1].mask = "moved_to" /\ events'[1].wd = d /\ events'[1].name = x
        /\ events' # <<>>
    BY <2>2, <2>3, RenameEvents
  <2> QED
    BY <1>7, <1>15, <1>16, <2>1, <2>4 DEF RenameReported
<1> QED
  BY <1>14, <1>18, RenamedFollows

-----------------------------------------------------------------------------
(* The invariant and what follows from it.                                 *)

LEMMA ConvergeInit == Init => ConvergeInv
<1> SUFFICES ASSUME Init PROVE ConvergeInv
  OBVIOUS
<1>1. Trees
  BY DEF Init, Trees
<1>2. pc = "copy" /\ Blank
  BY DEF Init, Blank
<1>3. ~Following
  BY <1>2 DEF Following
<1> QED
  BY <1>1, <1>2, <1>3 DEF ConvergeInv

\* Whatever a patient user does, there are places again that the child follows.
LEMMA UserFollows ==
  ASSUME MirrorIInv, MirrorIInv', Trees, Trees', NEW loc \in Locations, Follows(loc), PatientUser,
         UserStep, rootExists'
  PROVE  \E loc2 \in Locations : Follows(loc2)'
<1>1. ~DeleteRoot
  BY DEF DeleteRoot
<1> QED
  BY <1>1, CreateFollows, WriteFollows, DeleteFollows, MoveFollows, ReplaceFollows DEF UserStep

LEMMA UserWaits ==
  ASSUME MirrorIInv, PatientUser, UserStep
  PROVE  pc = "read" /\ pc' = "read" /\ rootExists /\ tooMany' = tooMany
<1>1. \E op : User(op)
  BY DEF UserStep, Create, Write, Delete, DeleteRoot, Move, Replace
<1> QED
  BY <1>1, Patience

LEMMA UserConverges ==
  ASSUME MirrorIInv, MirrorIInv', PatientUser, ConvergeInv, UserStep
  PROVE  ConvergeInv'
<1>1. Trees /\ Trees'
  BY UserTrees DEF ConvergeInv
<1>2. pc = "read" /\ pc' = "read" /\ rootExists /\ tooMany' = tooMany
  BY UserWaits
<1>3. ASSUME Following' PROVE \E loc \in Locations : Follows(loc)'
  <2>1. Following /\ rootExists'
    BY <1>2, <1>3 DEF Following
  <2>2. PICK loc \in Locations : Follows(loc)
    BY <2>1 DEF ConvergeInv
  <2> QED
    BY <1>1, <2>1, <2>2, UserFollows
<1> QED
  BY <1>1, <1>2, <1>3 DEF ConvergeInv

LEMMA ChildConverges ==
  ASSUME MirrorIInv, MirrorIInv', ConvergeInv, ChildStep
  PROVE  ConvergeInv'
<1>1. Trees /\ Trees'
  BY ChildTrees DEF ConvergeInv
<1>2. pc' # "copy"
  BY DEF ChildStep, CopySource, AddWatches, WatchGone, IgnoreEvent, RemoveEntry, CopyEntryNow,
     MovedTo, CopyNow, Take, monitorVars
<1>3. ASSUME Following' PROVE \E loc \in Locations : Follows(loc)'
  <2>1. CASE CopySource
    <3>1. Blank
      BY <2>1 DEF CopySource, ConvergeInv
    <3> QED
      BY <1>1, <2>1, <3>1, CopySourceFollows
  <2>2. CASE ~CopySource
    <3>1. /\ rootExists' = rootExists /\ pc \in {"watch", "read"}
          /\ AddWatches \/ tooMany' = tooMany
      BY <2>2 DEF ChildStep, AddWatches, WatchGone, IgnoreEvent, RemoveEntry, CopyEntryNow,
         MovedTo, Take, userVars, monitorVars
    <3>2. AddWatches => (tooMany => tooMany')
      BY DEF AddWatches, add_watch_recursive
    <3>3. Following /\ ~tooMany'
      BY <1>3, <3>1, <3>2 DEF Following
    <3>4. PICK loc \in Locations : Follows(loc)
      BY <3>3 DEF ConvergeInv
    <3> QED
      BY <1>1, <2>2, <3>3, <3>4, AddWatchesFollows, WatchGoneFollows, IgnoreEventFollows,
         RemoveEntryFollows, CopyEntryNowFollows, MovedToFollows DEF ChildStep
  <2> QED
    BY <2>1, <2>2
<1> QED
  BY <1>1, <1>2, <1>3 DEF ConvergeInv

LEMMA StillConverges ==
  ASSUME UNCHANGED vars, ConvergeInv
  PROVE  ConvergeInv'
<1>1. /\ UNCHANGED <<at, data, rootExists, watched, events, backup>>
      /\ UNCHANGED <<pc, target, map, pending, tooMany>>
  BY DEF vars, userVars, monitorVars
<1>2. Trees'
  BY <1>1 DEF ConvergeInv, Trees, Holds
<1>3. (pc = "copy" => Blank)'
  BY <1>1 DEF ConvergeInv, Blank
<1>4. ASSUME NEW loc \in Locations, Follows(loc) PROVE Follows(loc)'
  <2>1. /\ \A p : Source(p)' = Source(p)
        /\ \A n : (Live(n)' <=> Live(n)) /\ PathOf(n)' = PathOf(n)
    BY <1>1, SameSource
  <2>2. /\ Queue' = Queue
        /\ \A i : /\ Copies(i)' <=> Copies(i)
                  /\ Drops(i)' <=> Drops(i)
                  /\ OfEntry(i)' <=> OfEntry(i)
                  /\ EventAt(loc, i)' = EventAt(loc, i)
    BY <1>1 DEF Queue, Copies, Drops, OfEntry, EventAt
  <2>3. /\ \A p : Cleared(loc, p)' <=> Cleared(loc, p)
        /\ \A p, i : DueBefore(loc, p, i)' <=> DueBefore(loc, p, i)
    BY <2>2 DEF Cleared, DueBefore
  <2>4. \A p : Due(loc, p)' <=> Due(loc, p)
    BY <1>1, <2>3 DEF Due
  <2>5. Settling(loc)'
    BY <1>1, <1>4, <2>1, <2>2, <2>3, <2>4
       DEF Follows, Settling, GoneCleared, ThereDue, DirsFirst
  <2>6. MapResolves(loc)'
    <3>1. (Moving' <=> Moving) /\ Old(loc)' = Old(loc) /\ New(loc)' = New(loc)
      BY <1>1 DEF Moving, Old, New, EventAt
    <3>2. \A w : Indices(w)' = Indices(w) /\ (Known(w)' <=> Known(w))
      BY <1>1 DEF Indices, Known
    <3>3. \A p : Resolved(loc, p)' = Resolved(loc, p)
      BY <3>1 DEF Resolved
    <3>4. Named' = Named
      BY <1>1, <2>2 DEF Named
    <3> QED
      BY <1>1, <1>4, <2>2, <3>1, <3>2, <3>3, <3>4 DEF Follows, MapResolves
  <2>7. RenamesFirst'
    BY <1>1, <1>4, <2>2 DEF Follows, RenamesFirst
  <2>8. Watching(loc)'
    BY <1>1, <1>4, <2>1 DEF Follows, Watching
  <2>9. EventsWatched(loc)' /\ SelfLast'
    BY <1>1, <1>4, <2>2 DEF Follows, EventsWatched, SelfLast
  <2>10. \A d : (InTarget(d)' <=> InTarget(d)) /\ (Awaited(loc, d)' <=> Awaited(loc, d))
    BY <1>1, <2>1, <2>2 DEF InTarget, Awaited
  <2>11. DirsExpected(loc)' /\ BelowUnwatched(loc)'
    BY <1>1, <1>4, <2>1, <2>3, <2>10 DEF Follows, DirsExpected, BelowUnwatched
  <2> QED
    BY <2>5, <2>6, <2>7, <2>8, <2>9, <2>11 DEF Follows
<1>5. (Following => \E loc \in Locations : Follows(loc))'
  BY <1>1, <1>4 DEF ConvergeInv, Following
<1> QED
  BY <1>2, <1>3, <1>5 DEF ConvergeInv

\* Places that are a tree, nothing but the source at first, and then places of the
\* watches and events from which the backup gets what it lacks.
PatientIInv == MirrorIInv /\ ConvergeInv

LEMMA PatientInitHolds == Init => PatientIInv
BY MirrorInitHolds, ConvergeInit DEF PatientIInv

LEMMA PatientNextHolds ==
  ASSUME PatientUser
  PROVE  PatientIInv /\ [Next]_vars => PatientIInv'
<1> SUFFICES ASSUME PatientIInv, [Next]_vars PROVE PatientIInv'
  OBVIOUS
<1>1. MirrorIInv /\ MirrorIInv' /\ ConvergeInv
  BY MirrorNextHolds DEF PatientIInv
<1>2. CASE UserStep
  BY <1>1, <1>2, UserConverges DEF PatientIInv
<1>3. CASE ChildStep
  BY <1>1, <1>3, ChildConverges DEF PatientIInv
<1>4. CASE UNCHANGED vars
  BY <1>1, <1>4, StillConverges DEF PatientIInv
<1> QED
  BY <1>2, <1>3, <1>4 DEF Next

LEMMA IdleFollows ==
  ASSUME PatientIInv, Idle, ~tooMany
  PROVE  \E loc \in Locations : CaughtUp(loc)
<1>1. MirrorIInv /\ Trees /\ Following /\ pc = "read" /\ events = <<>>
  BY DEF PatientIInv, ConvergeInv, Following, Idle
<1>2. PICK loc \in Locations : Follows(loc)
  BY <1>1 DEF PatientIInv, ConvergeInv
<1> QED
  BY <1>1, <1>2, IdleCaughtUp

\* projekt.c, monitor: the inductive invariant of the child of a patient user.
THEOREM PatientInvariance ==
  ASSUME PatientUser
  PROVE  Spec => []PatientIInv
BY PatientInitHolds, PatientNextHolds, PTL DEF Spec

\* Whenever the child of a patient user has read every event, the backup is the
\* source, entry for entry: what the user did while older events were queued is
\* neither lost nor undone when they are handled late.
THEOREM ConvergedHolds ==
  ASSUME PatientUser
  PROVE  Spec => []Converged
<1>1. PatientIInv => Converged
  BY IdleFollows DEF Converged, CaughtUp
<1> QED
  BY <1>1, PatientInvariance, PTL

\* Whenever the child of a patient user has read every event, it watches every
\* directory of the source, and find_watch gives the directory's present path.
THEOREM WatchesHavePathsHolds ==
  ASSUME PatientUser
  PROVE  Spec => []WatchesHavePaths
<1>1. ASSUME PatientIInv PROVE WatchesHavePaths
  <2> SUFFICES ASSUME Idle, ~tooMany, NEW p \in Path, NEW d \in At(p) \cap DirNode
               PROVE  d \in watched /\ Known(d) /\ find_watch(d) = p
    BY DEF WatchesHavePaths
  <2>1. PICK loc \in Locations : CaughtUp(loc)
    BY <1>1, IdleFollows
  <2>2. MirrorIInv /\ Geography
    BY <1>1, GeographyHolds DEF PatientIInv, ConvergeInv, MirrorIInv
  <2>3. Live(d) /\ PathOf(d) = p
    BY <2>2 DEF Geography, AtFacts
  <2>4. d \in watched /\ Known(d) /\ \A i \in Indices(d) : map[i].path = p
    BY <2>1, <2>3 DEF CaughtUp
  <2>5. FirstIndex(d) \in Indices(d)
    BY <2>2, <2>4, FirstFound, InvParts DEF Indices
  <2> QED
    BY <2>4, <2>5 DEF find_watch
<1> QED
  BY <1>1, PatientInvariance, PTL
=============================================================================
