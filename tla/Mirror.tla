-------------------------------- MODULE Mirror --------------------------------
(***************************************************************************)
(* One child of projekt/src/projekt.c: child_work copies the source to the *)
(* backup, then monitor follows the source through inotify events.         *)
(*                                                                         *)
(* The source is a tree of nodes (inodes) that the user changes while the  *)
(* child works; the kernel turns a change below a watched directory into   *)
(* an event.  A watch descriptor is the node it watches: the kernel has    *)
(* one watch per inode, and adding it again returns the same descriptor.   *)
(* The child knows paths only, from its map of descriptors.                *)
(*                                                                         *)
(* Trees have two levels below the root.  Symbolic links are left out.     *)
(***************************************************************************)
EXTENDS Naturals, Sequences, SequencesExt

CONSTANTS
    Name,         \* names of directory entries
    DirNode,      \* inodes of directories
    FileNode,     \* inodes of regular files
    Root,         \* the inode of the source directory
    Outside,      \* a directory elsewhere on the same file system
    Nowhere,      \* location of an inode that does not exist
    MaxWatches,   \* length of the map (MAX_WATCHES)
    MaxEvents,    \* bound: the user waits while so many events are queued
    UserMay       \* the pairs <<phase of the child, operation>> allowed

Node == DirNode \cup FileNode
Dir == DirNode \cup {Root}
Path == {<<x>> : x \in Name} \cup (Name \X Name)
Version == {"v1", "v2"}   \* contents of a file: writing toggles between the two

ASSUME MirrorAssumption ==
    /\ MaxWatches \in Nat \ {0}
    /\ MaxEvents \in Nat
    /\ IsFiniteSet(Node)
    /\ DirNode \cap FileNode = {}
    /\ Root \notin Node /\ Outside \notin Node \cup {Root}
    /\ Nowhere \notin (Dir \cup {Outside}) \X Name

VARIABLES
    at,          \* at[n]: <<directory, name>> of each inode, or Nowhere
    data,        \* contents of each file
    rootExists,
    watched,     \* inodes the kernel watches for this inotify instance
    events,      \* queued events, oldest first
    backup,      \* what the backup holds at each path
    pc,          \* where the child is
    target,      \* path that was copied and is about to be watched
    map,         \* watch_map[0 .. watch_count - 1]
    pending,     \* pending_cookie and pending_move_path, as <<cookie, path>>
    tooMany      \* "Too many watches" was printed

userVars == <<at, data, rootExists>>
monitorVars == <<pc, target, map, pending, tooMany>>
vars == <<userVars, watched, events, backup, monitorVars>>

NoCookie == <<>>

-----------------------------------------------------------------------------
(* The source as paths.                                                    *)

Under(d) == {n \in Node : at[n] # Nowhere /\ at[n][1] = d}

\* The inodes a path leads to: none or one.
At(p) ==
    IF Len(p) = 1 THEN {n \in Under(Root) : at[n][2] = p[1]}
    ELSE {n \in Node : \E d \in DirNode :
             /\ at[d] = <<Root, p[1]>>
             /\ at[n] = <<d, p[2]>>}

\* What lstat tells about a path: nothing there, a directory, or a file.
Source(p) ==
    IF p \notin Path \/ At(p) = {} THEN "none"
    ELSE LET n == CHOOSE m \in At(p) : TRUE IN
         IF n \in DirNode THEN "dir" ELSE data[n]

Content == {"none", "dir"} \cup Version

-----------------------------------------------------------------------------
(* copy_recursive, copy_file_data and remove_recursive on the backup b.    *)

ParentIsDir(b, p) == Len(p) = 1 \/ b[Front(p)] = "dir"

\* One entry: mkdir leaves an existing entry alone, open fails on a directory,
\* and both fail without a parent directory; nobody looks at the failure.
CopyEntry(b, p) ==
    LET v == Source(p) IN
    IF v = "none" \/ ~ParentIsDir(b, p) THEN b[p]
    ELSE IF v = "dir" THEN IF b[p] = "none" THEN "dir" ELSE b[p]
    ELSE IF b[p] = "dir" THEN "dir" ELSE v

CopyLevel(b, p, k) ==
    [q \in Path |-> IF Len(q) = k /\ IsPrefix(p, q) THEN CopyEntry(b, q) ELSE b[q]]

\* A directory or a file at p, with everything below it; p = <<>> is the root.
copy_recursive(b, p) == CopyLevel(CopyLevel(b, p, 1), p, 2)

remove_recursive(b, p) == [q \in Path |-> IF IsPrefix(p, q) THEN "none" ELSE b[q]]

-----------------------------------------------------------------------------
(* The watch map.                                                          *)

Indices(wd) == {i \in 1..Len(map) : map[i].wd = wd}

\* find_watch and remove_from_map both take the first entry of the descriptor.
FirstIndex(wd) == CHOOSE i \in Indices(wd) : \A k \in Indices(wd) : i <= k

find_watch(wd) == map[FirstIndex(wd)].path

\* The last entry moves into the freed place.
remove_from_map(wd) ==
    IF Indices(wd) = {} THEN map
    ELSE Front([map EXCEPT ![FirstIndex(wd)] = Last(map)])

\* Mutants: only the moved directory itself gets a new path, or none does.
update_watch_paths_Exact(old, new) ==
    [i \in 1..Len(map) |->
        IF map[i].path = old THEN [map[i] EXCEPT !.path = new] ELSE map[i]]

update_watch_paths_None(old, new) == map

\* The entries of the map whose path is old, or lies below it.
update_watch_paths(old, new) ==
    [i \in 1..Len(map) |->
        IF IsPrefix(old, map[i].path)
        THEN [map[i] EXCEPT !.path = new \o SubSeq(@, Len(old) + 1, Len(@))]
        ELSE map[i]]

\* The inodes add_watch_recursive watches.  A path that has become a file is
\* watched too; one that has gone is not.
Visited(p) ==
    LET first == IF p = <<>> THEN {Root} ELSE At(p)
        below(D) == UNION {Under(d) \cap DirNode : d \in D}
    IN first \cup below(first \cap Dir) \cup below(below(first \cap Dir))

PathOf(n) ==
    IF n = Root THEN <<>>
    ELSE IF at[n][1] = Root THEN <<at[n][2]>>
    ELSE <<at[at[n][1]][2], at[n][2]>>

\* Mutant: the map is not checked to have room.
add_watch_recursive_Unchecked(p) ==
    /\ watched' = watched \cup Visited(p)
    /\ \E order \in SetToSeqs(Visited(p)) :
          map' = map \o [i \in DOMAIN order |->
                            [wd |-> order[i], path |-> PathOf(order[i])]]
    /\ UNCHANGED tooMany

\* Mutant: a full map drops its oldest entry instead of the new one.
add_watch_recursive_DropsOldest(p) ==
    /\ watched' = watched \cup Visited(p)
    /\ \E order \in SetToSeqs(Visited(p)) :
          LET all == map \o [i \in DOMAIN order |->
                               [wd |-> order[i], path |-> PathOf(order[i])]]
          IN /\ map' = SubSeq(all, IF Len(all) > MaxWatches THEN Len(all) - MaxWatches + 1 ELSE 1,
                              Len(all))
             /\ tooMany' = (tooMany \/ Len(all) > MaxWatches)

\* They are met in the order of readdir, which is any, parents first.  A full
\* map drops an entry, though the kernel watches the inode.
add_watch_recursive(p) ==
    /\ watched' = watched \cup Visited(p)
    /\ \E order \in SetToSeqs(Visited(p)) :
          LET all == map \o [i \in DOMAIN order |->
                               [wd |-> order[i], path |-> PathOf(order[i])]]
          IN /\ \A i, k \in DOMAIN order : Len(PathOf(order[i])) < Len(PathOf(order[k])) => i < k
             /\ map' = SubSeq(all, 1, IF Len(all) < MaxWatches THEN Len(all) ELSE MaxWatches)
             /\ tooMany' = (tooMany \/ Len(all) > MaxWatches)

-----------------------------------------------------------------------------
(* The user.  An operation reports to the watch of the directory it works  *)
(* in, if there is one.                                                    *)

Event(mask, d, x, cookie) ==
    IF d \in watched
    THEN <<[mask |-> mask, wd |-> d, name |-> x, cookie |-> cookie]>> ELSE <<>>

Phase == IF pc # "read" THEN pc ELSE IF events = <<>> THEN "idle" ELSE "pending"

Free(d, x) == \A n \in Node : at[n] # <<d, x>>

\* A directory that can hold entries: at most one level below its tree's top.
Holds(d) ==
    \/ d \in {Root, Outside}
    \/ d \in DirNode /\ at[d] # Nowhere /\ at[d][1] \in {Root, Outside}

\* n fits in d: not into itself, and no tree gets deeper than two levels.
Fits(n, d) ==
    /\ Holds(d) /\ d # n
    /\ d \in DirNode => Under(n) = {}

\* A directory that is not in the source.
Away(d) == d = Outside \/ (d \in DirNode /\ at[d] # Nowhere /\ at[d][1] = Outside)

\* Work on a directory that is not in the source is an operation of its own.
In(d, op) == IF Away(d) THEN "elsewhere" ELSE op

\* Bounds: once the map has overflowed the user renames nothing, and he stops once
\* it holds a path deeper than the source (an entry left behind by a deleted
\* directory, whose path later renames go on extending).
User(op) ==
    /\ \A i \in 1..Len(map) : Len(map[i].path) <= 2
    /\ pc # "done" /\ rootExists
    /\ tooMany => op \in {"create", "write", "delete"}
    /\ <<Phase, op>> \in UserMay
    /\ Len(events) < MaxEvents
    /\ UNCHANGED <<backup, monitorVars>>

\* A new inode is one the child holds nothing of.
Fresh(n) ==
    /\ at[n] = Nowhere /\ Indices(n) = {}
    /\ \A i \in 1..Len(events) : events[i].wd # n

Create(n, d, x) ==
    /\ User(In(d, "create"))
    /\ Fresh(n) /\ Holds(d) /\ Free(d, x)
    /\ at' = [at EXCEPT ![n] = <<d, x>>]
    /\ events' = events \o Event("create", d, x, NoCookie)
    /\ UNCHANGED <<data, rootExists, watched>>

Write(f) ==
    /\ at[f] # Nowhere
    /\ User(In(at[f][1], "write"))
    /\ data' = [data EXCEPT ![f] = IF @ = "v1" THEN "v2" ELSE "v1"]
    /\ events' = events \o Event("modify", at[f][1], at[f][2], NoCookie)
    /\ UNCHANGED <<at, rootExists, watched>>

SelfGone(n) ==
    Event("delete_self", n, "", NoCookie) \o Event("ignored", n, "", NoCookie)

\* unlink, or rmdir of an empty directory.  The inode goes, and its watch.
Delete(n) ==
    /\ at[n] # Nowhere /\ Under(n) = {}
    /\ User(In(at[n][1], "delete"))
    /\ at' = [at EXCEPT ![n] = Nowhere]
    /\ watched' = watched \ {n}
    /\ events' = events \o SelfGone(n) \o Event("delete", at[n][1], at[n][2], NoCookie)
    /\ UNCHANGED <<data, rootExists>>

\* The user removes the source directory itself.
DeleteRoot ==
    /\ User("delete")
    /\ Under(Root) = {}
    /\ rootExists' = FALSE
    /\ watched' = watched \ {Root}
    /\ events' = events \o SelfGone(Root)
    /\ UNCHANGED <<at, data>>

\* rename: between directories of the source, out of it, or into it.  The two
\* events of a rename have the same cookie, and no other event has it.
Move(n, d, x) ==
    LET from == at[n][1]
        op == IF Away(d) /\ ~Away(from) THEN "moveout"
              ELSE IF Away(d) THEN "elsewhere" ELSE "rename"
        cookie == <<n, Away(from), Away(d)>>
    IN
    /\ at[n] # Nowhere
    /\ User(op)
    /\ Fits(n, d) /\ Free(d, x)
    /\ at' = [at EXCEPT ![n] = <<d, x>>]
    /\ events' = events \o Event("moved_from", from, at[n][2], cookie)
                        \o Event("moved_to", d, x, cookie)
    /\ UNCHANGED <<data, rootExists, watched>>

\* A file renamed onto another file replaces it (how editors save).
Replace(f, g) ==
    LET cookie == <<f, FALSE, FALSE>> IN
    /\ f # g /\ at[f] # Nowhere /\ at[g] # Nowhere
    /\ User(In(at[g][1], "rename"))
    /\ at' = [at EXCEPT ![f] = at[g], ![g] = Nowhere]
    /\ watched' = watched \ {g}
    /\ events' = events \o Event("moved_from", at[f][1], at[f][2], cookie)
                        \o Event("moved_to", at[g][1], at[g][2], cookie)
                        \o SelfGone(g)
    /\ UNCHANGED <<data, rootExists>>

-----------------------------------------------------------------------------
(* The child.                                                              *)

\* child_work: the first copy, before anything is watched.
CopySource ==
    /\ pc = "copy"
    /\ pc' = IF rootExists THEN "watch" ELSE "done"
    /\ backup' = copy_recursive(backup, <<>>)
    /\ UNCHANGED <<userVars, watched, events, target, map, pending, tooMany>>

\* monitor: watch the copied tree, at the start or after an event.
AddWatches ==
    /\ pc = "watch"
    /\ pc' = "read"
    /\ target' = <<>>
    /\ add_watch_recursive(target)
    /\ UNCHANGED <<userVars, events, backup, pending>>

\* The next event is taken; one of the actions below handles it.
Take(mask) ==
    /\ pc = "read"
    /\ events # <<>>
    /\ Head(events).mask \in mask
    /\ events' = Tail(events)
    /\ UNCHANGED <<userVars, watched>>

\* The child stops when the source directory itself is gone.
WatchGone ==
    /\ Take({"delete_self", "ignored"})
    /\ LET wd == Head(events).wd IN
       IF wd = Root THEN pc' = "done" /\ UNCHANGED map
       ELSE map' = remove_from_map(wd) /\ UNCHANGED pc
    /\ UNCHANGED <<backup, target, pending, tooMany>>

Known(wd) == Indices(wd) # {}

\* The path the map makes of the event.
EventPath == Append(find_watch(Head(events).wd), Head(events).name)

\* An event of a watch the map has lost, or never held.
IgnoreEvent ==
    /\ Take({"create", "modify", "delete", "moved_from", "moved_to"})
    /\ ~Known(Head(events).wd)
    /\ UNCHANGED <<backup, monitorVars>>

\* The entry has gone, or moved away: the backup drops it, whatever the
\* source holds at that path by now.
RemoveEntry ==
    /\ Take({"delete", "moved_from"})
    /\ Known(Head(events).wd)
    /\ backup' = remove_recursive(backup, EventPath)
    /\ pending' = IF Head(events).mask = "moved_from"
                  THEN <<Head(events).cookie, EventPath>> ELSE pending
    /\ UNCHANGED <<pc, target, map, tooMany>>

\* The entry is copied as it is now; a directory is then watched.
CopyNow(p) ==
    /\ backup' = IF Source(p) = "none" THEN backup ELSE copy_recursive(backup, p)
    /\ IF Source(p) = "dir" THEN pc' = "watch" /\ target' = p
       ELSE UNCHANGED <<pc, target>>

CopyEntryNow ==
    /\ Take({"create", "modify"})
    /\ Known(Head(events).wd)
    /\ CopyNow(EventPath)
    /\ UNCHANGED <<map, pending, tooMany>>

\* The second event of a rename: what was watched below the old path now has
\* the new one.
MovedTo ==
    /\ Take({"moved_to"})
    /\ Known(Head(events).wd)
    /\ IF pending # NoCookie /\ pending[1] = Head(events).cookie
       THEN /\ map' = update_watch_paths(pending[2], EventPath)
            /\ pending' = NoCookie
       ELSE UNCHANGED <<map, pending>>
    /\ CopyNow(EventPath)
    /\ UNCHANGED tooMany

-----------------------------------------------------------------------------
Init ==
    /\ at \in [Node -> {Nowhere} \cup ((Dir \cup {Outside}) \X Name)]
    /\ \A n \in Node : at[n] # Nowhere => Holds(at[n][1])
    /\ \A d \in DirNode : at[d] # Nowhere => at[d][1] # d
    /\ \A n, m \in Node : at[n] = at[m] /\ at[n] # Nowhere => n = m
    /\ data = [f \in FileNode |-> "v1"]
    /\ rootExists = TRUE
    /\ watched = {}
    /\ events = <<>>
    /\ backup = [p \in Path |-> "none"]
    /\ pc = "copy"
    /\ target = <<>>
    /\ map = <<>>
    /\ pending = NoCookie
    /\ tooMany = FALSE

UserStep ==
    \/ \E n \in Node, d \in Dir \cup {Outside}, x \in Name : Create(n, d, x) \/ Move(n, d, x)
    \/ \E f \in FileNode : Write(f)
    \/ \E n \in Node : Delete(n)
    \/ DeleteRoot
    \/ \E f, g \in FileNode : Replace(f, g)

ChildStep ==
    \/ CopySource \/ AddWatches
    \/ WatchGone \/ IgnoreEvent \/ RemoveEntry \/ CopyEntryNow \/ MovedTo

Next == UserStep \/ ChildStep

Spec == Init /\ [][Next]_vars

-----------------------------------------------------------------------------
(* Properties.                                                             *)

Masks == {"create", "modify", "delete", "moved_from", "moved_to",
          "delete_self", "ignored"}

\* Whatever lies in a directory lies in one that is there.
IsTree(b) == \A p \in Path : Len(p) = 2 /\ b[p] # "none" => b[Front(p)] = "dir"

TypeOK ==
    /\ at \in [Node -> {Nowhere} \cup ((Dir \cup {Outside}) \X Name)]
    /\ data \in [FileNode -> Version]
    /\ rootExists \in BOOLEAN
    /\ watched \subseteq Node \cup {Root}
    /\ \A i \in 1..Len(events) : events[i].mask \in Masks /\ events[i].wd \in Node \cup {Root}
    /\ backup \in [Path -> Content] /\ IsTree(backup)
    /\ pc \in {"copy", "watch", "read", "done"}
    /\ target \in Path \cup {<<>>}
    /\ Len(map) <= MaxWatches
    /\ \A i \in 1..Len(map) : map[i].wd \in Node \cup {Root}

Idle == pc = "read" /\ events = <<>> /\ rootExists

\* Whenever the child has caught up with the user, the backup is the source,
\* entry for entry, unless the map of watches has overflowed.
Converged ==
    Idle /\ ~tooMany => \A p \in Path : backup[p] = Source(p)

\* Whenever the child has caught up, the first entry of every directory of the
\* source in the map, the one find_watch returns, has the directory's path.
WatchesHavePaths ==
    Idle /\ ~tooMany =>
        \A p \in Path : \A d \in At(p) \cap DirNode :
            d \in watched /\ Known(d) /\ find_watch(d) = p

\* The directory a path lies in.
ParentOf(p) == IF Len(p) = 1 THEN {Root} ELSE At(Front(p)) \cap DirNode

\* Even when the map has overflowed only the directories it has no entry for are
\* lost: whenever the child has caught up, the backup agrees with the source about
\* everything in the source directory itself and in those the map still holds,
\* though events of the others come between theirs and are dropped.
OverflowLosesNoMore ==
    Idle /\ tooMany =>
        \A p \in Path : \A d \in ParentOf(p) :
            d = Root \/ Known(d) => backup[p] = Source(p)
=============================================================================
