# Specifications of the stopy programs

This directory holds TLA+ models of the programs of this repository, TLC
configurations that check them on small instances, and proofs of what holds for
every instance. The repository is a collection of C programs for a course on
operating systems: one larger program, `projekt/src/projekt.c` (an interactive
backup tool made of processes, signals and inotify), and many smaller ones on
files (`stopy1`), processes and signals (`stopy2`), threads and mutexes (`stopy3`),
condition variables and barriers (`stopy4`). They are independent of each other.

## Contents

1. Inventory
2. Plan
3. The modules and the code
4. The runs
5. Fairness
6. Proofs
7. What the code gets wrong
8. What is not modelled

## 1. Inventory

### Backup program (`projekt/src/projekt.c`)

| part | state | operations |
|---|---|---|
| interactive process | `main_keep_running`, the table `pids`, `pid_srcs`, `pid_dsts` (`MAX_JOBS` slots) | `add`, `list`, `end`, `restore`, `exit`; `main_handler` on SIGINT and SIGTERM; `forkbomb_protector` (reaping) |
| mirroring child | `keep_running`, `watch_map`, `watch_count`, `pending_cookie`, `pending_move_path`, the backup directory | `child_work`: one full copy; `monitor`: watch, read events, copy, remove, follow renames |
| restore | the two directory trees | `restore_copy`, then `restore_clean` |

The interactive process forks one child per (source, backup) pair; from then on
the two share nothing but signals (`kill`), `waitpid` and the file system. A
child tells nobody that it has stopped, the table finds out by reaping it.

What is hard: signals at any moment, in either process, around blocking calls
(`fgets`, `waitpid`, `read`); a table that lags behind the processes; pids that
the kernel reuses; in the child, events that speak of names while the tree has
moved on, and a map from watch descriptors to paths that has to follow renames;
in restore, system calls whose failure nobody looks at.

What makes it correct: no signal to a stranger, no child forgotten, no job
mirrored twice or restored while mirrored, `end` and `exit` reach the children;
a backup that equals its source whenever the child has caught up; a restore that
brings back what was saved.

### Voting program (`stopy3/eng/sop-voting.c`)

State: a ring buffer of paths with a closing flag, the array `votes`, 256 mutexes,
the flag `finished`. Threads: main (scans the directory into the queue, joins,
tears down), workers (take a path, read the file in batches of 256 bytes, count each
byte), a signal thread (SIGUSR1 prints a partial result under all mutexes, SIGINT
finishes). One worker more than main joins is started, because the loop at line
483 is inclusive and the next `pthread_create` overwrites its id.

What is hard: full and empty at once for a ring of one place, closing while
somebody waits for room, increments in two halves, a lock of all mutexes in order
against locks of one, teardown while a worker may still be there. What makes it
correct: the queue is FIFO and loses nothing, each file is read by one worker, no
ballot is counted twice, partial results are a snapshot, main ends.

### Card game (`stopy4/sop1l4e2/src/sop-mss.c`)

State: hands, `card_to_take` (one place per player), `ready` with a condition
variable, `winner`, a barrier. main creates a player for each SIGINT, starts all of
them, joins, and plays again; players pass cards in turns separated by the barrier.
What is hard: a start signal before the wait, one barrier where two phases need two,
a sentinel that is also a player's number, values left from the last game.

### Dog race (`stopy3/zad3/etap4.c`)

State: a track of cells with a mutex each, the podium (`firstPlace`, `secondPlace`,
`thirdPlace`), `dogsFinished`, `quitFlag`. Dogs (threads) move by holding the mutex of the
cell they go to while they take that of the cell they leave; main polls `dogsFinished`,
prints and joins; a thread waits for SIGINT. What is hard: nested mutexes taken in an order
that random jumps decide, a move made of two updates, places tested outside their
mutex, main waiting for a count. What makes it correct: at most one dog to a cell, a podium
without a dog twice or a gap, final when printed, an end.

### Counter shared by threads (`stopy3/zad1/etap5/etap5.c`)

State: `L`, which only main increases, and `licznik`, which the threads increase under a mutex
when they have tested whether their number divides `L`. Threads read `L` without a mutex,
three times for a value. What makes it correct: main goes on only when every thread has had
`L`, so that none misses a value or mixes two.

### Salt on the fields (`stopy3/lab/sop-salis.c`)

State: `noSacks` and `noSalted` of each field with a mutex and a condition variable, a
semaphore of three, `do_work`. Porters add sacks, a laborer per field takes them, a thread waits for
SIGINT, main destroys each field's mutex, joins its laborer, and declares victory if `do_work`
is still set. What is hard: a timed wait whose wake-up is sent outside the mutex, a `break` that
leaves the wait but not the salting, a mutex that is gone while its users are not. What makes it correct:
nobody salts what is not there, victory is true, everybody ends.

### Letter counter (`stopy3/antoni/prelab.c`)

State: a ring of paths that main fills before it starts the threads, `freq`, `quit`. Threads
poll `len` without the mutex, pop, and count; main sends SIGUSR1 to itself every 100 ms; a signal thread
prints, or sets `quit` for SIGINT. What is hard: `len` is stale when it is used, and the pop waits for
ever. What makes it correct: each text is counted once, and completely.

### Video player (`stopy3/zad2/sop-vp2.c`)

State: two rings of frames between decoder, transformer and display, `is_running`. Each polls the flag
without the mutex and its ring under it. What is hard: the end, with frames in flight. What
makes it correct: order, no frame freed twice or while somebody has it, an end.

### Course programs on threads (`stopy3/prog18` to `prog20`)

| program | state and operations | hard behaviour |
|---|---|---|
| `prog18` | bins with a mutex each, `balls_thrown` and `balls_waiting`; detached threads throw, main polls and adds up | main reads the bins without their mutexes |
| `prog19` | an array and its length; a thread removes an item for each SIGINT, SIGQUIT clears the flag | removal moves items while main prints them |
| `prog20` | counters of the years; students count themselves in, sleep, count themselves out in a clean-up handler; main cancels them at random | cancellation at any sleep, handlers pushed and popped on the way |

### Programs of processes and signals (`stopy2`)

| program | state and operations | hard behaviour |
|---|---|---|
| `zadanie4/sop-l2` | a part of a file per child; SIGUSR1 starts all children, SIGINT stops them | SIGUSR1 before `sigsuspend`, a second SIGINT, division with a remainder |
| `zadanie4/warsztaty` | a tree of processes that forks itself at SIGUSR1; SIGUSR2 sends a document up, SIGINT the end of the day down | flags inherited by fork, pids that were never set, the last to leave is the highest |
| `zadanie1` | children count SIGUSR1s until their alarm and then write as many blocks | the alarm between test and `sigsuspend`, signals that merge |
| `zadanie2` | children in a kindergarten: illness spreads by SIGUSR1, SIGALRM fetches, SIGTERM ends the day | signals before the handlers, signals a child sends to itself |
| `zadanie3` | children take turns at counting, SIGUSR1 starts and SIGUSR2 stops one, SIGINT ends | stop and start pending together, SIGINT before `sigsuspend` |
| `prog15` | a child sends SIGUSR1s and SIGUSR2s, the parent counts SIGUSR2 in `sigsuspend` | signals that merge |
| `prog16a` | the parent copies blocks while the child interrupts it with SIGUSR1 | short reads and writes, a SIGUSR1 to the group before the child is ready |

What makes them correct: no signal that matters is lost, none has an effect twice, and the processes end.

### The rest

`stopy1/*` are single-process tools on directories and files, with no state that outlives a call.
`stopy4/prog21` to `prog23` are unfinished and do not compile as committed. `stopy3/prog17` and `stopy2/prog13a`, `prog13b`
and `prog14` only start threads or processes that share nothing and wait for them. Directories with `etap1`, `etap2`, ... hold
earlier stages of the program in the highest stage. Build files and data are not programs.

## 2. Plan

Done, in this order: the supervisor with its abstract service and proofs; the
mirroring child; restore; the queue with its abstract FIFO and proofs; the voting
threads with proofs; the card game; the dog race and the shared counter with proofs; salt,
letter counter and video player; the programs on bins, arrays and students; the seven
programs of processes and signals; proofs for the students, the card game and the salt; proofs for the letter
counter, the video player and every other small program, for restore, for the votes, and for the types and watches of
the mirroring child; then the proof that the child of a patient user converges.

Next, most important first:

1. `Mirror` with symbolic links, with an overflowing event queue, and two children that share a backup.
2. The ring of paths and those of frames as a `ClosableFifo` that is never closed, in a module they share with `PathQueue`.

Small programs share a run, one behaviour of which is a behaviour of one program (`MCHandOvers`,
`MCCoursePrograms`).

## 3. The modules and the code

| module | models | kind |
|---|---|---|
| `BackupService` | what the backup program promises: a set of mirrored jobs, at most one restore, never of a mirrored job | abstract |
| `Supervisor` | interactive process, table, children as far as signals and exits go | detailed |
| `Mirror` | one child: `child_work`, `monitor`, the map, copying and removing, the user's changes and the kernel's events | detailed |
| `Restore` | `copy_recursive`, `restore_copy`, `restore_clean` | algorithm in four steps |
| `ClosableFifo` | what the queue promises | abstract |
| `PathQueue` | `struct queue` and its operations | detailed |
| `Voting` | EXTENDS `PathQueue`: main, workers, signal thread | composition |
| `CardGame`, `Salis`, `Prelab`, `VideoPipeline` | threads that hand something on: cards, sacks, paths, frames | detailed |
| `DogRace` | dogs, main, the SIGINT thread | detailed |
| `SharedCounter` | main, the counting threads, the SIGINT thread | detailed |
| `StudentYears`, `BallBins`, `ArrayRemover` | `prog20`, `prog18`, `prog19` | detailed |
| `CopyInParts`, `Office` | `zadanie4/sop-l2.c`, `zadanie4/warsztaty.c` | detailed |
| `AlarmBlocks`, `Kindergarten`, `WorkInTurns` | `zadanie1`, `zadanie2`, `zadanie3` of `stopy2` | detailed |
| `SignalTally`, `SignalBlocks` | `prog15`, `prog16a` | detailed |
| `SupervisorProofs`, `RestoreProofs` | theorems about the module of that name | proofs |
| `VotingProofs` | theorems about `PathQueue` and `Voting` | proofs |
| `MirrorProofs` | theorems about `Mirror`, whatever the user does | proofs |
| `ConvergeProofs` | theorems about `Mirror` with a patient user | proofs |
| `ThreadProofs` | theorems about `DogRace`, `SharedCounter`, `StudentYears`, `ArrayRemover`, `BallBins` | proofs |
| `HandOverProofs` | theorems about `CardGame`, `Salis`, `Prelab`, `VideoPipeline`, and `MCHandOvers` | proofs |
| `SignalProofs` | theorems about `CopyInParts`, `AlarmBlocks`, `Kindergarten`, `SignalTally`, `SignalBlocks`, `WorkInTurns`, `Office`, and `MCCoursePrograms` | proofs |
| `MCSupervisor`, `MCMirror`, `MCRestore`, `MCVoting`, `MCCardGame` | instances | for TLC |
| `MCHandOvers` | `CardGame`, `Prelab`, `Salis` and `VideoPipeline`, one at a time | for TLC |
| `MCCoursePrograms` | the other twelve programs, one at a time | for TLC |

Operators keep the names of the C functions and variables where there is one;
`PROJECT.json` maps each definition to its lines. A definition with a suffix after an
underscore that no C function has (`EndReturn_KeepsSlot`) is a copy of the one below
it with a plausible slip in it, to show that the properties notice; none is part of a
specification.

**Supervisor.** `pc` is where the interactive process is: at the loop test, reaping,
in `fgets`, in one of the commands, or past the loop. A command's arguments are
picked one at a time as the code's loop reaches them, and every question put to the
file system may be answered either way. `child[p]` is where a process is in
`child_work` and `monitor`; the two states that matter most are `forked` (the handler
is still the parent's) and `armed` (the flag is tested, `read` not yet entered).
`main_handler` may strike at any `pc`: a blocked `fgets` or `waitpid` fails with
EINTR, because the handlers are installed without SA_RESTART. Reaping frees slot and
pid in one step, so that a pid can be reused at once. `termed` is a history variable.
Two notes on the code: the branch `errno == EINTR && main_keep_running` (line 976) is
dead, since every handler that interrupts `fgets` clears the flag; a SIGINT of the
terminal also reaches a child that has not yet ignored it, where the inherited
handler clears a flag that nobody reads, so that it has no action of its own.
`forkbomb_protector` and the loop of kills at the end are one step each: between two
of their iterations only children move, towards being zombies, and a child that
becomes one after its turn is the same as one that becomes one after the loop.

**Mirror.** The source is a tree of inodes (`at`), because inotify watches inodes
while the child knows paths. A user's operation changes the tree and appends the
events inotify would report to the watches it concerns; `Take` removes the first, and
the actions follow the if-chain of `monitor`. `copy_recursive` and `remove_recursive`
are operators on the backup as a function from paths to contents. A directory is
copied in one step and watched in the next (`pc = "watch"`).

**Restore.** A tree is a function from paths (two levels) to entries: nothing, a
directory, a file with one of three contents of which two look alike to the test of
size and time, or a link by the prefix of its target. Each of the two passes is one
step, because no one else works on the trees then.

**PathQueue and Voting.** Every access to the queue holds its mutex, so that an
operation is a step and waiting (unlock, sleep, lock, test) is the step not being
enabled. `votes[c]++` is two steps, a load together with taking the mutex and a store
together with giving it back. Setting `finished` and closing the queue happen under
`finished_mutex` and are one step. What happens after `queue_dispose` to a worker that
is still there is undefined: `UseAfterFree` ends the process, or it just goes on.

**CardGame.** A critical section of one access is a step. `LookAtHand` and `Win` are
two, as others may write `winner` between them. `Barrier` releases all at once.

**DogRace.** Only a dog that moves holds a mutex from one step to another, that of
`nextPos`, so that a mutex is free when no moving dog has it (`CellFree`); all other critical
sections are steps. Reading the three places one after the other without the mutex comes to one look
(`LookAtPodium`) because no place is ever freed; setting the place found is another step.
The start cell is special in the code: dogs begin there uncounted, and its number falls below
zero as they leave. `printed` is a history variable.

**SharedCounter.** Each unlocked read of `L` is a step. `MaxL` bounds main's counting, and is the
only bound in the module's guards. `said` is the history of what was printed.

**Salis.** `noSacks` is loaded in one step and stored in another, because a destroyed mutex keeps nobody
out: `destroyed` holds the fields whose mutex is gone, on which `Lock` and `Unlock` do nothing. glibc refuses to destroy a mutex that
somebody holds or waits on a condition with. A timed wait may end at any time. `MaxSacks` keeps porters from
a field that has enough while another has not; it bounds the state and nothing else.

**Prelab.** The ring is one record `cb`, each operation on it a step under its mutex. The look at
`len` is a step without it. A text is a sequence of letters, and how the directory is walked is any order.

**VideoPipeline.** One polling loop for all threads and both rings: look at `is_running`, then try. A frame is
its number and whether it is transformed; `freed` counts how often it was freed.

**StudentYears, BallBins, ArrayRemover.** A cancelled student runs the handler it has pushed, at the place it
sleeps; `pop` is a place of its own because it counts the student off before the next year counts it on. In
`BallBins` a ball is thrown and counted in two steps. In `ArrayRemover` the printer reads one item a step,
holding the mutex; `printedItems` is what it has read.

**Programs of processes.** A signal is an element of a pending set: signals of a kind merge. A blocked signal is
delivered in `sigsuspend`, and all that are pending are then handled before it returns; one that is not blocked is delivered some
time after it was sent, in an action of its own. Handlers that interrupt nothing but a look at a flag are
one step; that of the kindergarten, which signals its own process, is several. In `Office`, `pids[]` of a clerk holds the forked ones
only from the fork on, and what is read before that is any value.

## 4. The runs

| run | instance | checks |
|---|---|---|
| `supervisor` | table of 2, 3 pids, 1 source, 3 backups and one inside the source | `TypeOK`, `NoStrayKill`, `EveryChildListed`, `OneMirrorPerJob`, `ExitSignalsAll`, refinement of `BackupService` |
| `supervisor_end` | table of 2, 2 pids, 2 backups, fair | `EndReturns` |
| `supervisor_end_hangs` | the same | `EndStopsWatching` fails |
| `mirror` | 2 directories, 2 files, 2 names, 5 watches, 2 queued events; every initial tree | `TypeOK`, `Converged`, `WatchesHavePaths`, `OverflowLosesNoMore` |
| `mirror_move_out` | the same, a patient user who also moves things out and back | `Converged` fails |
| `restore` | 2 names at the top, 1 below; every tree saved, every tree restored over | `TypeOK`, `RestoresUnlessConflict`, `RestoresOnce` |
| `restore_kinds` | the same | `RestoresDirectories` fails |
| `voting` | 2 joined workers and the unjoined one, 3 files, 2 candidates, ring of 2, batch of 2, one SIGUSR1, SIGINT at any time | `TypeOK`, `NoOvercount`, `PrintsSnapshot`, `MissesAtMostOneFile`, `OneReaderPerFile`, `PlacesInOrder`, refinement of `ClosableFifo`, `Terminates` |
| `voting_mutex` | the same | `DedicatedMutex` fails |
| `hand_overs` | 2 players, 2 cards each, 2 suits, 2 deals, 2 games; or up to 3 texts, 2 threads, ring of 2; or 2 fields, a porter, 2 sacks at a time, 1 to salt; or 5 frames, rings of 2 | `TypeOK`, `WinnerHasHand`, `DealtCards`, `LettersExact`, `SaltedFields`, `ShownInOrder`, `HandOversGoOn` |
| `card_game_lost_card` | the players as above | `NoCardTwice` fails |
| `course_programs` | one of twelve programs, see below; SIGINT, alarms and cancellation at any time | `TypeOK`, `OneDogPerCell`, `PodiumFair`, `PodiumIsFinal`, `NoValueMissed`, `SaysWhatDivides`, `YearCountersExact`, `PrintsWhatIsThere`, `EveryByteOnce`, `SignalsHaveCauses`, `ProgramsGoOn` |

A property of a run of several programs may be the conjunction of what its programs promise: `SignalsHaveCauses` is
`IllnessHasCause`, `BlocksAsked`, `TallyExact`, `BlocksComplete`, `TurnNotLost` and `SuperiorsStay`; `PrintsWhatIsThere` is
`TotalIsBallsCount` and `PrintedAtOnce`. `PROJECT.json` lists one mutated copy per property; the modules hold another for
most of the other conjuncts (`Play_AlarmAlways`, `WriteBlock_OneMore`, `Tick_Strict`, `WaitFor_Nobody`,
`removeItem_NoMutex`, ...).

Why the bounds are enough to be interesting:

- *Supervisor.* One pid more than slots makes the table overflow, and as few as three
  make reuse common; backups outnumber slots, so that every slot is used for different
  jobs in turn. A job is a pair, and the code never compares sources alone, so that one
  source loses nothing. With symmetry in pids and backups the run has 317,034 states.
- *Mirror.* Two directories allow one inside the other and a swap of the two; two files
  allow replacement; two queued events are one rename, so that a rename is always
  followed by operations while its second half is handled. Five watches are room for
  the root and both directories and for the duplicates that arise, and few enough to
  overflow. `Converged` and `WatchesHavePaths` say nothing of an overflow; there
  `OverflowLosesNoMore` takes over: what lies in a directory that the map still holds is mirrored
  all the same, and the events of the others, between those, change nothing. After an overflow the user
  renames nothing: a directory renamed out of one that is unknown would be copied and watched anew while its old entry,
  if it has one, comes first, which is the stale path of `mirror_move_out` again. `UserMay` says what the user may do in which phase of the child: in `mirror`,
  create, write and delete while events are queued, rename only when the child is idle,
  and nothing between a copy and its watch. These restrictions are needed: the code
  does not converge without them (a file made between copy and watch is reported to
  nobody; a rename before the first half of an earlier one is handled leads to a copy
  under a name that is gone). They state under which use the mirror can be relied on.
- *Restore.* Below a directory, entries do not depend on each other, and two top names
  are enough for every kind next to every other kind. `RestoresUnlessConflict` excepts three cases by name: an entry of another kind in the
  way, a file that looks unchanged, and a link that led into the backup. Of the last two it says what is left: the file as it was changed, and a
  link into the source. The first is the run `restore_kinds`, which fails.
- *Voting.* A ring of two places is full, empty and wrapped round with three files; the
  files are shorter and longer than the batch; candidates occur at equal and at different
  positions. 620,594 states.
- *CardGame.* The program takes 4 to 7 players. Two players are each other's neighbours
  and have the races of the barrier, the winner and the start; three make more than a
  million states without showing another kind of step. The deals share no card, so
  that a card tells which game it is of, and neither holds the 0 that `card_to_take` starts
  with.
- *Prelab, Salis, VideoPipeline.* The ring of paths is empty, full, wrapped round and too small for the texts, which
  are empty, of one letter and of two. Two fields let main destroy a mutex while the laborer of the other works; a
  porter that brings two sacks leaves one behind. A second porter, who shares a field and its number of sacks
  with the first, makes the run too large for its liveness property; `SaltedFields` is proved for any number of porters.
  Five frames fill a ring of two, empty it and wrap it round twice.
  With the card game, 105,838 states.
- *DogRace, SharedCounter.* Three dogs on four cells with jumps of one and two: they meet, wait for each other's mutex in
  chains, overtake, and collide on the podium; there is a cell between start and finish that may be jumped over. The code asks for
  more than 20 cells and jumps up to five, which the theorems cover. Three threads let main see a count that
  lacks one, and M = 1, 2, 3 up to L = 3 make values that all, some and only one divide.
- *StudentYears, BallBins, ArrayRemover.* Two students meet in a counter and are cancelled in different years; the theorem
  covers the rest. Four balls for two threads leave one of them late. An array of three is emptied.
- *Programs of processes.* Two children differ in who has its handlers, who is waited for and who is signalled first. A file
  of up to three bytes for two children is divisible or not, and leaves a part empty. Two SIGINTs are the first and the one that meets
  the default action. In `WorkInTurns` two changes come back to the first child. Three clerks in a chain are
  the highest, one that is superior and subordinate, and one with subordinates never set. All twelve: 163,732 states.

All runs are without a deadlock check: each program may stop, by ending, and the backup
and the interactive ones also by waiting for a user who does nothing. The small programs, moreover, do hang in places
(section 7); where one may, the liveness property names the state it hangs in.

## 5. Fairness

- `Supervisor`: weak fairness of each child's own steps, and of `end`'s call and return of
  `waitpid`. It is what a scheduler does with a process that can run. There is none for
  commands, signals and `read` returning events: no user has to type or touch a file. This
  is why `EndReturns` starts from states in which the child does not depend on the user.
- `Voting`: weak fairness of each worker, of the signal thread and of main. Waits are
  polling loops (the queue) or mutexes; a worker that waits for a mutex of which the
  signal thread holds all is let in because the signal thread gives them all back, and the
  user sends a bounded number of SIGUSR1.
- `CardGame`: weak fairness of each player, of the barrier, of the start and of the next game; none
  for the SIGINT that brings a player.
- `DogRace`, `SharedCounter`: weak fairness of each thread and of main, none for SIGINT. A dog that finds the next
  cell taken tries again with another jump, and waits for a mutex only for as long as others move: holders are always
  ahead of those they make wait, so that weak fairness is enough.
- `Prelab`, `Salis`, `VideoPipeline`: weak fairness of every thread and of main, and of the signal thread, where it
  is modelled apart, taking a signal that is there. A step of a thread is one that is not waiting, or a poll.
- `ArrayRemover`: weak fairness of the printer and *strong* fairness of the remover, which may find the mutex taken again and
  again: the printer sleeps a second between two printings, outside the mutex.
- Programs of processes: weak fairness of each process and of the delivery of each signal that is pending and not blocked, and of
  alarms, which ring. In `SignalTally` only the parent is fair: the property holds although the child may stop sending.
- No user is fair. `StudentYears` and `BallBins` have no liveness property, and assume nothing.

In a run of several programs the fairness of a program is assumed only of the behaviours that run it.

## 6. Proofs

Every safety invariant and action property of the passing runs but `OverflowLosesNoMore` is a theorem; so are the two
refinements. So is `SlotFreedByReaping`, that a slot is freed only by reaping its child or by an interrupted `end`, which no run
checks: a living child that lost its slot would break `EveryChildListed`. Each rests on an inductive invariant, named `IInv` or the like, that starts true and that each action keeps; the
paragraphs below say what it adds to the properties and why.

The theorems assume of the constants what the modules assume, which TLC evaluates in the runs:

- `ConstAssumption` (`Supervisor`): a table of at least one slot, null values apart from the others;
- `QueueAssumption`, `VotingAssumption`: a ring of at least one place; at least one worker that main joins, another one that it
  does not; files are sequences of candidates; a batch of at least one;
- `MirrorAssumption`: finitely many inodes, the source directory and the place outside are none of the others, a map of at least one entry.
  In `MirrorProofs` nothing is assumed of `UserMay`: those theorems hold for every user. The theorems of `ConvergeProofs` assume
  `PatientUser`, that the user may do at most what `PatientRenames` allows, the value that `UserMay` has in the run `mirror`: nothing
  while the child copies a directory or adds watches, renames only when no event is queued, nothing moved out of the source. Other
  users do prevent the backup from converging (`mirror_move_out`, and section 4);
- `DogAssumption`, `CounterAssumption`, `StudentAssumption`, `BallAssumption`, `ArrayAssumption`: finitely many threads, a track of at
  least two cells, positive numbers to divide by, at least one bin, one ball, one item;
- `CardAssumption`, `SalisAssumption`, `PrelabAssumption`, `VideoAssumption`: at least one player, field, thread, and place in a
  ring; deals that give each player its cards; porters that bring something; finitely many porters and texts;
- `CopyAssumption`, `WriterAssumption`, `KidAssumption`, `TallyAssumption`, `BlocksAssumption`, `TurnsAssumption`: at least one
  child, signal, block and byte in a block;
- `OfficeAssumption`: finitely many clerks with up to two subordinates each, and every clerk but the highest is the subordinate of exactly one.

The bounds of the guards (`MaxEvents`, `MaxUsr1`, `MaxFrames`, `MaxL`, `MaxGames`, ...) are constants too, so that the theorems
hold for every bound.

**Supervisor.** `IInv` is the inductive invariant. None of the safety properties is
inductive alone. That no listed child is missing (`EveryChildListed`) has to survive
`end`, which forgets a child if interrupted: `ForgottenOnlyAtEnd` says that then the flag is
cleared, the program is at a place from which it can only leave, and the child had its
SIGTERM. From this `ExitSignalsAll` follows as well. `NoStrayKill` needs that `waitpid` and
the freeing of the slot refer to the same child (`WaitsForSignalled`) and that a pid carries
nothing over when it is reused (`FreeIsClean`). `OneMirrorPerJob` needs `CmdFresh`: between the
duplicate check and the fork, the table only loses entries; and `TableMatches`, that the
table's paths are those the child works on. `Refinement` maps the running listed children
to the mirrored jobs and the restore command to the service's restore, and shows each
step to be a step of `BackupService` or a stutter.

**PathQueue.** `QInv` is type correctness with `PlacesInOrder`: tail is count places after
head, and a place is non-NULL exactly if it lies between them. With it each operation is a
step of `ClosableFifo` on the sequence read off from head; `After` is a conditional and not
a remainder, which keeps the arithmetic linear.

**Voting.** `IInv` is `TypeOK`, `PlacesInOrder`, `OneReaderPerFile`, `Reading` (a worker has a file
open at certain places only, and is never past its end) and `Locks` (who holds which mutex:
the signal thread a prefix, workers their positions beyond it, all different). That each
step is a step of the queue or leaves it alone (`QueueStep`) brings the queue's theorems
over to the shared queue. `NoOvercount` needs `Counts`: a worker that is about to write a vote holds one that is not more
than the ballots counted before its own; two that count for the same candidate may overwrite each other, which loses votes and never adds one.
`MissesAtMostOneFile` needs `Leftovers`: until the workers are joined, what is unread is in the directory, the queue or a worker's hands,
and a worker is done only when the queue is empty for good; afterwards only the worker that is not joined can hold a file.

**Restore.** Paths have one name or two, so that a restore can be computed entry by entry: `RestoredEntry` says what it makes of an
entry, given the backup's, and `RestoredTop` and `RestoredSub` that the two passes do just that. `RestoreIInv` says what
the source is in each phase; that a restore restores, and that a second one changes nothing, are then facts about single entries
(`EntryBack`, `EntryOnce`). `IsTree` is part of it: passes that write below a missing directory would fail.

**Mirror.** `EveryWatchKnown` says that as long as the map has room, the child knows every inode
that the kernel watches, so that no event of a watch is passed over. It is not obvious, because an inode may have two entries
after it was moved, and the end of an inode removes only the first. It holds since the kernel reports such an
end only of an inode that it watches no longer (`SoundEvent`), and that an inode is not used again while the child holds anything of it. That
the backup is always a tree is part of `TypeOK`: copies and removals work on whole subtrees.

**Mirror with a patient user.** `Converged` is about the moment when the queue is empty; an invariant must say of every other moment that
it will hold by then. `ConvergeInv` says that the inodes form a tree (`Trees`) and, while the child follows the source, that there is a
function `loc` from inodes to paths for which `Follows(loc)`: `loc[w]` is where the inode `w` is when its queued events are handled. (With
a rename queued the map still has the old paths, so the path of a later event cannot be read from it; `Resolved` says what
the map will give.) The parts of `Follows(loc)`:

- `Settling`: the backup has what the source has, and no queued event removes it; or it is *due*: an event will copy it and none
  after that removes it. What the source does not have, the backup does not have either, or a queued event removes it. A copy that would fail for the want of a
  directory, or because of a file in its place (`mkdir` and `open` fail silently), is ruled out: `DirsFirst`, `Compatible`.
- `RenamesFirst`: the two events of a rename are next to each other at the head of the queue, because the user waits, so that `pending`
  always belongs to the next event. `MapResolves`: the map finds every watch, with its path as it will be.
- `Watching`, `EventsWatched`, `SelfLast`: watches are on live directories, and an event whose watch is gone comes before the event that
  removes its directory.
- `DirsExpected`, `BelowUnwatched`: a directory that is not watched yet will be, by an event of its own or of its parent, and what an
  earlier directory of that name left in the backup is removed first.

One lemma per action shows that `Follows(loc)` is kept; a rename and `add_watch_recursive` choose a new `loc`. The hard one is a change below a directory that is still
unwatched: no event reports it, and it is not lost only because the directory's own event is queued and copies all that is there by then. When the queue is empty nothing is
due or to be removed, which leaves equality (`IdleCaughtUp`). Each part was model-checked on the run's instance before
it was proved. Nothing is proved of a map that has overflowed (`tooMany`); `OverflowLosesNoMore` is model-checked.

**DogRace.** `OneDogPerCell` is not inductive: between the two updates of a move, what keeps others away is the mutex
of the next cell. `OnTrack` says that a moving dog goes forward to a cell that is empty until it
lands, and that no two moving dogs go to the same one. For the podium, `PlacesGiven` says that a dog is on it only when
it is past its choice and that the places before the one it found are taken; `Counted` and
`PrintedLast` say that main prints when all dogs are done, which makes the print final.

**SharedCounter.** `Counts` says that `licznik` is the number of threads that have had this `L`, by `Follows` at most one
value behind. When main goes on, that number is all of them (a cardinality argument), so nobody is at work,
and the next value begins with nobody counted. `SaidSoFar` is what a thread must have printed at each place.

**StudentYears.** `YearCountersExact` is inductive with the types and `YearsPlausible` (who studies is in one of the years, an
engineer is past them). Each step moves one student into or out of the set a counter is to count, which `CountIn` and
`CountOut` turn into plus and minus one.

**CardGame.** `WinnerHasHand` needs `Winning`: a player about to be recorded has its hand complete, and a recorded one is
between giving and testing, where its hand does not change; `Starting` says that a new game begins without a winner. `DealtCards`
needs `HandsDealt`, the argument of the barrier: before it a player answers for the card it gave its neighbour, behind
it for the card it is to take, and as all pass at once and every place has a giver (`Predecessor`, arithmetic modulo
the number of players), no old card is taken. The theorems say nothing of games that hang.

**Salis.** That mutexes are destroyed early is why `IInv` relies on no mutex. `LaborersSafe`: what a laborer has found stays, because
others only add, and a number that a porter has read earlier was not negative either (`PortersSafe`), so that even a lost update
leaves no field below zero while there is work, nor below minus one afterwards. Its types are a theorem of their own: that
`permits` never exceeds the semaphore's count needs the number of porters that hold one (`SalisFull`). `EndsSalted` and `Joined`: main declares victory after
all laborers have ended, with `do_work` still set, so that none of them ended for any other reason than its goal.

**Prelab.** `LettersExact` bounds counts while texts are still being read, so that its proof needs to know how much of each is counted: `Counted(c)` has a witness, the
number of letters of each text that `freq` holds, and every action is followed on that witness. `freq[l]` is the number of
pairs of a text and a place up to there that hold `l` (`OneLetterMore`). `RingStraight` is why no text is taken twice: main pushes
everything before the first pop, so that the ring never wraps round; and `ReadersApart` that each text has one reader.

**VideoPipeline.** `ShownInOrder` needs the whole line of frames (`Lined`): one is shown, others wait in the second ring, one is being
transformed, others wait in the first ring and one is decoded, and their numbers follow each other without a gap, as long as
nobody ended; after the end there may be a gap, and `first` is where the line goes on. What is in line is not freed (`Unfreed`).
Places in rings are conditionals, as in `PathQueue`; `PlaceMod`, `PlacePush` and `PlacePop` relate them to the code's `%`.

**BallBins.** The total is a sum over bins, which would be a recursion. The proof numbers the balls that landed instead: a function `at` from their
numbers to bins gives each bin's count as a cardinality, and the sum of some bins is the number of balls in one of them (`BallsLand`).

**ArrayRemover.** `arrayCount` is the number of items left, and main holds the mutex just while it prints.

**Programs of processes.** Each property is inductive with the types and with facts about phases. *Copy:* the parts lie end to end and
reach as far as the parent has read (`PartsInOrder`), which rests on `buf_size` times the number of children being more than the file's
length (`PartSize`); children stay inside their parts. *Kindergarten:* where a cough is known somebody has coughed, and who coughs is ill (`CoughsKnown`). *`zadanie1`, `prog15`:* what is written, or reported, is what was counted.
*`prog16a`:* a block is whole when it is reported, through short reads and writes (`BlockAtHand`); no signal is counted that was not sent
(`SignalsSent`). *`zadanie3`:* the child whose turn it is has SIGUSR1 waiting or works with nothing waiting, or is ended
(`TurnKept`). *Office:* nobody comes before its superior or leaves after it (`ClerksInOrder`), nobody leaves unless the user closed the
office (`ClosedFirst`), and a clerk has one superior, which the assumption says with a cardinality (`OneSuperior`).

**Programs that share a run.** `MCHandOvers` and `MCCoursePrograms` run one program and leave the variables of the others alone, so that
each inductive invariant is kept by the steps of the others; `TypeOK`, `PrintsWhatIsThere` and `SignalsHaveCauses`, which are conjunctions over
programs, follow (`HandOversTypeCorrect`, `ProgramsInvariance`).

Only model-checked:

- Liveness: `EndReturns`, `Terminates`, `HandOversGoOn`, `ProgramsGoOn`. The provers used do not handle fairness and ENABLED.
- `OverflowLosesNoMore`: the invariant of `ConvergeProofs` is stated of a map that has room.

## 7. What the code gets wrong

Five runs end in a counterexample, each against a sentence of the code:

- `supervisor_end_hangs`: `end` "stops watching a directory" (projekt.c:968). It may wait
  for ever, because its single SIGTERM can arrive before the child's handler is installed, or
  between the test of `keep_running` and `read`.
- `mirror_move_out`: `add` "adds watching a directory" (966). A directory moved out and back
  under another name has two map entries with the same descriptor, and the stale one is found.
- `restore_kinds`: `restore` "restores a backup to a source" (969). A directory in the
  place of a file stays, and so does a file in the place of a directory. `restore` ignores both failures, of which only
  the first leaves a message of `perror` behind, and says "Done.".
- `voting_mutex`: "each field of this array is protected by a dedicated mutex"
  (sop-voting.c:50). The mutex is chosen by buffer position.
- `card_game_lost_card`: "pass a random card to your neighbor" (sop-mss.c:133). A card may
  be overwritten before the neighbour takes it.

The notes on the exercises, `stopy2/mapa.txt` and `stopy3/mapa.txt` (in Polish), describe four small programs as ending where the code may wait
for ever. No run is about these sentences: the liveness property of all programs, `ProgramsGoOn`, excepts just the states named here, and holds everywhere else.

- *Dog race:* "Działa kończenie programu z użyciem SIGINT", ending by SIGINT works (stopy3/mapa.txt:37). Dogs that quit
  do not count themselves, and main waits for `dogsFinished` for ever (etap4.c:116; excepted: `quitFlag` is set).
- *`zadanie1`:* a child "konczy dzialanie zamyka plik po 1 sekundzie", ends after a second
  (stopy2/mapa.txt:34). An alarm between the test of the flag and `sigsuspend` (79, 80) is noticed only at the next SIGUSR1, if there is one (`MissedAlarm`).
- *Kindergarten:* the parent sends SIGTERM "do wszystkich dzieci, a dzieci czekaja na jego otrzymanie", to all
  children, who wait for it (stopy2/mapa.txt:39-41). SIGTERM before a child's handler (68) is ignored, and the parent waits for a child that plays on (`MissedTerm`).
- *`zadanie3`:* the parent passes SIGINT on and "dzieci zapisuja swoj licznik do pliku i koncza dzialanie", the children save
  and end (stopy2/mapa.txt:52-53). A child that never had its turn (64), or is told to end between its test and `sigsuspend` (67, 78),
  stays (`StaysForEver`); and the parent itself, in its inner loop (120), looks at the signal only after the next SIGUSR1, so that the property asks only that
  the program ends once the parent has passed SIGINT on.

The notes also ask the video player to free "wszystkie zasoby", all resources, at SIGINT (stopy3/mapa.txt:32); frames that are in the rings
by then are not freed.

The models also show behaviour of which the repository says nothing, or nothing definite; where it ends in waiting, the liveness property excepts just that state:

- *Backup:* a child that finds the table full runs unlisted. A file changed to the same length within the second of its backup is
  not restored (824), and a link that led into the backup is restored as one that leads into the source (330, 840).
- *Voting:* the unjoined worker may be cut short or touch freed memory.
- *Card game:* player 0 cannot win, and a game can hang at the barrier when a win of the next turn is seen by a slow player
  in this one.
- *Letter counter:* more texts than places hang main in the ring before any thread exists (line 134); a thread that
  saw a path another one took waits in the pop for ever, whatever `quit` says, and main for it (`StuckInPop`).
- *Salt:* mutexes are destroyed before their users are joined, and updates of `noSacks` may get lost; `break` makes a laborer
  salt once without a sack.
- *`sop-l2`:* a second SIGINT ends the parent by the default action, perhaps before the children have had SIGUSR1.
- *`warsztaty`:* flags are inherited: a document that arrives before the day begins multiplies, and an early SIGINT takes
  effect only at the next signal (a process that gets SIGINT sends it on and ends, say the notes, stopy2/mapa.txt:28-29, not when); `pids[]` is
  read where it was never set.
- *Kindergarten:* an alarm before a child's handler kills it.
- *`prog16a`:* the last SIGUSR1 may come before the child has reset its handler; the child's own next signal then ends the wait, and the child,
  an orphan, signals whoever has adopted it: it ends if it may not, and goes on if it may (as root, or to a subreaper of the same user).

## 8. What is not modelled

- Text: parsing of command lines beyond accept or reject, printing, paths as strings.
- Failing allocation, `open`, `opendir`: each ends the process with a message, at a place
  where a step `ChildFails` or an exit exists anyway.
- In `Mirror`: symbolic links, IN_Q_OVERFLOW, trees deeper than two levels, two children on
  one backup. In `Restore`: links that a system call would follow to a directory.
- In `Voting`: sleeping times, files that cannot be read.
- In `StudentYears` and the other small programs: seeds, delays and the numbers of the code (fifty sacks, a hundred
  signals), which are constants; failing calls, which end the program or kill the group.
- In `CopyInParts`, `AlarmBlocks` and `SignalBlocks`: the contents of files.
- In `CopyInParts` the start of the parent before its first handlers are installed, in `WorkInTurns` the forking: a signal then ends the parent.
- `stopy3/prog17`, `stopy2/prog13a`, `prog13b`, `prog14`: nothing is shared, main only waits. `stopy4/prog21` to `prog23`: do
  not compile. `stopy1`: sequential input and output.
- Earlier stages (`etap1`, ...) of a program whose last stage is modelled.
