\* Three dogs on a track of four cells with jumps of one and two: dogs meet,
\* wait and overtake, and all three places are taken.  Three threads with
\* numbers 1, 2 and 3 up to L = 3: values that all, some and one divide.  Two
\* students, four balls for two threads, an array of three.  Two children and
\* files of up to three bytes, divisible and not, empty parts included, two
\* SIGINTs.  Two kindergarten children, two writers with three SIGUSR1s, rounds of
\* two SIGUSR1s, two blocks of three units.
\* Two children that work in turns, until the turn of the first comes again.  Three
\* clerks, each the superior of the next, and a document.
CONSTANTS
    Dog <- MCDogs
    TrackLength = 4
    MaxJump = 2
    Counter <- MCCounters
    M <- MCM
    MaxL = 3
    Student = {s1, s2}
    BallsCount = 4
    BIN_COUNT = 3
    Thrower = {t1, t2}
    ArraySize = 3
    NChildren = 2
    MaxFileSize = 3
    MaxInterrupts = 2
    KidCount = 2
    Writer = {w1, w2}
    Rounds = 3
    SignalsPerRound = 2
    MaxRounds = 4
    Blocks = 2
    BlockSize = 3
    MaxSent = 3
    NRunners = 2
    MaxTurns = 2
    Clerk = {"highest", "middle", "lowest"}
    Highest = "highest"
    Subordinates <- MCSubordinates
    MaxDocuments = 1
SPECIFICATION Spec
INVARIANTS
    TypeOK
    OneDogPerCell
    PodiumFair
    PodiumIsFinal
    NoValueMissed
    SaysWhatDivides
    YearCountersExact
    PrintsWhatIsThere
    EveryByteOnce
    SignalsHaveCauses
PROPERTIES
    ProgramsGoOn
CHECK_DEADLOCK FALSE
