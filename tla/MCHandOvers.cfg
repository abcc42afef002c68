\* Two players with two cards, two games.  Up to three texts, a ring of two, two
\* threads.  Two fields and a porter, two sacks at a time, one sack a field.
\* Rings of two and five frames: each ring fills, empties and wraps.
CONSTANTS
    N = 2
    HandSize = 2
    Suits = 2
    Deals <- MCDeals
    MaxGames = 2
    Text = {"t1", "t2", "t3"}
    Letter = {"a", "b"}
    Content <- MCContent
    TextWorker = {"w1", "w2"}
    CIRC_BUF_SIZE = 2
    NoFields = 2
    Porter = {"p1"}
    Permits = 1
    SacksCarried = 2
    SaltGoal = 1
    MaxSacks = 0
    BUFFER_SIZE = 2
    MaxFrames = 5
SPECIFICATION Spec
INVARIANTS
    TypeOK
    WinnerHasHand
    DealtCards
    LettersExact
    SaltedFields
    ShownInOrder
PROPERTIES
    HandOversGoOn
CHECK_DEADLOCK FALSE
