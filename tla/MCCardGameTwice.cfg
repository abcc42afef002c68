CONSTANTS
    N = 2
    HandSize = 2
    Suits = 2
    Deals <- MCDeals
    MaxGames = 2
SPECIFICATION GameSpec
INVARIANTS NoCardTwice
CHECK_DEADLOCK FALSE
