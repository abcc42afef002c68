---------------------------- MODULE ArrayRemover ----------------------------
(***************************************************************************)
(* stopy3/prog19/prog19.c: main prints an array once a second; a thread    *)
(* waits for signals, removes an item at random for SIGINT and makes main  *)
(* stop for SIGQUIT.                                                       *)
(***************************************************************************)
EXTENDS Naturals

CONSTANT ArraySize

ASSUME ArrayAssumption == ArraySize \in Nat \ {0}

Index == 1..ArraySize

VARIABLES
    items,          \* indices of array that do not hold DELETED_ITEM
    arrayCount,
    mxArrayHeld,    \* main holds mxArray
    printer,        \* where main is: "test", "print", "sleep", "join", "exited"
    nextItem,       \* i in printArray
    printedItems,   \* what main has printed of the array this time
    removerQuit,    \* quitFlag
    remover,        \* where the thread is: "sigwait", "remove", "end"
    keys            \* signals pending

arrayVars == <<items, arrayCount, mxArrayHeld, printer, nextItem, printedItems, removerQuit,
               remover, keys>>

ArrayInit ==
    /\ items = Index /\ arrayCount = ArraySize
    /\ mxArrayHeld = FALSE
    /\ printer = "test" /\ nextItem = 1 /\ printedItems = {}
    /\ removerQuit = FALSE
    /\ remover = "sigwait" /\ keys = {}

-----------------------------------------------------------------------------
(* main                                                                    *)

\* quitFlag is tested; if it is not set, mxArray is taken for the printing.
TestQuitFlag ==
    /\ printer = "test"
    /\ IF removerQuit
       THEN printer' = "join" /\ UNCHANGED <<mxArrayHeld, nextItem, printedItems>>
       ELSE /\ printer' = "print" /\ mxArrayHeld' = TRUE
            /\ nextItem' = 1 /\ printedItems' = {}
    /\ UNCHANGED <<items, arrayCount, removerQuit, remover, keys>>

PrintItem ==
    /\ printer = "print" /\ nextItem <= ArraySize
    /\ printedItems' = printedItems \cup ({nextItem} \cap items)
    /\ nextItem' = nextItem + 1
    /\ UNCHANGED <<items, arrayCount, mxArrayHeld, printer, removerQuit, remover, keys>>

PrintDone ==
    /\ printer = "print" /\ nextItem > ArraySize
    /\ mxArrayHeld' = FALSE
    /\ printer' = "sleep"
    /\ UNCHANGED <<items, arrayCount, nextItem, printedItems, removerQuit, remover, keys>>

\* The second is over.
WakeUp ==
    /\ printer = "sleep"
    /\ printer' = "test"
    /\ UNCHANGED <<items, arrayCount, mxArrayHeld, nextItem, printedItems, removerQuit, remover, keys>>

JoinRemover ==
    /\ printer = "join" /\ remover = "end"
    /\ printer' = "exited"
    /\ UNCHANGED <<items, arrayCount, mxArrayHeld, nextItem, printedItems, removerQuit, remover, keys>>

PrinterStep == TestQuitFlag \/ PrintItem \/ PrintDone \/ WakeUp \/ JoinRemover

-----------------------------------------------------------------------------
(* signal_handling                                                         *)

\* sigwait takes the signal with the lower number first.
Sigwait ==
    /\ remover = "sigwait"
    /\ \/ /\ "SIGINT" \in keys
          /\ remover' = "remove" /\ keys' = keys \ {"SIGINT"}
          /\ UNCHANGED removerQuit
       \/ /\ keys = {"SIGQUIT"}
          /\ remover' = "end" /\ keys' = {}
          /\ removerQuit' = TRUE
    /\ UNCHANGED <<items, arrayCount, mxArrayHeld, printer, nextItem, printedItems>>

\* Mutant: without the mutex.
removeItem_NoMutex ==
    /\ remover = "remove"
    /\ IF arrayCount > 0
       THEN \E i \in items : items' = items \ {i} /\ arrayCount' = arrayCount - 1
       ELSE UNCHANGED <<items, arrayCount>>
    /\ remover' = "sigwait"
    /\ UNCHANGED <<mxArrayHeld, printer, nextItem, printedItems, removerQuit, keys>>

\* The item of a random number below arrayCount; were there fewer items than that,
\* the loop would run past the end of the array.
removeItem ==
    /\ remover = "remove"
    /\ ~mxArrayHeld
    /\ IF arrayCount > 0
       THEN \E i \in items : items' = items \ {i} /\ arrayCount' = arrayCount - 1
       ELSE UNCHANGED <<items, arrayCount>>
    /\ remover' = "sigwait"
    /\ UNCHANGED <<mxArrayHeld, printer, nextItem, printedItems, removerQuit, keys>>

RemoverStep == Sigwait \/ removeItem

\* The user; both signals are blocked in all threads.
PressKey ==
    /\ printer # "exited"
    /\ \E k \in {"SIGINT", "SIGQUIT"} : keys' = keys \cup {k}
    /\ UNCHANGED <<items, arrayCount, mxArrayHeld, printer, nextItem, printedItems, removerQuit, remover>>

ArrayNext == PrinterStep \/ RemoverStep \/ PressKey

ArraySpec == ArrayInit /\ [][ArrayNext]_arrayVars

\* Both threads go on; the remover gets the mutex between two printings although main
\* takes it again and again.
ArrayFairness ==
    /\ WF_arrayVars(PrinterStep) /\ SF_arrayVars(RemoverStep)

-----------------------------------------------------------------------------
ArrayTypeOK ==
    /\ items \subseteq Index /\ arrayCount \in 0..ArraySize
    /\ mxArrayHeld \in BOOLEAN
    /\ printer \in {"test", "print", "sleep", "join", "exited"}
    /\ nextItem \in 1..(ArraySize + 1) /\ printedItems \subseteq Index
    /\ removerQuit \in BOOLEAN
    /\ remover \in {"sigwait", "remove", "end"}
    /\ keys \subseteq {"SIGINT", "SIGQUIT"}

\* What has been printed while SIGINTs come is an array as it was at one moment.
PrintedAtOnce == printer = "print" => printedItems = items \cap 1..(nextItem - 1)

\* SIGQUIT ends the program, unless SIGINT is pressed without end (it is taken first).
ArrayOver == printer = "exited" \/ "SIGINT" \in keys

ArrayEnds == "SIGQUIT" \in keys ~> ArrayOver
=============================================================================
