-------------------------------- MODULE Salis --------------------------------
(***************************************************************************)
(* stopy3/lab/sop-salis.c: porters (threads) carry sacks of salt to the    *)
(* fields, at most three of them on the way at a time; on each field a     *)
(* laborer salts, one sack after the other, until it has had fifty.  When  *)
(* all laborers have ended main stops the porters with SIGINT; SIGINT by   *)
(* the user stops everybody.                                               *)
(*                                                                         *)
(* main destroys the mutex of a field before it joins the field's laborer. *)
(* In glibc that fails (EBUSY) while a thread holds the mutex or waits on  *)
(* a condition with it; otherwise the mutex is gone: from then on locking, *)
(* unlocking and timedwait return EINVAL at once, which nobody looks at.   *)
(* The load and the store of noSacks are therefore two steps.              *)
(***************************************************************************)
EXTENDS Integers, FiniteSets

CONSTANTS NoFields,     \* N
          Porter,       \* the porter threads
          Permits,      \* value of the semaphore (3 in the code)
          SacksCarried, \* what a porter brings (5 in the code)
          SaltGoal,     \* what a laborer salts (50 in the code)
          MaxSacks      \* bound: fields with more sacks get no others while
                        \* there are fields with less

Field == 1..NoFields
Nobody == "nobody"

ASSUME SalisAssumption ==
    /\ NoFields \in Nat \ {0}
    /\ IsFiniteSet(Porter)
    /\ Permits \in Nat \ {0} /\ SacksCarried \in Nat \ {0}
    /\ SaltGoal \in Nat \ {0} /\ MaxSacks \in Nat
    /\ Nobody \notin Porter /\ "laborer" \notin Porter

VARIABLES
    noSacks, noSalted,
    mxNoSacks,     \* who holds the mutex of each field
    destroyed,     \* fields whose mutex is destroyed
    laborer,       \* where the laborer of each field is
    laborerSaw,    \* the noSacks each laborer has loaded
    porter,        \* where each porter is
    target,        \* the field each porter goes to
    porterSaw,
    permits,       \* the semaphore
    doWork,
    sigint,        \* SIGINT is pending
    signalThread,  \* where signal_handling is
    scipio,        \* where main is
    cleaning,      \* i in main's clean-up
    victory        \* main has printed VENI, VIDI, VICI

fieldVars == <<noSacks, noSalted, mxNoSacks>>
laborerVars == <<laborer, laborerSaw>>
porterVars == <<porter, target, porterSaw, permits>>
scipioVars == <<scipio, cleaning, destroyed, victory>>
signalVars == <<doWork, sigint, signalThread>>
salisVars == <<fieldVars, laborerVars, porterVars, scipioVars, signalVars>>

SalisInit ==
    /\ noSacks = [f \in Field |-> 0] /\ noSalted = [f \in Field |-> 0]
    /\ mxNoSacks = [f \in Field |-> Nobody]
    /\ destroyed = {}
    /\ laborer = [f \in Field |-> "test"] /\ laborerSaw = [f \in Field |-> 0]
    /\ porter = [p \in Porter |-> "test"]
    /\ target = [p \in Porter |-> 1] /\ porterSaw = [p \in Porter |-> 0]
    /\ permits = Permits
    /\ doWork = TRUE /\ sigint = FALSE /\ signalThread = "sigwait"
    /\ scipio = "destroy" /\ cleaning = 1 /\ victory = FALSE

-----------------------------------------------------------------------------
(* The mutex of a field                                                    *)

Lock(f, who) ==
    IF f \in destroyed
    THEN UNCHANGED mxNoSacks
    ELSE mxNoSacks[f] = Nobody /\ mxNoSacks' = [mxNoSacks EXCEPT ![f] = who]

Unlock(f) ==
    IF f \in destroyed
    THEN UNCHANGED mxNoSacks
    ELSE mxNoSacks' = [mxNoSacks EXCEPT ![f] = Nobody]

-----------------------------------------------------------------------------
(* porter_routine                                                          *)

PorterGoto(p, l) == porter' = [porter EXCEPT ![p] = l]

\* Fields that the bound lets have more sacks.
Needy == {f \in Field : noSacks[f] <= MaxSacks}

PorterTests(p) ==
    /\ porter[p] = "test"
    /\ Needy # {} \/ ~doWork
    /\ PorterGoto(p, IF doWork THEN "sem_wait" ELSE "end")
    /\ UNCHANGED <<fieldVars, laborerVars, target, porterSaw, permits, scipioVars, signalVars>>

SemWait(p) ==
    /\ porter[p] = "sem_wait"
    /\ permits > 0
    /\ permits' = permits - 1
    /\ PorterGoto(p, "sem_post")
    /\ UNCHANGED <<fieldVars, laborerVars, target, porterSaw, scipioVars, signalVars>>

SemPost(p) ==
    /\ porter[p] = "sem_post"
    /\ permits' = permits + 1
    /\ PorterGoto(p, "choose")
    /\ UNCHANGED <<fieldVars, laborerVars, target, porterSaw, scipioVars, signalVars>>

\* A field by rand_r, and its mutex.
ChooseField(p) ==
    /\ porter[p] = "choose"
    /\ \E f \in IF Needy = {} THEN Field ELSE Needy :
          /\ Lock(f, p)
          /\ target' = [target EXCEPT ![p] = f]
    /\ PorterGoto(p, "load")
    /\ UNCHANGED <<noSacks, noSalted, laborerVars, porterSaw, permits, scipioVars, signalVars>>

LoadSacks(p) ==
    /\ porter[p] = "load"
    /\ porterSaw' = [porterSaw EXCEPT ![p] = noSacks[target[p]]]
    /\ PorterGoto(p, "store")
    /\ UNCHANGED <<fieldVars, laborerVars, target, permits, scipioVars, signalVars>>

\* The store and the unlocking.  What pthread_cond_signal does is left to
\* WakeLaborer.
StoreSacks(p) ==
    /\ porter[p] = "store"
    /\ noSacks' = [noSacks EXCEPT ![target[p]] = porterSaw[p] + SacksCarried]
    /\ Unlock(target[p])
    /\ PorterGoto(p, "test")
    /\ UNCHANGED <<noSalted, laborerVars, target, porterSaw, permits, scipioVars, signalVars>>

PorterStep(p) ==
    \/ PorterTests(p) \/ SemWait(p) \/ SemPost(p)
    \/ ChooseField(p) \/ LoadSacks(p) \/ StoreSacks(p)

-----------------------------------------------------------------------------
(* laborer_routine                                                         *)

LaborerGoto(f, l) == laborer' = [laborer EXCEPT ![f] = l]

LaborerTests(f) ==
    /\ laborer[f] = "test"
    /\ LaborerGoto(f, IF doWork THEN "lock" ELSE "end")
    /\ UNCHANGED <<fieldVars, laborerSaw, porterVars, scipioVars, signalVars>>

LaborerLocks(f) ==
    /\ laborer[f] = "lock"
    /\ Lock(f, "laborer")
    /\ LaborerGoto(f, "check")
    /\ UNCHANGED <<noSacks, noSalted, laborerSaw, porterVars, scipioVars, signalVars>>

\* The head of the while, and timedwait if there is no sack: it gives up the
\* mutex, if there is one.
CheckSacks(f) ==
    /\ laborer[f] = "check"
    /\ \/ /\ noSacks[f] > 0
          /\ LaborerGoto(f, "load")
          /\ UNCHANGED mxNoSacks
       \/ /\ noSacks[f] <= 0
          /\ LaborerGoto(f, IF f \in destroyed THEN "woken" ELSE "waiting")
          /\ Unlock(f)
    /\ UNCHANGED <<noSacks, noSalted, laborerSaw, porterVars, scipioVars, signalVars>>

\* After a signal of a porter, after 100 ms, or for no reason.
WakeLaborer(f) ==
    /\ laborer[f] = "waiting"
    /\ Lock(f, "laborer")
    /\ LaborerGoto(f, "woken")
    /\ UNCHANGED <<noSacks, noSalted, laborerSaw, porterVars, scipioVars, signalVars>>

\* Mutant: if instead of while around the wait.
WokenLaborer_If(f) ==
    /\ laborer[f] = "woken"
    /\ LaborerGoto(f, "load")
    /\ UNCHANGED <<fieldVars, laborerSaw, porterVars, scipioVars, signalVars>>

\* break leaves the loop of the wait, not that of the salting: a laborer that is
\* told to stop while it waits salts once more, with a sack that is not there.
WokenLaborer(f) ==
    /\ laborer[f] = "woken"
    /\ LaborerGoto(f, IF doWork THEN "check" ELSE "load")
    /\ UNCHANGED <<fieldVars, laborerSaw, porterVars, scipioVars, signalVars>>

LaborerLoads(f) ==
    /\ laborer[f] = "load"
    /\ laborerSaw' = [laborerSaw EXCEPT ![f] = noSacks[f]]
    /\ LaborerGoto(f, "store")
    /\ UNCHANGED <<fieldVars, porterVars, scipioVars, signalVars>>

LaborerStores(f) ==
    /\ laborer[f] = "store"
    /\ noSacks' = [noSacks EXCEPT ![f] = laborerSaw[f] - 1]
    /\ Unlock(f)
    /\ LaborerGoto(f, "salt")
    /\ UNCHANGED <<noSalted, laborerSaw, porterVars, scipioVars, signalVars>>

SaltField(f) ==
    /\ laborer[f] = "salt"
    /\ noSalted' = [noSalted EXCEPT ![f] = @ + 1]
    /\ LaborerGoto(f, IF noSalted[f] + 1 >= SaltGoal THEN "end" ELSE "test")
    /\ UNCHANGED <<noSacks, mxNoSacks, laborerSaw, porterVars, scipioVars, signalVars>>

LaborerStep(f) ==
    \/ LaborerTests(f) \/ LaborerLocks(f) \/ CheckSacks(f) \/ WakeLaborer(f)
    \/ WokenLaborer(f) \/ LaborerLoads(f) \/ LaborerStores(f) \/ SaltField(f)

-----------------------------------------------------------------------------
(* main and signal_handling                                                *)

DestroyMutex ==
    /\ scipio = "destroy"
    /\ destroyed' = IF mxNoSacks[cleaning] = Nobody /\ laborer[cleaning] # "waiting"
                    THEN destroyed \cup {cleaning} ELSE destroyed
    /\ scipio' = "destroy_cond"
    /\ UNCHANGED <<fieldVars, laborerVars, porterVars, cleaning, victory, signalVars>>

\* pthread_cond_destroy waits until nobody waits on the condition, which can be
\* waited on again afterwards.
DestroyCond ==
    /\ scipio = "destroy_cond"
    /\ laborer[cleaning] # "waiting"
    /\ scipio' = "join_laborer"
    /\ UNCHANGED <<fieldVars, laborerVars, porterVars, cleaning, destroyed, victory, signalVars>>

JoinLaborer ==
    /\ scipio = "join_laborer"
    /\ laborer[cleaning] = "end"
    /\ IF cleaning < NoFields
       THEN cleaning' = cleaning + 1 /\ scipio' = "destroy"
       ELSE scipio' = "conclude" /\ UNCHANGED cleaning
    /\ UNCHANGED <<fieldVars, laborerVars, porterVars, destroyed, victory, signalVars>>

\* Mutant: SIGINT is sent without a look at do_work.
Conclude_Always ==
    /\ scipio = "conclude"
    /\ victory' = TRUE /\ sigint' = TRUE
    /\ scipio' = "join_porters"
    /\ UNCHANGED <<fieldVars, laborerVars, porterVars, cleaning, destroyed, doWork, signalThread>>

\* do_work is read without its mutex.
Conclude ==
    /\ scipio = "conclude"
    /\ victory' = doWork
    /\ sigint' = (doWork \/ sigint)
    /\ scipio' = "join_porters"
    /\ UNCHANGED <<fieldVars, laborerVars, porterVars, cleaning, destroyed, doWork, signalThread>>

JoinPorters ==
    /\ scipio = "join_porters"
    /\ \A p \in Porter : porter[p] = "end"
    /\ signalThread = "end"
    /\ scipio' = "exited"
    /\ UNCHANGED <<fieldVars, laborerVars, porterVars, cleaning, destroyed, victory, signalVars>>

ScipioStep == DestroyMutex \/ DestroyCond \/ JoinLaborer \/ Conclude \/ JoinPorters

TakeSigint ==
    /\ signalThread = "sigwait" /\ sigint
    /\ sigint' = FALSE /\ doWork' = FALSE /\ signalThread' = "end"
    /\ UNCHANGED <<fieldVars, laborerVars, porterVars, scipioVars>>

InterruptSalis ==
    /\ signalThread = "sigwait" /\ ~sigint
    /\ sigint' = TRUE
    /\ UNCHANGED <<fieldVars, laborerVars, porterVars, scipioVars, doWork, signalThread>>

SalisNext ==
    \/ \E p \in Porter : PorterStep(p)
    \/ \E f \in Field : LaborerStep(f)
    \/ ScipioStep \/ TakeSigint \/ InterruptSalis

SalisSpec == SalisInit /\ [][SalisNext]_salisVars

\* Every thread goes on; the semaphore gives way to each porter in the end.
SalisFairness ==
    /\ \A p \in Porter : WF_salisVars(PorterStep(p))
    /\ \A f \in Field : WF_salisVars(LaborerStep(f))
    /\ WF_salisVars(ScipioStep) /\ WF_salisVars(TakeSigint)

-----------------------------------------------------------------------------
SalisTypeOK ==
    /\ noSacks \in [Field -> Int] /\ noSalted \in [Field -> 0..SaltGoal]
    /\ mxNoSacks \in [Field -> Porter \cup {"laborer", Nobody}]
    /\ destroyed \subseteq Field
    /\ laborer \in [Field -> {"test", "lock", "check", "waiting", "woken", "load", "store",
                              "salt", "end"}]
    /\ laborerSaw \in [Field -> Int]
    /\ porter \in [Porter -> {"test", "sem_wait", "sem_post", "choose", "load", "store", "end"}]
    /\ target \in [Porter -> Field] /\ porterSaw \in [Porter -> Int]
    /\ permits \in 0..Permits
    /\ doWork \in BOOLEAN /\ sigint \in BOOLEAN /\ signalThread \in {"sigwait", "end"}
    /\ scipio \in {"destroy", "destroy_cond", "join_laborer", "conclude", "join_porters", "exited"}
    /\ cleaning \in Field /\ victory \in BOOLEAN

\* No laborer salts without a sack unless it is told to stop, and then at most
\* once: the while around the wait holds even without the mutex, because only the
\* laborer takes sacks away.  And victory means that every field had its fill: a
\* laborer that stopped early has seen do_work 0, which main must then see too.
SaltedFields ==
    /\ \A f \in Field : noSacks[f] >= (IF doWork THEN 0 ELSE -1)
    /\ victory => \A f \in Field : noSalted[f] >= SaltGoal

\* Once do_work is 0 everybody ends, main last.
SalisEnds == ~doWork ~> scipio = "exited"
=============================================================================
