---------------------------- MODULE SharedCounter ----------------------------
(***************************************************************************)
(* stopy3/zad1/etap5/etap5.c: main counts (L), threads tell whether their  *)
(* number M divides L.  L is read without a mutex; what protects it is     *)
(* that main goes on only when licznik says that every thread has had L.   *)
(* SIGINT ends main and threads.                                           *)
(***************************************************************************)
EXTENDS Naturals, FiniteSets

CONSTANTS Counter,   \* the threads (watki)
          M,         \* the number of each
          MaxL       \* bound: main stops counting there

ASSUME CounterAssumption ==
    /\ IsFiniteSet(Counter)
    /\ M \in [Counter -> Nat \ {0}]
    /\ MaxL \in Nat \ {0}

VARIABLES
    L, licznik,
    counterPc,   \* where each thread is in thread_counter
    current_L, last_L,
    said,        \* pairs <<thread, value>>: "Mnoznik: M dzieli value"
    counting,    \* where main is
    stop         \* pQuitFlag

counterVars == <<L, licznik, counterPc, current_L, last_L, said, counting, stop>>

CounterInit ==
    /\ L = 1 /\ licznik = 0
    /\ counterPc = [t \in Counter |-> "test"]
    /\ current_L = [t \in Counter |-> 0]
    /\ last_L = [t \in Counter |-> 0]
    /\ said = {}
    /\ counting = "test"
    /\ stop = FALSE

-----------------------------------------------------------------------------
(* thread_counter                                                          *)

CounterGoto(t, l) == counterPc' = [counterPc EXCEPT ![t] = l]

TestStop(t) ==
    /\ counterPc[t] = "test"
    /\ CounterGoto(t, IF stop THEN "end" ELSE "read")
    /\ UNCHANGED <<L, licznik, current_L, last_L, said, counting, stop>>

\* Mutant: the value is counted again and again.
ReadL_Always(t) ==
    /\ counterPc[t] = "read"
    /\ current_L' = [current_L EXCEPT ![t] = L]
    /\ CounterGoto(t, "divide")
    /\ UNCHANGED <<L, licznik, last_L, said, counting, stop>>

ReadL(t) ==
    /\ counterPc[t] = "read"
    /\ current_L' = [current_L EXCEPT ![t] = L]
    /\ CounterGoto(t, IF L > last_L[t] THEN "divide" ELSE "keep")
    /\ UNCHANGED <<L, licznik, last_L, said, counting, stop>>

\* *args->L is read again, for the test and for the printing.
Divide(t) ==
    /\ counterPc[t] = "divide"
    /\ CounterGoto(t, IF L % M[t] = 0 THEN "say" ELSE "count")
    /\ UNCHANGED <<L, licznik, current_L, last_L, said, counting, stop>>

Say(t) ==
    /\ counterPc[t] = "say"
    /\ said' = said \cup {<<t, L>>}
    /\ CounterGoto(t, "count")
    /\ UNCHANGED <<L, licznik, current_L, last_L, counting, stop>>

CountValue(t) ==
    /\ counterPc[t] = "count"
    /\ licznik' = licznik + 1
    /\ CounterGoto(t, "keep")
    /\ UNCHANGED <<L, current_L, last_L, said, counting, stop>>

\* Mutant: the value is taken from L, not from the copy.
KeepL_Rereads(t) ==
    /\ counterPc[t] = "keep"
    /\ last_L' = [last_L EXCEPT ![t] = L]
    /\ CounterGoto(t, "test")
    /\ UNCHANGED <<L, licznik, current_L, said, counting, stop>>

KeepL(t) ==
    /\ counterPc[t] = "keep"
    /\ last_L' = [last_L EXCEPT ![t] = current_L[t]]
    /\ CounterGoto(t, "test")
    /\ UNCHANGED <<L, licznik, current_L, said, counting, stop>>

CounterStep(t) ==
    TestStop(t) \/ ReadL(t) \/ Divide(t) \/ Say(t) \/ CountValue(t) \/ KeepL(t)

-----------------------------------------------------------------------------
(* main, and the thread that waits for SIGINT                              *)

TestMainStop ==
    /\ counting = "test"
    /\ counting' = IF stop THEN "join" ELSE "tick"
    /\ UNCHANGED <<L, licznik, counterPc, current_L, last_L, said, stop>>

\* Mutant: main does not wait for the last thread.
Tick_Early ==
    /\ counting = "tick"
    /\ counting' = "test"
    /\ IF licznik >= Cardinality(Counter) - 1 /\ L < MaxL
       THEN licznik' = 0 /\ L' = L + 1
       ELSE UNCHANGED <<licznik, L>>
    /\ UNCHANGED <<counterPc, current_L, last_L, said, stop>>

\* Mutant: > for >=.
Tick_Strict ==
    /\ counting = "tick"
    /\ counting' = "test"
    /\ IF licznik > Cardinality(Counter) /\ L < MaxL
       THEN licznik' = 0 /\ L' = L + 1
       ELSE UNCHANGED <<licznik, L>>
    /\ UNCHANGED <<counterPc, current_L, last_L, said, stop>>

\* Under mxlicznik, which the threads hold for one step only.
Tick ==
    /\ counting = "tick"
    /\ counting' = "test"
    /\ IF licznik >= Cardinality(Counter) /\ L < MaxL
       THEN licznik' = 0 /\ L' = L + 1
       ELSE UNCHANGED <<licznik, L>>
    /\ UNCHANGED <<counterPc, current_L, last_L, said, stop>>

JoinCounters ==
    /\ counting = "join"
    /\ \A t \in Counter : counterPc[t] = "end"
    /\ counting' = "over"
    /\ UNCHANGED <<L, licznik, counterPc, current_L, last_L, said, stop>>

StopCounting ==
    /\ ~stop
    /\ stop' = TRUE
    /\ UNCHANGED <<L, licznik, counterPc, current_L, last_L, said, counting>>

CounterNext ==
    \/ \E t \in Counter : CounterStep(t)
    \/ TestMainStop \/ Tick \/ JoinCounters \/ StopCounting

CounterSpec == CounterInit /\ [][CounterNext]_counterVars

\* Every thread goes on; nobody has to send SIGINT.
CounterFairness ==
    /\ \A t \in Counter : WF_counterVars(CounterStep(t))
    /\ WF_counterVars(TestMainStop) /\ WF_counterVars(Tick) /\ WF_counterVars(JoinCounters)

-----------------------------------------------------------------------------
CounterPlace == {"test", "read", "divide", "say", "count", "keep", "end"}

CounterTypeOK ==
    /\ L \in Nat /\ licznik \in 0..Cardinality(Counter)
    /\ counterPc \in [Counter -> CounterPlace]
    /\ current_L \in [Counter -> Nat] /\ last_L \in [Counter -> Nat]
    /\ said \in SUBSET (Counter \X Nat)
    /\ counting \in {"test", "tick", "join", "over"}
    /\ stop \in BOOLEAN

\* L is protected "before all threads have checked it": a thread that is at work
\* on a value is at work on the L of now, and none has missed a value.
NoValueMissed ==
    \A t \in Counter :
        /\ last_L[t] \in {L - 1, L} \/ (counterPc[t] = "keep" /\ current_L[t] = L - 1)
        /\ counterPc[t] \in {"divide", "say", "count"} => current_L[t] = L

\* A thread says of exactly those values that M divides them of which that is
\* true, although it reads L once for the test and once for the printing.
SaysWhatDivides ==
    /\ \A x \in said : x[2] % M[x[1]] = 0
    /\ \A t \in Counter : \A v \in 1..L :
          v <= last_L[t] /\ v % M[t] = 0 => <<t, v>> \in said

\* Unless SIGINT comes main counts on, and once it has come all threads and main end.
CountedAll == L = MaxL \/ counting = "over"

CountsOrEnds == <>CountedAll /\ (stop ~> counting = "over")
=============================================================================
