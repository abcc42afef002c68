---------------------------- MODULE StudentYears ----------------------------
(***************************************************************************)
(* stopy3/prog20/prog20.c: students (threads) go through three years and   *)
(* become engineers; counters say how many there are in each year.  main   *)
(* kicks students out for four seconds: pthread_cancel, which takes effect *)
(* when the student sleeps, where a clean-up handler takes the student off *)
(* its year.                                                               *)
(***************************************************************************)
EXTENDS Integers, FiniteSets

CONSTANT Student

ASSUME StudentAssumption == IsFiniteSet(Student)

Year == 0..3     \* the last one is that of the engineers

VARIABLES
    values,        \* the counters
    studentPc,     \* where each student is in student_life
    year,
    removed,       \* students for which pthread_cancel has been called
    present,
    dean           \* where main is

studentVars == <<values, studentPc, year>>
yearsVars == <<studentVars, removed, present, dean>>

YearsInit ==
    /\ values = [y \in Year |-> 0]
    /\ studentPc = [s \in Student |-> "enter"]
    /\ year = [s \in Student |-> 0]
    /\ removed = {}
    /\ present = Cardinality(Student)
    /\ dean = "kick"

-----------------------------------------------------------------------------
(* student_life                                                            *)

StudentGoto(s, l) == studentPc' = [studentPc EXCEPT ![s] = l]

increment_counter(y) == values' = [values EXCEPT ![y] = @ + 1]

decrement_counter(y) == values' = [values EXCEPT ![y] = @ - 1]

\* After the third year the counter is that of the engineers.
EnterYear(s) ==
    /\ studentPc[s] = "enter"
    /\ increment_counter(year[s])
    /\ StudentGoto(s, IF year[s] = 3 THEN "engineer" ELSE "study")
    /\ UNCHANGED <<year, removed, present, dean>>

\* The sleep is over.  A student that is cancelled before does not get so far.
FinishYear(s) ==
    /\ studentPc[s] = "study"
    /\ s \notin removed
    /\ StudentGoto(s, "pop")
    /\ UNCHANGED <<values, year, removed, present, dean>>

\* Mutant: the clean-up handler is pushed only after the sleep.
Leave_NoHandler(s) ==
    /\ studentPc[s] = "study"
    /\ s \in removed
    /\ StudentGoto(s, "out")
    /\ UNCHANGED <<values, year, removed, present, dean>>

\* nanosleep is the only point where the student can be cancelled: the mutexes are
\* none, nor is what lies between the counter and the push of the handler.
Leave(s) ==
    /\ studentPc[s] = "study"
    /\ s \in removed
    /\ decrement_counter(year[s])
    /\ StudentGoto(s, "out")
    /\ UNCHANGED <<year, removed, present, dean>>

\* pthread_cleanup_pop(1) runs the handler, and args.year goes on.
NextYear(s) ==
    /\ studentPc[s] = "pop"
    /\ decrement_counter(year[s])
    /\ year' = [year EXCEPT ![s] = @ + 1]
    /\ StudentGoto(s, "enter")
    /\ UNCHANGED <<removed, present, dean>>

StudentStep(s) == EnterYear(s) \/ FinishYear(s) \/ Leave(s) \/ NextYear(s)

-----------------------------------------------------------------------------
(* main                                                                    *)

\* Any student not removed yet, be it one that has finished.
kick_student ==
    /\ dean = "kick"
    /\ present # 0
    /\ \E s \in Student \ removed : removed' = removed \cup {s}
    /\ present' = present - 1
    /\ UNCHANGED <<studentVars, dean>>

\* Four seconds are over.
EndKicking ==
    /\ dean = "kick"
    /\ dean' = "join"
    /\ UNCHANGED <<studentVars, removed, present>>

\* The threads are joined and the counters printed.
JoinStudents ==
    /\ dean = "join"
    /\ \A s \in Student : studentPc[s] \in {"engineer", "out"}
    /\ dean' = "printed"
    /\ UNCHANGED <<studentVars, removed, present>>

YearsNext ==
    \/ \E s \in Student : StudentStep(s)
    \/ kick_student \/ EndKicking \/ JoinStudents

YearsSpec == YearsInit /\ [][YearsNext]_yearsVars

-----------------------------------------------------------------------------
YearsTypeOK ==
    /\ values \in [Year -> Int]
    /\ studentPc \in [Student -> {"enter", "study", "pop", "engineer", "out"}]
    /\ year \in [Student -> Year]
    /\ removed \subseteq Student
    /\ present \in Int
    /\ dean \in {"kick", "join", "printed"}

\* The students the counter of the year should count.
InYear(y) ==
    {s \in Student : /\ year[s] = y
                     /\ studentPc[s] \in (IF y = 3 THEN {"engineer"} ELSE {"study", "pop"})}

\* Wherever in its life a student is cancelled, each counter is the number of
\* students in that year; so in the end the years are empty, and the engineers are
\* those who were not thrown out.  And present is the number of students that the
\* loop of kick_student may still find: it never looks for one in vain.
YearCountersExact ==
    /\ \A y \in Year : values[y] = Cardinality(InYear(y))
    /\ present = Cardinality(Student \ removed)
=============================================================================
