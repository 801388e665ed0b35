---------------------------- MODULE SuiteEmitter ----------------------------
(***************************************************************************)
(* What the generator promises of the output directory, with how a suite  *)
(* is built and serialized left out.  Each run of main emits the suites of *)
(* MainOrder one after the other, starting from the first.  Emitting a     *)
(* suite replaces its file in place (to_json_file): the file is first     *)
(* emptied, then holds a suite of its provider, stamped with the run.     *)
(* A run may stop at any point, by an error or a crash, and the engineer   *)
(* may start another one on the same directory.  What a suite is, and what *)
(* the directory holds before the first run, are parameters.              *)
(***************************************************************************)
EXTENDS Naturals, Sequences

CONSTANTS
    MainOrder,    \* the providers in the order main.rs emits their suites
    MaxRuns,      \* bound on the number of runs of the generator
    SuitesOf(_),  \* the suites a provider's create_test_suite may return
    NoDoc,        \* the content of a file that holds no suite
    InitialDirs   \* the directories the first run may find

\* The suite files, named after their provider.
Files == {MainOrder[i] : i \in 1..Len(MainOrder)}

VARIABLES
    state,  \* "running" while a process of the generator is alive
    run,    \* number of the current (or last) run
    next,   \* index in MainOrder of the suite being emitted
    open,   \* the file of that suite has been emptied and not yet filled
    dir     \* the output directory

avars == <<state, run, next, open, dir>>

Target == MainOrder[next]

Init ==
    /\ state = "running"
    /\ run = 1
    /\ next = 1
    /\ open = FALSE
    /\ dir \in InitialDirs

\* File::create: the target file exists and is empty.
Truncate ==
    /\ state = "running"
    /\ ~open
    /\ open' = TRUE
    /\ dir' = [dir EXCEPT ![Target] = [st |-> "partial", run |-> run, doc |-> NoDoc]]
    /\ UNCHANGED <<state, run, next>>

\* write_all: the target file holds a suite of its provider; main goes on
\* with the next suite, or returns Ok after the last one.
Emit ==
    /\ state = "running"
    /\ open
    /\ open' = FALSE
    /\ \E d \in SuitesOf(Target) :
          dir' = [dir EXCEPT ![Target] = [st |-> "complete", run |-> run,
                                         doc |-> d]]
    /\ IF next = Len(MainOrder)
       THEN state' = "stopped" /\ UNCHANGED next
       ELSE next' = next + 1 /\ UNCHANGED state
    /\ UNCHANGED run

\* An error returned through main's ? operators, a panic or a kill.
Stop ==
    /\ state = "running"
    /\ state' = "stopped"
    /\ open' = FALSE
    /\ UNCHANGED <<run, next, dir>>

\* The engineer runs the generator again.
Restart ==
    /\ state = "stopped"
    /\ run < MaxRuns
    /\ state' = "running"
    /\ run' = run + 1
    /\ next' = 1
    /\ open' = FALSE
    /\ UNCHANGED dir

Next == Truncate \/ Emit \/ Stop \/ Restart

Spec == Init /\ [][Next]_avars
=============================================================================
