----------------------------- MODULE SuiteFiles ------------------------------
(***************************************************************************)
(* The output directory main.rs writes and what its files can hold: one   *)
(* JSON suite file per provider, in the order of the to_json_file calls.   *)
(* Shared by the generator and by the abstract emitter it implements.      *)
(***************************************************************************)
EXTENDS Fixtures

CONSTANTS
    MainOrder,  \* the providers in the order main.rs emits their suites
    MaxRuns     \* bound on the number of runs of the generator

ASSUME OrderAssumption ==
    /\ MainOrder \in Seq(Providers)
    /\ Len(MainOrder) > 0
    /\ \A i, j \in 1..Len(MainOrder) : i # j => MainOrder[i] # MainOrder[j]

ASSUME MaxRunsAssumption == MaxRuns \in Nat \ {0}

\* The suite files main.rs writes, named after their provider.
Files == {MainOrder[i] : i \in 1..Len(MainOrder)}

NoSuite == TestSuite("None", <<>>)

CasesOf(p, h) == CreateTestSuite(p, h).tests

\* Every test case some provider builds, in some process.
CaseValues ==
    UNION {{CasesOf(ph[1], ph[2])[i] : i \in 1..Len(CasesOf(ph[1], ph[2]))} :
               ph \in Providers \X OpcodeOrders}

\* The suites create_test_suite of provider p may return, over processes.
PossibleSuites(p) == {CreateTestSuite(p, h) : h \in OpcodeOrders}

SuiteType == [op_code : Opcodes \cup {"None"}, tests : Seq(CaseValues)]

\* What a file of the directory holds: nothing, a truncated document, or a
\* complete one written by run `run` (run 0: committed before the first run).
FileState == [st : {"missing", "partial", "complete"},
              run : 0..MaxRuns, doc : SuiteType]

Missing == [st |-> "missing", run |-> 0, doc |-> NoSuite]
Committed == [st |-> "complete", run |-> 0, doc |-> NoSuite]

=============================================================================
