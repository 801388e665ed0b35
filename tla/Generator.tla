----------------------------- MODULE Generator ------------------------------
(***************************************************************************)
(* One process of the test-data generator (main.rs) and the output         *)
(* directory it writes.  main calls create_test_suite of each provider in  *)
(* turn and then TestSuite::to_json_file, which serializes the suite,      *)
(* prints it, truncates the file with File::create and fills it with       *)
(* write_all.  Any error returns from main at once (the ? operators); a    *)
(* panic (an unwrap in the frame builders, println! on a closed stdout) or *)
(* a kill ends the process at any point.  The directory outlives the       *)
(* process: the engineer runs the generator again, up to MaxRuns times.    *)
(* Each process draws fresh random hash keys, so the opcode HashSet of     *)
(* list_opcodes.rs iterates in an order of its own in every run.           *)
(***************************************************************************)
EXTENDS SuiteFiles

VARIABLES
    pc,     \* where the current process is, or how it ended
    run,    \* number of the current (or last) run
    idx,    \* index in MainOrder of the suite being generated
    cases,  \* test cases the provider has built so far
    suite,  \* the suite being emitted
    files,  \* the output directory: state, run and content of each file
    opcodeOrder  \* iteration order of this process's opcode HashSet

vars == <<pc, run, idx, cases, suite, files, opcodeOrder>>

Running == {"build", "create", "write"}
Exited == {"ok", "err", "crash"}

Current == MainOrder[idx]

Init ==
    /\ pc = "build"
    /\ run = 1
    /\ idx = 1
    /\ cases = <<>>
    /\ suite = NoSuite
    /\ files \in {[f \in Files |-> Missing], [f \in Files |-> Committed]}
    /\ opcodeOrder \in OpcodeOrders

\* create_tests: the provider builds its next test case.
BuildCase ==
    /\ pc = "build"
    /\ Len(cases) < Len(CasesOf(Current, opcodeOrder))
    /\ cases' = Append(cases, CasesOf(Current, opcodeOrder)[Len(cases) + 1])
    /\ UNCHANGED <<pc, run, idx, suite, files, opcodeOrder>>

\* create_test_suite returns; to_json_file serializes and prints the suite.
SerializeSuite ==
    /\ pc = "build"
    /\ Len(cases) = Len(CasesOf(Current, opcodeOrder))
    /\ suite' = TestSuite(CreateTestSuite(Current, opcodeOrder).op_code, cases)
    /\ pc' = "create"
    /\ UNCHANGED <<run, idx, cases, files, opcodeOrder>>

\* File::create succeeds: the file now exists and is empty.
CreateFile ==
    /\ pc = "create"
    /\ files' = [files EXCEPT ![Current] =
                     [st |-> "partial", run |-> run, doc |-> NoSuite]]
    /\ pc' = "write"
    /\ UNCHANGED <<run, idx, cases, suite, opcodeOrder>>

\* File::create fails: the error returns from to_json_file and from main.
CreateFileFails ==
    /\ pc = "create"
    /\ pc' = "err"
    /\ UNCHANGED <<run, idx, cases, suite, files, opcodeOrder>>

\* Mutant: the test for the last suite is off by one.
WriteAllPastEnd ==
    /\ pc = "write"
    /\ files' = [files EXCEPT ![Current] =
                     [st |-> "complete", run |-> run, doc |-> suite]]
    /\ IF idx = Len(MainOrder) + 1
       THEN /\ pc' = "ok"
            /\ UNCHANGED <<idx, cases>>
       ELSE /\ pc' = "build"
            /\ idx' = idx + 1
            /\ cases' = <<>>
    /\ UNCHANGED <<run, suite, opcodeOrder>>

\* write_all completes; main goes on with the next suite or returns Ok.
WriteAll ==
    /\ pc = "write"
    /\ files' = [files EXCEPT ![Current] =
                     [st |-> "complete", run |-> run, doc |-> suite]]
    /\ IF idx = Len(MainOrder)
       THEN /\ pc' = "ok"
            /\ UNCHANGED <<idx, cases>>
       ELSE /\ pc' = "build"
            /\ idx' = idx + 1
            /\ cases' = <<>>
    /\ UNCHANGED <<run, suite, opcodeOrder>>

\* Mutant: the result of write_all is ignored (let _ = file.write_all(..)).
WriteAllFailsIgnored ==
    /\ pc = "write"
    /\ IF idx = Len(MainOrder)
       THEN /\ pc' = "ok"
            /\ UNCHANGED <<idx, cases>>
       ELSE /\ pc' = "build"
            /\ idx' = idx + 1
            /\ cases' = <<>>
    /\ UNCHANGED <<run, suite, files, opcodeOrder>>

\* write_all fails after writing a prefix: the file stays truncated and the
\* error returns from main.
WriteAllFails ==
    /\ pc = "write"
    /\ pc' = "err"
    /\ UNCHANGED <<run, idx, cases, suite, files, opcodeOrder>>

\* The process panics or is killed.
Crash ==
    /\ pc \in Running
    /\ pc' = "crash"
    /\ UNCHANGED <<run, idx, cases, suite, files, opcodeOrder>>

\* Mutant: a rerun resumes at the suite where the last run stopped.
RerunResume ==
    /\ pc \in Exited
    /\ run < MaxRuns
    /\ pc' = "build"
    /\ run' = run + 1
    /\ cases' = <<>>
    /\ suite' = NoSuite
    /\ opcodeOrder' \in OpcodeOrders
    /\ UNCHANGED <<idx, files>>

\* The generator is run again on the same directory.
Rerun ==
    /\ pc \in Exited
    /\ run < MaxRuns
    /\ pc' = "build"
    /\ run' = run + 1
    /\ idx' = 1
    /\ cases' = <<>>
    /\ suite' = NoSuite
    /\ opcodeOrder' \in OpcodeOrders
    /\ UNCHANGED files

Next ==
    \/ BuildCase \/ SerializeSuite
    \/ CreateFile \/ CreateFileFails
    \/ WriteAll \/ WriteAllFails
    \/ Crash \/ Rerun

Spec == Init /\ [][Next]_vars

-----------------------------------------------------------------------------
\* Type invariant: the process state and every file of the directory are
\* within their types.
TypeOK ==
    /\ pc \in Running \cup Exited
    /\ run \in 1..MaxRuns
    /\ idx \in 1..Len(MainOrder)
    /\ cases \in Seq(CaseValues)
    /\ suite \in SuiteType
    /\ files \in [Files -> FileState]
    /\ opcodeOrder \in OpcodeOrders

\* A file holds a complete document this generator wrote.
Written(f) == files[f].st = "complete" /\ files[f].run >= 1

(***************************************************************************)
(* Request round trip (spec 8): in every written suite, the request binary *)
(* of each test case is the frame the Go client builds for the suite's     *)
(* opcode from the case's request_data, so the client's own encoding      *)
(* matches it.  It is about the operation_to_bin calls of the providers    *)
(* and the opcode their suites declare.                                    *)
(***************************************************************************)
RequestsMatch(s) ==
    \A i \in DOMAIN s.tests :
        s.tests[i].expected_request_binary
            = ClientRequest(s.op_code, s.tests[i].request_data)

RequestRoundTrip == \A f \in Files : Written(f) => RequestsMatch(files[f].doc)

(***************************************************************************)
(* Response round trip (spec 3, 4.3, 6): in every written suite, each      *)
(* response binary carries the suite's opcode and a result of that kind,  *)
(* and the Go client decoding it reports expect_success and produces       *)
(* expected_response (the empty shape on failure).  It is about the        *)
(* result_to_bin calls of the providers and the expectations they write.   *)
(***************************************************************************)
ResponsesMatch(s) ==
    \A i \in DOMAIN s.tests :
        LET t == s.tests[i]
        IN  /\ t.response_binary.header.opcode = s.op_code
            /\ t.response_binary.body.kind = s.op_code
            /\ ClientDecode(s.op_code, t.response_binary)
                 = [success |-> t.expect_success, value |-> t.expected_response]

ResponseRoundTrip == \A f \in Files : Written(f) => ResponsesMatch(files[f].doc)

(***************************************************************************)
(* Suite completeness (spec 8, 9): every written suite has uniquely named  *)
(* test cases, at least one expected to succeed and one expected to fail.  *)
(* It is about the create_tests lists of the providers.                    *)
(***************************************************************************)
Covers(s) ==
    /\ \A i, j \in DOMAIN s.tests : i # j => s.tests[i].name # s.tests[j].name
    /\ \E i \in DOMAIN s.tests : s.tests[i].expect_success
    /\ \E i \in DOMAIN s.tests : ~s.tests[i].expect_success

SuiteCovers == \A f \in Files : Written(f) => Covers(files[f].doc)

(***************************************************************************)
(* Every written file declares the opcode it is named after (spec 6), so  *)
(* each opcode has its own suite.  It is about the op_code field each      *)
(* create_test_suite sets and the file name main.rs pairs it with.         *)
(***************************************************************************)
FileHoldsItsOpcode ==
    \A f \in Files : Written(f) => files[f].doc.op_code = FileOpcode(f)

(***************************************************************************)
(* When main returns Ok, every suite file is complete, was written by this *)
(* run and holds the suite its provider builds in this process: no file   *)
(* of an earlier run and no truncated file is left behind a successful     *)
(* run.  It is about main's ? operators and the truncate-then-write of     *)
(* to_json_file.                                                           *)
(***************************************************************************)
OkRunLeavesCurrentSet ==
    pc = "ok" =>
        \A f \in Files : files[f] = [st |-> "complete", run |-> run,
                                     doc |-> CreateTestSuite(f, opcodeOrder)]

(***************************************************************************)
(* All or nothing (spec 4.4, 7): whenever the generator has stopped, the  *)
(* directory holds no suite file at all or a complete set of suites of one *)
(* generation.  It is about main stopping at the first error after earlier *)
(* suites are on disk.                                                     *)
(***************************************************************************)
OutputSetConsistent ==
    pc \in Exited =>
        \/ \A f \in Files : files[f].st = "missing"
        \/ \A f, g \in Files : /\ files[f].st = "complete"
                               /\ files[f].run = files[g].run

-----------------------------------------------------------------------------
(***************************************************************************)
(* The generator implements the abstract emitter: a process is "running"  *)
(* until pc is one of Exited, the file of the current suite is open while  *)
(* write_all is pending, and building and serializing a suite are stutter  *)
(* steps of the emitter.                                                   *)
(***************************************************************************)
Emitter == INSTANCE SuiteEmitter
           WITH state <- IF pc \in Running THEN "running" ELSE "stopped",
                next <- idx, open <- (pc = "write"), dir <- files,
                SuitesOf <- PossibleSuites, NoDoc <- NoSuite,
                InitialDirs <- {[f \in Files |-> Missing], [f \in Files |-> Committed]}

(***************************************************************************)
(* Emitter refinement: every behaviour of the generator is one of the      *)
(* emitter, so each run writes the suites in main's order from the first, *)
(* and each file it completes holds a suite its provider builds.  It is    *)
(* about the incremental create_tests, the serialization of the suite     *)
(* that was built, and main's restart from the first to_json_file call.    *)
(***************************************************************************)
EmitterSpec == Emitter!Spec
=============================================================================
