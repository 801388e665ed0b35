-------------------------- MODULE GeneratorProofs ---------------------------
(***************************************************************************)
(* Proofs about the generator: its type invariant, and that a run which   *)
(* returns Ok leaves every suite file complete, current and correct, for  *)
(* every ordering of the providers and every bound on the number of runs. *)
(***************************************************************************)
EXTENDS Generator, SequenceTheorems, TLAPS

\* The directory entry a run leaves for file f once it has written it.
Done(f) == [st |-> "complete", run |-> run, doc |-> CreateTestSuite(f, opcodeOrder)]

(***************************************************************************)
(* The inductive strengthening of OkRunLeavesCurrentSet: while a run is    *)
(* generating the idx-th suite, the files before it in MainOrder hold what *)
(* this run wrote, the cases built so far are a prefix of the provider's   *)
(* list, and a serialized suite is the provider's suite.                   *)
(***************************************************************************)
\* The files before the k-th in MainOrder hold what this run wrote.
WrittenBefore(k) == \A j \in 1..(k - 1) : files[MainOrder[j]] = Done(MainOrder[j])

\* While a run is generating, every suite before the current one is written.
IInvPrefix == pc \in Running => WrittenBefore(idx)

\* The cases built so far are a prefix of the provider's list.
IInvCases ==
    pc = "build" =>
        /\ Len(cases) <= Len(CasesOf(Current, opcodeOrder))
        /\ \A i \in 1..Len(cases) : cases[i] = CasesOf(Current, opcodeOrder)[i]

\* A serialized suite is the provider's suite.
IInvSuite ==
    pc \in {"create", "write"} => suite = CreateTestSuite(Current, opcodeOrder)

\* After an Ok return, every suite of MainOrder is written by this run.
IInvOk == pc = "ok" => WrittenBefore(Len(MainOrder) + 1)

IInv == TypeOK /\ IInvPrefix /\ IInvCases /\ IInvSuite /\ IInvOk

-----------------------------------------------------------------------------
(***************************************************************************)
(* The provider table: every create_test_suite returns a suite record with *)
(* a known opcode and a sequence of test cases.  The test cases themselves *)
(* are never expanded.                                                     *)
(***************************************************************************)
LEMMA SuiteTable ==
    ASSUME NEW p \in Providers, NEW h \in OpcodeOrders
    PROVE  /\ CreateTestSuite(p, h).op_code \in Opcodes
           /\ CasesOf(p, h) \in Seq(CaseValues)
           /\ CreateTestSuite(p, h)
                = TestSuite(CreateTestSuite(p, h).op_code, CasesOf(p, h))
<1> DEFINE TestCases == {ListAuthenticatorsTestGood, ListAuthenticatorsTestFail,
                         ListKeysTestGood, ListKeysTestFail,
                         ListOpcodesTestGood(h), ListOpcodesTestFail,
                         ListProvidersTestGood, ListProvidersTestFail,
                         PingTestGood, PingTestBadVersion,
                         PsaAeadDecryptTestGood, PsaAeadDecryptTestBadVersion}
<1>1. /\ CreateTestSuite(p, h).op_code \in Opcodes
      /\ CasesOf(p, h) \in Seq(TestCases)
      /\ CreateTestSuite(p, h)
           = TestSuite(CreateTestSuite(p, h).op_code, CasesOf(p, h))
  <2>1. CASE p = "list_authenticators"
    <3>1. CreateTestSuite(p, h) = ListAuthenticatorsSuite
      BY <2>1 DEF CreateTestSuite
    <3>2. QED
      BY <3>1 DEF CasesOf, TestSuite, Opcodes, TestCases, ListAuthenticatorsSuite
  <2>2. CASE p = "list_keys"
    <3>1. CreateTestSuite(p, h) = ListKeysSuite
      BY <2>2 DEF CreateTestSuite
    <3>2. QED
      BY <3>1 DEF CasesOf, TestSuite, Opcodes, TestCases, ListKeysSuite
  <2>3. CASE p = "list_opcodes"
    <3>1. CreateTestSuite(p, h) = ListOpcodesSuite(h)
      BY <2>3 DEF CreateTestSuite
    <3>2. QED
      BY <3>1 DEF CasesOf, TestSuite, Opcodes, TestCases, ListOpcodesSuite
  <2>4. CASE p = "list_providers"
    <3>1. CreateTestSuite(p, h) = ListProvidersSuite
      BY <2>4 DEF CreateTestSuite
    <3>2. QED
      BY <3>1 DEF CasesOf, TestSuite, Opcodes, TestCases, ListProvidersSuite
  <2>5. CASE p = "ping"
    <3>1. CreateTestSuite(p, h) = PingSuite
      BY <2>5 DEF CreateTestSuite
    <3>2. QED
      BY <3>1 DEF CasesOf, TestSuite, Opcodes, TestCases, PingSuite
  <2>6. CASE p = "psa_aead_decrypt"
    <3>1. CreateTestSuite(p, h) = PsaAeadDecryptSuite
      BY <2>6 DEF CreateTestSuite
    <3>2. QED
      BY <3>1 DEF CasesOf, TestSuite, Opcodes, TestCases, PsaAeadDecryptSuite
  <2>7. CASE p = "psa_verify_hash"
    <3>1. CreateTestSuite(p, h) = PsaVerifyHashSuite
      BY <2>7 DEF CreateTestSuite
    <3>2. QED
      BY <3>1 DEF CasesOf, TestSuite, Opcodes, TestCases, PsaVerifyHashSuite
  <2>8. QED
    BY <2>1, <2>2, <2>3, <2>4, <2>5, <2>6, <2>7 DEF Providers
<1>2. \A i \in 1..Len(CasesOf(p, h)) : CasesOf(p, h)[i] \in CaseValues
  <2>1. <<p, h>> \in Providers \X OpcodeOrders
    OBVIOUS
  <2>2. QED
    BY <2>1 DEF CaseValues
<1>3. CasesOf(p, h) \in Seq(CaseValues)
  BY <1>1, <1>2, LenProperties
<1>4. QED
  BY <1>1, <1>3

\* The file being generated is one of the suite files, of a known provider.
LEMMA CurrentFile ==
    ASSUME TypeOK
    PROVE  /\ Current \in Files
           /\ Current \in Providers
  BY OrderAssumption DEF TypeOK, Current, Files

\* The placeholder content of a file that holds no suite of this run.
LEMMA NoSuiteType == NoSuite \in SuiteType
  BY DEF NoSuite, TestSuite, SuiteType

-----------------------------------------------------------------------------
LEMMA TypeInit == Init => TypeOK
  BY NoSuiteType, OrderAssumption, MaxRunsAssumption
  DEF Init, TypeOK, Running, Exited, FileState, Missing, Committed

LEMMA TypeStep == TypeOK /\ [Next]_vars => TypeOK'
  <2> SUFFICES ASSUME TypeOK, [Next]_vars PROVE TypeOK'
    OBVIOUS
  <2>1. /\ Current \in Files
        /\ CasesOf(Current, opcodeOrder) \in Seq(CaseValues)
        /\ CreateTestSuite(Current, opcodeOrder).op_code \in Opcodes
    BY CurrentFile, SuiteTable DEF TypeOK
  <2>2. CASE BuildCase
    <3>1. Len(cases) + 1 \in 1..Len(CasesOf(Current, opcodeOrder))
      BY <2>1, <2>2 DEF BuildCase, TypeOK
    <3>2. CasesOf(Current, opcodeOrder)[Len(cases) + 1] \in CaseValues
      BY <2>1, <3>1, ElementOfSeq
    <3>3. QED
      BY <2>2, <3>2, AppendProperties DEF BuildCase, TypeOK
  <2>3. CASE SerializeSuite
    BY <2>1, <2>3 DEF SerializeSuite, TypeOK, TestSuite, SuiteType, Running
  <2>4. CASE CreateFile
    BY <2>1, <2>4, NoSuiteType DEF CreateFile, TypeOK, FileState, Running
  <2>5. CASE CreateFileFails
    BY <2>5 DEF CreateFileFails, TypeOK, Exited
  <2>6. CASE WriteAll
    <3>1. files' \in [Files -> FileState]
      BY <2>1, <2>6 DEF WriteAll, TypeOK, FileState
    <3>2. CASE idx = Len(MainOrder)
      BY <2>6, <3>1, <3>2 DEF WriteAll, TypeOK, Exited
    <3>3. CASE idx # Len(MainOrder)
      <4>1. idx + 1 \in 1..Len(MainOrder)
        BY <3>3, OrderAssumption DEF TypeOK
      <4>2. <<>> \in Seq(CaseValues)
        BY EmptySeq
      <4>3. QED
        BY <2>6, <3>1, <3>3, <4>1, <4>2 DEF WriteAll, TypeOK, Running
    <3>4. QED
      BY <3>2, <3>3
  <2>7. CASE WriteAllFails
    BY <2>7 DEF WriteAllFails, TypeOK, Exited
  <2>8. CASE Crash
    BY <2>8 DEF Crash, TypeOK, Exited
  <2>9. CASE Rerun
    BY <2>9, OrderAssumption, MaxRunsAssumption, EmptySeq, NoSuiteType
    DEF Rerun, TypeOK, Running
  <2>10. CASE UNCHANGED vars
    BY <2>10 DEF vars, TypeOK
  <2>11. QED
    BY <2>2, <2>3, <2>4, <2>5, <2>6, <2>7, <2>8, <2>9, <2>10 DEF Next

(***************************************************************************)
(* Type correctness: every step keeps pc, the counters, the partial suite  *)
(* and every file of the directory within their types.                     *)
(***************************************************************************)
THEOREM TypeCorrect == Spec => []TypeOK
  BY TypeInit, TypeStep, PTL DEF Spec

-----------------------------------------------------------------------------
\* Files earlier in MainOrder are other files than the current one.
LEMMA EarlierFiles ==
    ASSUME TypeOK, NEW j \in 1..Len(MainOrder), j # idx
    PROVE  MainOrder[j] # Current
  BY OrderAssumption DEF TypeOK, Current

LEMMA IInvInit == Init => IInv
  BY TypeInit DEF Init, IInv, IInvPrefix, IInvCases, IInvSuite, IInvOk,
                  WrittenBefore, Running

LEMMA IInvStep == IInv /\ [Next]_vars => IInv'
<1> SUFFICES ASSUME IInv, [Next]_vars PROVE IInv'
  OBVIOUS
<1> USE DEF IInv
<1>1. TypeOK /\ TypeOK'
  BY TypeStep
<1>2. /\ Current \in Providers
      /\ CasesOf(Current, opcodeOrder) \in Seq(CaseValues)
      /\ CreateTestSuite(Current, opcodeOrder)
           = TestSuite(CreateTestSuite(Current, opcodeOrder).op_code,
                       CasesOf(Current, opcodeOrder))
  BY <1>1, CurrentFile, SuiteTable DEF TypeOK
<1>3. CASE BuildCase
  <2>1. IInvCases'
    <3>1. CasesOf(Current, opcodeOrder)[Len(cases) + 1] \in CaseValues
      BY <1>1, <1>2, <1>3, ElementOfSeq DEF BuildCase, TypeOK
    <3>2. /\ Len(cases') = Len(cases) + 1
          /\ \A i \in 1..Len(cases) : cases'[i] = cases[i]
          /\ cases'[Len(cases) + 1] = CasesOf(Current, opcodeOrder)[Len(cases) + 1]
      BY <1>1, <1>3, <3>1, AppendProperties DEF BuildCase, TypeOK
    <3>3. QED
      BY <1>1, <1>3, <3>2 DEF BuildCase, IInvCases, TypeOK, Current
  <2>2. QED
    BY <1>1, <1>3, <2>1
    DEF BuildCase, IInvPrefix, IInvSuite, IInvOk, WrittenBefore, Done
<1>4. CASE SerializeSuite
  <2>1. cases = CasesOf(Current, opcodeOrder)
    BY <1>1, <1>2, <1>4, SeqEqual DEF SerializeSuite, IInvCases, TypeOK
  <2>2. IInvSuite'
    BY <1>2, <1>4, <2>1 DEF SerializeSuite, IInvSuite, Current
  <2>3. QED
    BY <1>1, <1>4, <2>2
    DEF SerializeSuite, IInvPrefix, IInvCases, IInvOk, Running,
        WrittenBefore, Done
<1>5. CASE CreateFile
  <2>1. IInvPrefix'
    <3>1. \A j \in 1..(idx - 1) : files'[MainOrder[j]] = files[MainOrder[j]]
      BY <1>1, <1>5, EarlierFiles, CurrentFile DEF CreateFile, TypeOK
    <3>2. QED
      BY <1>5, <3>1 DEF CreateFile, IInvPrefix, Running, WrittenBefore, Done
  <2>2. QED
    BY <1>1, <1>5, <2>1 DEF CreateFile, IInvCases, IInvSuite, IInvOk, Current
<1>6. CASE WriteAll
  <2>1. run' = run /\ suite' = suite /\ opcodeOrder' = opcodeOrder /\ Current \in Files
    BY <1>1, <1>6, CurrentFile DEF WriteAll
  <2>2. files'[Current] = Done(Current)
    BY <1>1, <1>6, <2>1 DEF WriteAll, IInvSuite, TypeOK, Done
  <2>3. \A j \in 1..(idx - 1) : files'[MainOrder[j]] = Done(MainOrder[j])
    BY <1>1, <1>6, <2>1, EarlierFiles
    DEF WriteAll, IInvPrefix, WrittenBefore, TypeOK, Running
  <2>4. \A j \in 1..idx : files'[MainOrder[j]] = Done(MainOrder[j])
    BY <1>1, <2>2, <2>3 DEF TypeOK, Current
  <2>5. CASE idx = Len(MainOrder)
    <3>1. WrittenBefore(Len(MainOrder) + 1)'
      BY <1>1, <2>1, <2>4, <2>5 DEF WrittenBefore, Done, TypeOK
    <3>2. QED
      BY <1>1, <1>6, <2>5, <3>1
      DEF WriteAll, IInvPrefix, IInvCases, IInvSuite, IInvOk, Running
  <2>6. CASE idx # Len(MainOrder)
    <3>1. idx' = idx + 1
      BY <1>6, <2>6 DEF WriteAll
    <3>2. \A j \in 1..(idx' - 1) :
            files'[MainOrder[j]] = [st |-> "complete", run |-> run',
                                    doc |-> CreateTestSuite(MainOrder[j], opcodeOrder')]
      BY <1>1, <2>1, <2>4, <3>1 DEF Done, TypeOK
    <3>3. Len(CasesOf(Current', opcodeOrder')) \in Nat
      BY <1>1, CurrentFile, SuiteTable, LenProperties DEF TypeOK
    <3>4. QED
      BY <1>1, <1>6, <2>6, <3>2, <3>3, EmptySeq
      DEF WriteAll, IInvPrefix, IInvCases, IInvSuite, IInvOk, Running,
          WrittenBefore, Done
  <2>7. QED
    BY <2>5, <2>6
<1>7. CASE CreateFileFails \/ WriteAllFails \/ Crash
  BY <1>1, <1>7
  DEF CreateFileFails, WriteAllFails, Crash,
      IInvPrefix, IInvCases, IInvSuite, IInvOk, Running
<1>8. CASE Rerun
  <2>1. Len(CasesOf(Current', opcodeOrder')) \in Nat
    BY <1>1, CurrentFile, SuiteTable, LenProperties DEF TypeOK
  <2>2. QED
    BY <1>1, <1>8, <2>1, EmptySeq
    DEF Rerun, IInvPrefix, IInvCases, IInvSuite, IInvOk, Running, WrittenBefore
<1>9. CASE UNCHANGED vars
  BY <1>1, <1>9
  DEF vars, IInvPrefix, IInvCases, IInvSuite, IInvOk, WrittenBefore,
      Current, Done
<1>10. QED
  BY <1>3, <1>4, <1>5, <1>6, <1>7, <1>8, <1>9 DEF Next

(***************************************************************************)
(* A run of main that returns Ok leaves every suite file of MainOrder      *)
(* complete, written by that run and holding its provider's suite, however *)
(* earlier runs failed, crashed or truncated files (OkRunLeavesCurrentSet).*)
(***************************************************************************)
THEOREM OkRunCorrect == Spec => []OkRunLeavesCurrentSet
<1>1. IInv => OkRunLeavesCurrentSet
  BY DEF IInv, IInvOk, WrittenBefore, OkRunLeavesCurrentSet, Files, Done
<1>2. QED
  BY IInvInit, IInvStep, <1>1, PTL DEF Spec

-----------------------------------------------------------------------------
\* The emitter's suite files are the generator's.
LEMMA EmitterFiles == Emitter!Files = Files
  BY DEF Emitter!Files, Files

\* The refinement mapping starts the emitter where main starts.
LEMMA EmitterInit == Init => Emitter!Init
  BY EmitterFiles DEF Init, Emitter!Init, Running

\* Every step of the generator is a step of the emitter or a stutter of it.
LEMMA EmitterStep == IInv /\ [Next]_vars => [Emitter!Next]_Emitter!avars
<1> SUFFICES ASSUME IInv, [Next]_vars PROVE [Emitter!Next]_Emitter!avars
  OBVIOUS
<1>1. TypeOK /\ Current \in Files
  BY CurrentFile DEF IInv
<1>2. CASE BuildCase \/ SerializeSuite
  BY <1>2 DEF BuildCase, SerializeSuite, Emitter!avars, Running
<1>3. CASE CreateFile
  <2>1. Emitter!Truncate
    BY <1>3, EmitterFiles DEF CreateFile, Emitter!Truncate, Emitter!Target, Current, Running
  <2>2. QED
    BY <2>1 DEF Emitter!Next
<1>4. CASE CreateFileFails \/ WriteAllFails \/ Crash
  <2>1. Emitter!Stop
    BY <1>4 DEF CreateFileFails, WriteAllFails, Crash, Emitter!Stop,
                Running, Exited
  <2>2. QED
    BY <2>1 DEF Emitter!Next
<1>5. CASE WriteAll
  <2>1. suite = CreateTestSuite(Current, opcodeOrder)
    BY <1>5 DEF WriteAll, IInv, IInvSuite
  <2>2. suite \in PossibleSuites(Emitter!Target)
    BY <1>1, <2>1 DEF PossibleSuites, TypeOK, Emitter!Target, Current
  <2>3. /\ files' = [files EXCEPT ![Emitter!Target] =
                      [st |-> "complete", run |-> run, doc |-> suite]]
        /\ run' = run
    BY <1>5 DEF WriteAll, Emitter!Target, Current
  <2>4. \E d \in PossibleSuites(Emitter!Target) :
          files' = [files EXCEPT ![Emitter!Target] =
                      [st |-> "complete", run |-> run, doc |-> d]]
    BY <2>2, <2>3
  <2>5. CASE idx = Len(MainOrder)
    <3>1. Emitter!Emit
      BY <1>5, <2>3, <2>4, <2>5 DEF WriteAll, Emitter!Emit, Running
    <3>2. QED
      BY <3>1 DEF Emitter!Next
  <2>6. CASE idx # Len(MainOrder)
    <3>1. Emitter!Emit
      BY <1>5, <2>3, <2>4, <2>6 DEF WriteAll, Emitter!Emit, Running
    <3>2. QED
      BY <3>1 DEF Emitter!Next
  <2>7. QED
    BY <2>5, <2>6
<1>6. CASE Rerun
  <2>1. Emitter!Restart
    BY <1>6 DEF Rerun, Emitter!Restart, Running, Exited
  <2>2. QED
    BY <2>1 DEF Emitter!Next
<1>7. CASE UNCHANGED vars
  BY <1>7 DEF vars, Emitter!avars
<1>8. QED
  BY <1>2, <1>3, <1>4, <1>5, <1>6, <1>7 DEF Next

(***************************************************************************)
(* The generator implements the abstract emitter (EmitterSpec): whatever   *)
(* errors, crashes and reruns happen, every run writes the suites in       *)
(* main's order from the first, and every file it completes holds a suite  *)
(* its provider builds.  The step argument needs IInvSuite: the suite      *)
(* write_all writes is the one the current provider builds.                *)
(***************************************************************************)
THEOREM EmitterRefinement == Spec => EmitterSpec
  BY IInvInit, IInvStep, EmitterInit, EmitterStep, PTL
  DEF Spec, EmitterSpec, Emitter!Spec

=============================================================================
