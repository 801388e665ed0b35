----------------------------- MODULE SuiteProofs ----------------------------
(***************************************************************************)
(* Proofs about what the suite files hold.  Every file a run has written   *)
(* holds a suite its provider builds in some process, whatever failed,     *)
(* crashed or was rerun before; so the round-trip, opcode and coverage     *)
(* properties of the directory reduce to facts about the provider table,   *)
(* proved provider by provider and for every HashSet iteration order.      *)
(***************************************************************************)
EXTENDS GeneratorProofs

\* The providers whose fixtures agree with the Go client and their file name.
ConsistentProviders ==
    {"list_authenticators", "list_opcodes", "list_providers", "ping"}

\* The providers whose result lists reach the wire in the order the provider
\* wrote them (a Vec, not a HashSet).
OrderedProviders == {"list_authenticators", "list_providers", "ping"}

\* The providers whose suites have a failing case and unique names.
CoveringProviders == {"list_authenticators", "list_opcodes", "list_providers"}

\* Every file a run of the generator wrote holds a suite of its provider.
WrittenHoldsSuite == \A f \in Files : Written(f) => files[f].doc \in PossibleSuites(f)

LEMMA DocsInit == Init => WrittenHoldsSuite
  BY DEF Init, WrittenHoldsSuite, Written, Missing, Committed

LEMMA DocsStep == IInv /\ WrittenHoldsSuite /\ [Next]_vars => WrittenHoldsSuite'
<1> SUFFICES ASSUME IInv, WrittenHoldsSuite, [Next]_vars PROVE WrittenHoldsSuite'
  OBVIOUS
<1>1. TypeOK /\ Current \in Files
  BY CurrentFile DEF IInv
<1>2. CASE CreateFile
  BY <1>1, <1>2 DEF CreateFile, WrittenHoldsSuite, Written, TypeOK
<1>3. CASE WriteAll
  <2>1. suite \in PossibleSuites(Current)
    BY <1>1, <1>3 DEF WriteAll, IInv, IInvSuite, PossibleSuites, TypeOK
  <2>2. QED
    BY <1>1, <1>3, <2>1 DEF WriteAll, WrittenHoldsSuite, Written, TypeOK
<1>4. CASE BuildCase \/ SerializeSuite \/ CreateFileFails \/ WriteAllFails
           \/ Crash \/ Rerun \/ UNCHANGED vars
  <2>1. files' = files
    BY <1>4 DEF BuildCase, SerializeSuite, CreateFileFails, WriteAllFails,
                Crash, Rerun, vars
  <2>2. QED
    BY <2>1 DEF WrittenHoldsSuite, Written
<1>5. QED
  BY <1>2, <1>3, <1>4 DEF Next

(***************************************************************************)
(* Whatever errors, crashes and reruns happen, a file written by a run of  *)
(* the generator holds a suite its provider's create_test_suite returns    *)
(* (in the process that wrote it): write_all writes the suite the current  *)
(* provider built (it rests on IInvSuite), and a truncated file is never   *)
(* taken as written.                                                       *)
(***************************************************************************)
THEOREM WrittenSuitesCorrect == Spec => []WrittenHoldsSuite
<1>1. Init => IInv /\ WrittenHoldsSuite
  BY IInvInit, DocsInit
<1>2. IInv /\ WrittenHoldsSuite /\ [Next]_vars => (IInv /\ WrittenHoldsSuite)'
  BY IInvStep, DocsStep
<1>3. QED
  BY <1>1, <1>2, PTL DEF Spec

-----------------------------------------------------------------------------
\* What RequestsMatch and ResponsesMatch ask of one test case of a suite.
RequestOK(op, t) == t.expected_request_binary = ClientRequest(op, t.request_data)

ResponseOK(op, t) ==
    /\ t.response_binary.header.opcode = op
    /\ t.response_binary.body.kind = op
    /\ ClientDecode(op, t.response_binary)
         = [success |-> t.expect_success, value |-> t.expected_response]

\* Every provider in the repository builds two test cases.
LEMMA PairSuite ==
    ASSUME NEW op, NEW a, NEW b
    PROVE  /\ RequestsMatch(TestSuite(op, <<a, b>>))
                <=> RequestOK(op, a) /\ RequestOK(op, b)
           /\ ResponsesMatch(TestSuite(op, <<a, b>>))
                <=> ResponseOK(op, a) /\ ResponseOK(op, b)
           /\ Covers(TestSuite(op, <<a, b>>))
                <=> /\ a.name # b.name
                    /\ a.expect_success \/ b.expect_success
                    /\ ~a.expect_success \/ ~b.expect_success
<1>1. DOMAIN <<a, b>> = {1, 2} /\ <<a, b>>[1] = a /\ <<a, b>>[2] = b
  OBVIOUS
<1>2. RequestsMatch(TestSuite(op, <<a, b>>)) <=> RequestOK(op, a) /\ RequestOK(op, b)
  BY <1>1 DEF RequestsMatch, TestSuite, RequestOK
<1>3. ResponsesMatch(TestSuite(op, <<a, b>>)) <=> ResponseOK(op, a) /\ ResponseOK(op, b)
  BY <1>1 DEF ResponsesMatch, TestSuite, ResponseOK
<1>4. Covers(TestSuite(op, <<a, b>>))
        <=> /\ a.name # b.name
            /\ a.expect_success \/ b.expect_success
            /\ ~a.expect_success \/ ~b.expect_success
  BY <1>1 DEF Covers, TestSuite
<1>5. QED
  BY <1>2, <1>3, <1>4

\* The ping fixtures round-trip through the Go client.
LEMMA PingTable ==
    ASSUME NEW h
    PROVE  /\ CreateTestSuite("ping", h) = PingSuite
           /\ RequestsMatch(PingSuite)
           /\ ResponsesMatch(PingSuite)
           /\ PingSuite.op_code = FileOpcode("ping")
<1>1. CreateTestSuite("ping", h) = PingSuite /\ FileOpcode("ping") = "Ping"
  BY DEF CreateTestSuite, FileOpcode
<1>2. RequestOK("Ping", PingTestGood) /\ RequestOK("Ping", PingTestBadVersion)
  BY DEF RequestOK, PingTestGood, PingTestBadVersion, TestCase, OperationToBin,
         Value, JsonObject, ClientRequest
<1>3. ResponseOK("Ping", PingTestGood) /\ ResponseOK("Ping", PingTestBadVersion)
  BY DEF ResponseOK, PingTestGood, PingTestBadVersion, TestCase, ResultToBin,
         Value, JsonObject, ClientDecode, ShapeOf
<1>4. QED
  BY <1>1, <1>2, <1>3, PairSuite DEF PingSuite, TestSuite
\* The list_authenticators fixtures round-trip through the Go client and cover failure.
LEMMA ListAuthenticatorsTable ==
    ASSUME NEW h
    PROVE  /\ CreateTestSuite("list_authenticators", h) = ListAuthenticatorsSuite
           /\ RequestsMatch(ListAuthenticatorsSuite)
           /\ ResponsesMatch(ListAuthenticatorsSuite)
           /\ ListAuthenticatorsSuite.op_code = FileOpcode("list_authenticators")
           /\ Covers(ListAuthenticatorsSuite)
<1>1. CreateTestSuite("list_authenticators", h) = ListAuthenticatorsSuite /\ FileOpcode("list_authenticators") = "ListAuthenticators"
  BY DEF CreateTestSuite, FileOpcode
<1>2. RequestOK("ListAuthenticators", ListAuthenticatorsTestGood) /\ RequestOK("ListAuthenticators", ListAuthenticatorsTestFail)
  BY DEF RequestOK, ListAuthenticatorsTestGood, ListAuthenticatorsTestFail, TestCase,
         OperationToBin, Value, JsonObject, ClientRequest
<1>3. ResponseOK("ListAuthenticators", ListAuthenticatorsTestGood) /\ ResponseOK("ListAuthenticators", ListAuthenticatorsTestFail)
  BY DEF ResponseOK, ListAuthenticatorsTestGood, ListAuthenticatorsTestFail, TestCase,
         ResultToBin, Value, JsonArray, ClientDecode, ShapeOf
<1>4. /\ ListAuthenticatorsTestGood.name # ListAuthenticatorsTestFail.name
      /\ ListAuthenticatorsTestGood.expect_success /\ ~ListAuthenticatorsTestFail.expect_success
  BY DEF ListAuthenticatorsTestGood, ListAuthenticatorsTestFail, TestCase
<1>5. QED
  BY <1>1, <1>2, <1>3, <1>4, PairSuite DEF ListAuthenticatorsSuite, TestSuite

\* The list_opcodes requests round-trip through the Go client and the
\* suite covers failure, whatever order the opcode HashSet iterates in.
LEMMA ListOpcodesTable ==
    ASSUME NEW h
    PROVE  /\ CreateTestSuite("list_opcodes", h) = ListOpcodesSuite(h)
           /\ RequestsMatch(ListOpcodesSuite(h))
           /\ ListOpcodesSuite(h).op_code = FileOpcode("list_opcodes")
           /\ Covers(ListOpcodesSuite(h))
<1>1. CreateTestSuite("list_opcodes", h) = ListOpcodesSuite(h) /\ FileOpcode("list_opcodes") = "ListOpcodes"
  BY DEF CreateTestSuite, FileOpcode
<1>2. RequestOK("ListOpcodes", ListOpcodesTestGood(h)) /\ RequestOK("ListOpcodes", ListOpcodesTestFail)
  BY DEF RequestOK, ListOpcodesTestGood, ListOpcodesTestFail, TestCase,
         OperationToBin, Value, JsonObject, ClientRequest
<1>3. /\ ListOpcodesTestGood(h).name # ListOpcodesTestFail.name
      /\ ListOpcodesTestGood(h).expect_success /\ ~ListOpcodesTestFail.expect_success
  BY DEF ListOpcodesTestGood, ListOpcodesTestFail, TestCase
<1>4. QED
  BY <1>1, <1>2, <1>3, PairSuite DEF ListOpcodesSuite, TestSuite

\* The list_providers fixtures round-trip through the Go client and cover failure.
LEMMA ListProvidersTable ==
    ASSUME NEW h
    PROVE  /\ CreateTestSuite("list_providers", h) = ListProvidersSuite
           /\ RequestsMatch(ListProvidersSuite)
           /\ ResponsesMatch(ListProvidersSuite)
           /\ ListProvidersSuite.op_code = FileOpcode("list_providers")
           /\ Covers(ListProvidersSuite)
<1>1. CreateTestSuite("list_providers", h) = ListProvidersSuite /\ FileOpcode("list_providers") = "ListProviders"
  BY DEF CreateTestSuite, FileOpcode
<1>2. RequestOK("ListProviders", ListProvidersTestGood) /\ RequestOK("ListProviders", ListProvidersTestFail)
  BY DEF RequestOK, ListProvidersTestGood, ListProvidersTestFail, TestCase,
         OperationToBin, Value, JsonObject, ClientRequest
<1>3. ResponseOK("ListProviders", ListProvidersTestGood) /\ ResponseOK("ListProviders", ListProvidersTestFail)
  BY DEF ResponseOK, ListProvidersTestGood, ListProvidersTestFail, TestCase,
         ResultToBin, Value, JsonArray, ClientDecode, ShapeOf
<1>4. /\ ListProvidersTestGood.name # ListProvidersTestFail.name
      /\ ListProvidersTestGood.expect_success /\ ~ListProvidersTestFail.expect_success
  BY DEF ListProvidersTestGood, ListProvidersTestFail, TestCase
<1>5. QED
  BY <1>1, <1>2, <1>3, <1>4, PairSuite DEF ListProvidersSuite, TestSuite

\* The suite of a consistent provider satisfies what the Go tests check,
\* in every process.
LEMMA ConsistentTable ==
    ASSUME NEW q \in ConsistentProviders, NEW h
    PROVE  /\ RequestsMatch(CreateTestSuite(q, h))
           /\ CreateTestSuite(q, h).op_code = FileOpcode(q)
           /\ q \in OrderedProviders => ResponsesMatch(CreateTestSuite(q, h))
           /\ q \in CoveringProviders => Covers(CreateTestSuite(q, h))
  BY PingTable, ListAuthenticatorsTable, ListOpcodesTable, ListProvidersTable
  DEF ConsistentProviders, OrderedProviders, CoveringProviders

(***************************************************************************)
(* The list_opcodes response matches what the Go client decodes exactly    *)
(* when the process's opcode HashSet iterates in the vec! order that       *)
(* expected_response is written in; and the HashSet may iterate in        *)
(* another order, so some process writes a list_opcodes suite whose       *)
(* response the client decodes to another list.  It is about the collect() *)
(* into list_opcodes::Result and the json! of the vec in list_opcodes.rs.  *)
(***************************************************************************)
THEOREM ListOpcodesResponseOrder ==
    /\ \A h \in OpcodeOrders :
          ResponsesMatch(CreateTestSuite("list_opcodes", h)) <=> h = ListedOpcodes
    /\ \E h \in OpcodeOrders : ~ResponsesMatch(CreateTestSuite("list_opcodes", h))
<1>1. ASSUME NEW h
      PROVE  ResponsesMatch(ListOpcodesSuite(h)) <=> h = ListedOpcodes
  <2>1. ResponseOK("ListOpcodes", ListOpcodesTestGood(h)) <=> h = ListedOpcodes
    BY DEF ResponseOK, ListOpcodesTestGood, TestCase, ResultToBin, Value,
           JsonArray, ClientDecode, ShapeOf
  <2>2. ResponseOK("ListOpcodes", ListOpcodesTestFail)
    BY DEF ResponseOK, ListOpcodesTestFail, TestCase, ResultToBin, Value,
           JsonArray, ClientDecode, ShapeOf
  <2>3. QED
    BY <2>1, <2>2, PairSuite DEF ListOpcodesSuite, TestSuite
<1>2. ASSUME NEW h PROVE CreateTestSuite("list_opcodes", h) = ListOpcodesSuite(h)
  BY ListOpcodesTable
<1> DEFINE Swapped == <<"PsaAeadEncrypt", "PsaAeadDecrypt", "PsaDestroyKey">>
<1>3. Swapped \in OpcodeOrders /\ Swapped # ListedOpcodes
  BY DEF OpcodeOrders, HashOrders, ListedOpcodes
<1>4. QED
  BY <1>1, <1>2, <1>3

\* Every suite file is the file of a consistent provider.
OrderConsistent == \A i \in 1..Len(MainOrder) : MainOrder[i] \in ConsistentProviders

\* A written file holds the suite its provider built in some process.
LEMMA WrittenSuite ==
    ASSUME WrittenHoldsSuite, NEW f \in Files, Written(f)
    PROVE  \E h \in OpcodeOrders : files[f].doc = CreateTestSuite(f, h)
  BY DEF WrittenHoldsSuite, PossibleSuites

(***************************************************************************)
(* Request round trip (RequestRoundTrip), for every ordering of consistent *)
(* providers and every number of runs: whatever failed or crashed, every   *)
(* request binary the generator has written is the frame the Go client     *)
(* builds from the case's request_data for the suite's opcode.             *)
(***************************************************************************)
THEOREM RequestRoundTripCorrect ==
    ASSUME OrderConsistent PROVE Spec => []RequestRoundTrip
<1>1. WrittenHoldsSuite => RequestRoundTrip
  <2> SUFFICES ASSUME WrittenHoldsSuite, NEW f \in Files, Written(f)
               PROVE  RequestsMatch(files[f].doc)
    BY DEF RequestRoundTrip
  <2>1. PICK h \in OpcodeOrders : files[f].doc = CreateTestSuite(f, h)
    BY WrittenSuite
  <2>2. QED
    BY <2>1, ConsistentTable DEF OrderConsistent, Files
<1>2. QED
  BY WrittenSuitesCorrect, <1>1, PTL

(***************************************************************************)
(* Response round trip (ResponseRoundTrip), for every ordering of the      *)
(* providers whose result lists keep their order, every number of runs     *)
(* and every hash seed of every run: the Go client decoding any written    *)
(* response binary reports expect_success and produces expected_response. *)
(***************************************************************************)
THEOREM ResponseRoundTripCorrect ==
    ASSUME \A i \in 1..Len(MainOrder) : MainOrder[i] \in OrderedProviders
    PROVE  Spec => []ResponseRoundTrip
<1>1. WrittenHoldsSuite => ResponseRoundTrip
  <2> SUFFICES ASSUME WrittenHoldsSuite, NEW f \in Files, Written(f)
               PROVE  ResponsesMatch(files[f].doc)
    BY DEF ResponseRoundTrip
  <2>1. PICK h \in OpcodeOrders : files[f].doc = CreateTestSuite(f, h)
    BY WrittenSuite
  <2>2. QED
    BY <2>1, ConsistentTable DEF Files, ConsistentProviders, OrderedProviders
<1>2. QED
  BY WrittenSuitesCorrect, <1>1, PTL

(***************************************************************************)
(* Every written file declares the opcode it is named after                *)
(* (FileHoldsItsOpcode), for every ordering of consistent providers.       *)
(***************************************************************************)
THEOREM FileOpcodeCorrect ==
    ASSUME OrderConsistent PROVE Spec => []FileHoldsItsOpcode
<1>1. WrittenHoldsSuite => FileHoldsItsOpcode
  <2> SUFFICES ASSUME WrittenHoldsSuite, NEW f \in Files, Written(f)
               PROVE  files[f].doc.op_code = FileOpcode(f)
    BY DEF FileHoldsItsOpcode
  <2>1. PICK h \in OpcodeOrders : files[f].doc = CreateTestSuite(f, h)
    BY WrittenSuite
  <2>2. QED
    BY <2>1, ConsistentTable DEF OrderConsistent, Files
<1>2. QED
  BY WrittenSuitesCorrect, <1>1, PTL

(***************************************************************************)
(* Every written suite has uniquely named cases, one expected to succeed   *)
(* and one to fail (SuiteCovers), for every ordering of the list           *)
(* providers, whose create_tests lists have both kinds of case.            *)
(***************************************************************************)
THEOREM SuiteCoversCorrect ==
    ASSUME \A i \in 1..Len(MainOrder) : MainOrder[i] \in CoveringProviders
    PROVE  Spec => []SuiteCovers
<1>1. WrittenHoldsSuite => SuiteCovers
  <2> SUFFICES ASSUME WrittenHoldsSuite, NEW f \in Files, Written(f)
               PROVE  Covers(files[f].doc)
    BY DEF SuiteCovers
  <2>1. PICK h \in OpcodeOrders : files[f].doc = CreateTestSuite(f, h)
    BY WrittenSuite
  <2>2. QED
    BY <2>1, ConsistentTable DEF Files, ConsistentProviders, CoveringProviders
<1>2. QED
  BY WrittenSuitesCorrect, <1>1, PTL
=============================================================================
