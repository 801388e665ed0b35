------------------------------ MODULE Fixtures ------------------------------
(***************************************************************************)
(* The fixture model of the test-data generator: the frame builders of     *)
(* test_gen/mod.rs (operation_to_bin, result_to_bin), the TestCase and     *)
(* TestSuite records, and the test cases each provider module builds.      *)
(*                                                                         *)
(* Data is abstracted to what the properties tell apart.  An operation or  *)
(* result value is its NativeOperation / NativeResult variant and the      *)
(* sequence of its field values; a JSON value is its shape (array or       *)
(* object) and the sequence of its elements.  The protobuf body codec,     *)
(* Request/Response::write_to_stream and base64::encode belong to external *)
(* crates; they are injective encodings, so a frame is represented by the  *)
(* header and body it encodes.                                             *)
(***************************************************************************)
EXTENDS Naturals, Sequences

\* ResponseStatus values the providers use.
Statuses == {"Success", "AuthenticationError", "PsaErrorNotSupported",
             "WrongProviderID"}

\* Opcode values the providers use; a NativeOperation/NativeResult variant
\* carries the name of its opcode.
Opcodes == {"Ping", "ListProviders", "ListAuthenticators", "ListOpcodes",
            "ListKeys", "PsaAeadDecrypt"}

\* A typed operation or result value: its variant and its field values.
Value(kind, fields) == [kind |-> kind, fields |-> fields]

\* A serde_json Value built with json!: an array or an object.
JsonArray(elems) == [shape |-> "array", elems |-> elems]
JsonObject(elems) == [shape |-> "object", elems |-> elems]

(***************************************************************************)
(* operation_to_bin: a request with the fixed header of the harness, the   *)
(* protobuf body of the operation and an empty authentication field.       *)
(***************************************************************************)
OperationToBin(op_code, operation) ==
    [header |-> [provider |-> "Core", session |-> 0,
                 content_type |-> "Protobuf", accept_type |-> "Protobuf",
                 auth_type |-> "NoAuth", opcode |-> op_code],
     body |-> operation,
     auth |-> <<>>]

(***************************************************************************)
(* result_to_bin: a response from the MbedCrypto provider with the given   *)
(* opcode and status and the protobuf body of the result.                  *)
(***************************************************************************)
ResultToBin(op_code, result, status) ==
    [header |-> [provider |-> "MbedCrypto", session |-> 0,
                 content_type |-> "Protobuf", opcode |-> op_code,
                 status |-> status],
     body |-> result]

\* struct TestCase
TestCase(name, request_data, expected_request_binary, response_binary, expected_response, expect_success) ==
    [name |-> name, request_data |-> request_data,
     expected_request_binary |-> expected_request_binary,
     response_binary |-> response_binary,
     expected_response |-> expected_response,
     expect_success |-> expect_success]

\* struct TestSuite
TestSuite(op_code, tests) == [op_code |-> op_code, tests |-> tests]

-----------------------------------------------------------------------------
(* list_authenticators.rs *)

ListAuthenticatorsTestGood ==
    TestCase("normal_response", JsonObject(<<>>),
             OperationToBin("ListAuthenticators",
                            Value("ListAuthenticators", <<>>)),
             ResultToBin("ListAuthenticators",
                         Value("ListAuthenticators", <<"NoAuth">>), "Success"),
             JsonArray(<<"NoAuth">>), TRUE)

ListAuthenticatorsTestFail ==
    TestCase("failing response", JsonObject(<<>>),
             OperationToBin("ListAuthenticators",
                            Value("ListAuthenticators", <<>>)),
             ResultToBin("ListAuthenticators",
                         Value("ListAuthenticators", <<>>),
                         "PsaErrorNotSupported"),
             JsonArray(<<>>), FALSE)

ListAuthenticatorsSuite ==
    TestSuite("ListAuthenticators",
              <<ListAuthenticatorsTestGood, ListAuthenticatorsTestFail>>)

(* list_keys.rs: OPCODE is ListKeys *)

ListKeysTestGood ==
    TestCase("normal_response", JsonObject(<<>>),
             OperationToBin("ListKeys", Value("ListKeys", <<>>)),
             ResultToBin("ListKeys", Value("ListKeys", <<"key1", "key2">>),
                         "Success"),
             JsonArray(<<"key1", "key2">>), TRUE)

ListKeysTestFail ==
    TestCase("fail response", JsonObject(<<>>),
             OperationToBin("ListKeys", Value("ListKeys", <<>>)),
             ResultToBin("ListKeys", Value("ListKeys", <<>>),
                         "WrongProviderID"),
             JsonArray(<<>>), FALSE)

ListKeysSuite ==
    TestSuite("ListOpcodes", <<ListKeysTestGood, ListKeysTestFail>>)

(* list_opcodes.rs *)

\* The opcodes list_opcodes.rs puts in the good response, in vec! order.
ListedOpcodes == <<"PsaAeadDecrypt", "PsaAeadEncrypt", "PsaDestroyKey">>

(***************************************************************************)
(* list_opcodes::Result holds a HashSet<Opcode>: the collect() of the vec  *)
(* forgets its order, and the response body lists the opcodes in the       *)
(* iteration order of that set, which the per-process random hash keys of  *)
(* RandomState decide.  HashOrders(s) is every order it may take: each     *)
(* arrangement of the distinct elements of s.                              *)
(***************************************************************************)
HashOrders(s) ==
    {o \in [DOMAIN s -> {s[i] : i \in DOMAIN s}] :
        \A i, j \in DOMAIN s : i # j => o[i] # o[j]}

OpcodeOrders == HashOrders(ListedOpcodes)

\* Mutant: the request_data json! omits the provider_id field.
ListOpcodesTestGoodNoProviderData(order) ==
    TestCase("normal_response", JsonObject(<<>>),
             OperationToBin("ListOpcodes",
                            Value("ListOpcodes", <<"MbedCrypto">>)),
             ResultToBin("ListOpcodes", Value("ListOpcodes", order), "Success"),
             JsonArray(ListedOpcodes), TRUE)

\* The good case of a process whose opcode set iterates in `order`.
ListOpcodesTestGood(order) ==
    TestCase("normal_response", JsonObject(<<"MbedCrypto">>),
             OperationToBin("ListOpcodes",
                            Value("ListOpcodes", <<"MbedCrypto">>)),
             ResultToBin("ListOpcodes", Value("ListOpcodes", order), "Success"),
             JsonArray(ListedOpcodes), TRUE)

\* Mutant: the failing case is copied from the good one and keeps its name.
ListOpcodesTestFailSameName ==
    TestCase("normal_response", JsonObject(<<"MbedCrypto">>),
             OperationToBin("ListOpcodes",
                            Value("ListOpcodes", <<"MbedCrypto">>)),
             ResultToBin("ListOpcodes", Value("ListOpcodes", <<>>),
                         "WrongProviderID"),
             JsonArray(<<>>), FALSE)

ListOpcodesTestFail ==
    TestCase("fail response", JsonObject(<<"MbedCrypto">>),
             OperationToBin("ListOpcodes",
                            Value("ListOpcodes", <<"MbedCrypto">>)),
             ResultToBin("ListOpcodes", Value("ListOpcodes", <<>>),
                         "WrongProviderID"),
             JsonArray(<<>>), FALSE)

ListOpcodesSuite(order) ==
    TestSuite("ListOpcodes", <<ListOpcodesTestGood(order), ListOpcodesTestFail>>)

(* list_providers.rs: a provider record is abstracted to its ProviderID *)

ListProvidersTestGood ==
    TestCase("normal_response", JsonObject(<<>>),
             OperationToBin("ListProviders", Value("ListProviders", <<>>)),
             ResultToBin("ListProviders",
                         Value("ListProviders", <<"MbedCrypto", "Tpm">>),
                         "Success"),
             JsonArray(<<"MbedCrypto", "Tpm">>), TRUE)

\* Mutant: the failing case keeps the ResponseStatus::Success of the good one.
ListProvidersTestFailSuccessStatus ==
    TestCase("fail response", JsonObject(<<>>),
             OperationToBin("ListProviders", Value("ListProviders", <<>>)),
             ResultToBin("ListProviders", Value("ListProviders", <<>>),
                         "Success"),
             JsonArray(<<>>), FALSE)

ListProvidersTestFail ==
    TestCase("fail response", JsonObject(<<>>),
             OperationToBin("ListProviders", Value("ListProviders", <<>>)),
             ResultToBin("ListProviders", Value("ListProviders", <<>>),
                         "AuthenticationError"),
             JsonArray(<<>>), FALSE)

ListProvidersSuite ==
    TestSuite("ListProviders", <<ListProvidersTestGood, ListProvidersTestFail>>)

(* ping.rs: the result fields are wire_protocol_version_maj, _min *)

PingTestGood ==
    TestCase("normal_response", JsonObject(<<>>),
             OperationToBin("Ping", Value("Ping", <<>>)),
             ResultToBin("Ping", Value("Ping", <<1, 0>>), "Success"),
             JsonObject(<<1, 0>>), TRUE)

PingTestBadVersion ==
    TestCase("non standard version", JsonObject(<<>>),
             OperationToBin("Ping", Value("Ping", <<>>)),
             ResultToBin("Ping", Value("Ping", <<3, 1>>), "Success"),
             JsonObject(<<3, 1>>), TRUE)

PingSuite == TestSuite("Ping", <<PingTestGood, PingTestBadVersion>>)

(* psa_aead_decrypt.rs: the operation fields are key_name, alg, nonce,   *)
(* ciphertext and additional_data; the result field is plaintext.        *)

AeadDecryptArgs == <<"key1", "Ccm", "nonce", "ciphertext", "additional data">>

PsaAeadDecryptTestGood ==
    TestCase("normal_response", JsonObject(AeadDecryptArgs),
             OperationToBin("Ping", Value("PsaAeadDecrypt", AeadDecryptArgs)),
             ResultToBin("PsaAeadDecrypt",
                         Value("PsaAeadDecrypt", <<"plaintext">>), "Success"),
             JsonObject(<<"plaintext">>), TRUE)

PsaAeadDecryptTestBadVersion ==
    TestCase("normal_response", JsonObject(AeadDecryptArgs),
             OperationToBin("Ping", Value("PsaAeadDecrypt", AeadDecryptArgs)),
             ResultToBin("PsaAeadDecrypt",
                         Value("PsaAeadDecrypt", <<"plaintext">>),
                         "AuthenticationError"),
             JsonObject(<<>>), TRUE)

PsaAeadDecryptSuite ==
    TestSuite("Ping", <<PsaAeadDecryptTestGood, PsaAeadDecryptTestBadVersion>>)

(* psa_verify_hash.rs: no test data functions yet *)

PsaVerifyHashSuite == TestSuite("Ping", <<>>)

-----------------------------------------------------------------------------
\* The provider modules whose source is in the repository, by the name of
\* the file main.rs writes their suite to (without ".json").
Providers == {"list_authenticators", "list_keys", "list_opcodes",
              "list_providers", "ping", "psa_aead_decrypt", "psa_verify_hash"}

\* Mutant: main.rs writes the list_providers suite into list_opcodes.json.
CreateTestSuiteSwapped(p, h) ==
    CASE p = "list_authenticators" -> ListAuthenticatorsSuite
      [] p = "list_keys"           -> ListKeysSuite
      [] p = "list_opcodes"        -> ListProvidersSuite
      [] p = "list_providers"      -> ListProvidersSuite
      [] p = "ping"                -> PingSuite
      [] p = "psa_aead_decrypt"    -> PsaAeadDecryptSuite
      [] p = "psa_verify_hash"     -> PsaVerifyHashSuite

\* create_test_suite of each provider module, in a process whose opcode
\* HashSet iterates in order h.
CreateTestSuite(p, h) ==
    CASE p = "list_authenticators" -> ListAuthenticatorsSuite
      [] p = "list_keys"           -> ListKeysSuite
      [] p = "list_opcodes"        -> ListOpcodesSuite(h)
      [] p = "list_providers"      -> ListProvidersSuite
      [] p = "ping"                -> PingSuite
      [] p = "psa_aead_decrypt"    -> PsaAeadDecryptSuite
      [] p = "psa_verify_hash"     -> PsaVerifyHashSuite

\* The suite file the Go tests read for an opcode is named after it (spec 6).
FileOpcode(p) ==
    CASE p = "list_authenticators" -> "ListAuthenticators"
      [] p = "list_keys"           -> "ListKeys"
      [] p = "list_opcodes"        -> "ListOpcodes"
      [] p = "list_providers"      -> "ListProviders"
      [] p = "ping"                -> "Ping"
      [] p = "psa_aead_decrypt"    -> "PsaAeadDecrypt"
      [] p = "psa_verify_hash"     -> "PsaVerifyHash"
-----------------------------------------------------------------------------
(***************************************************************************)
(* The consumer of the fixtures: the Go client of this repository (spec    *)
(* section 6).  For the suite's opcode it encodes the request described by *)
(* request_data, and it decodes a response binary to a success flag and   *)
(* the client-facing value: the result's fields on success, the empty     *)
(* shape of the operation otherwise.                                       *)
(***************************************************************************)
ShapeOf(op_code) ==
    IF op_code \in {"ListProviders", "ListAuthenticators", "ListOpcodes",
                    "ListKeys"}
    THEN "array" ELSE "object"

ClientRequest(op_code, request_data) ==
    OperationToBin(op_code, Value(op_code, request_data.elems))

ClientDecode(op_code, response_binary) ==
    LET ok == response_binary.header.status = "Success"
    IN  [success |-> ok,
         value   |-> [shape |-> ShapeOf(op_code),
                      elems |-> IF ok THEN response_binary.body.fields
                                      ELSE <<>>]]
=============================================================================
