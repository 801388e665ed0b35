# TLA+ verification of the test-data generator

The repository's Rust tool `src/tools/test-data-generator` writes golden JSON
fixtures. The Go client's tests use them to check binary compatibility with the
Rust parsec-interface crate. This directory models the tool in TLA+. It
model-checks the model with TLC and proves its main properties with TLAPS.

## 1. Inventory

### Components and their state

| Component | Source | State | Operations |
|---|---|---|---|
| Frame Builder | `test_gen/mod.rs` `operation_to_bin`, `result_to_bin` | none (pure) | build a request frame (fixed header: provider Core, session 0, Protobuf content and accept types, NoAuth, the given opcode; the body of the operation; empty auth) and a response frame (provider MbedCrypto, the given opcode and status, the body of the result) |
| Fixture Model | `test_gen/mod.rs` `TestCase`, `TestSuite` | the records | construction only |
| Fixture Providers | `test_gen/<op>.rs` `create_test_suite`, `create_tests`, `create_test_*` | none | build the cases of a suite, in order, and wrap them with an op_code |
| Suite Emitter | `TestSuite::to_json_file` | the file on disk | `to_string_pretty`, `println!`, `File::create` (truncates), `write_all` |
| Run | `main.rs` | the output directory `../../interface/operations/test/data/` | 26 calls `create_test_suite()?.to_json_file(..)?` in sequence |
| Body codec, status codes, wire layout, base64 | external crates | — | not modelled (assumed injective encodings) |
| Go client (consumer) | Go code of this repository, outside `src/` | — | encodes the request described by `request_data`; decodes `response_binary` to a success flag and a value (modelled from spec section 6) |

Only 7 of the 26 providers that `main.rs` calls are in `src/`. The other 19
(`list_clients`, `psa_aead_encrypt`, ..., `psa_verify_message`) are not
modelled.

### Interactions

A provider calls the Frame Builder twice per case, builds a `TestCase` and
returns a `TestSuite`. `main` hands each suite to the Suite Emitter. The
only shared state is the output directory. It outlives the process: the
engineer reruns the generator on a directory that holds the committed files of
an earlier generation.

### What is hard

There is no concurrency. The program is one sequential pass. Two kinds of
behaviour are hard to test:

* **Data consistency across independently written literals.** Each case
  sets the opcode of the request frame, the opcode of the response frame, the
  status, `expect_success`, `expected_response` and `name` separately. The
  suite sets its `op_code` in a third place, and `main.rs` chooses the file
  name. Nothing checks that they agree.
* **Failure in the middle of the batch.** An I/O error (`?`), a panic
  (`unwrap` in the frame builders, `println!` on a closed stdout) or a kill can
  stop `main` after some suites are rewritten and while one file is truncated.
  `File::create` truncates in place, and there is no temporary file and rename.
* **A random order on the wire.** `list_opcodes.rs` collects its opcode `vec!`
  into the `HashSet` of `list_opcodes::Result`. The response therefore lists
  the opcodes in the set's iteration order. The random hash keys of each
  process choose that order. The expectation beside it keeps the `vec!`
  order. A test in one process sees one order, and the next regeneration may
  see another.

### Properties that make it correct

* Request round trip (spec 8): the Go client's encoding of `request_data` for
  the suite's opcode equals `expected_request_binary`.
* Response round trip (spec 3, 4.3, 6): every response frame carries the
  suite's opcode and a result of that kind, and decoding it yields
  `expect_success` and `expected_response`. Decoding gives the empty shape on
  failure.
* Suite completeness (spec 8, 9): case names are unique, and each suite has a
  success case and a failure case. Each file declares the opcode it is named
  after.
* Output integrity (spec 4.4, 7): an Ok run leaves a complete, current set,
  and a stopped run leaves no partial or mixed set.

## 2. Modules

| Module | Models | Contents |
|---|---|---|
| `Fixtures.tla` | `mod.rs` frame builders and records, every provider in `src/`, the Go client's view (spec_modelled) | operators only; `CreateTestSuite(p, h)` is the suite of provider `p` in a process whose opcode `HashSet` iterates in order `h`, one of `OpcodeOrders` |
| `SuiteFiles.tla` | the output directory of `main.rs` | constants `MainOrder`, `MaxRuns` and their assumptions; `Files`, `FileState`, `Missing`, `Committed`, `CasesOf`, `PossibleSuites` |
| `SuiteEmitter.tla` | what `main`/`to_json_file` promise of the directory (abstract) | variables `state, run, next, open, dir`; actions `Truncate`, `Emit`, `Stop`, `Restart`; generic in the suites a provider may build (`SuitesOf`) and the initial directories |
| `Generator.tla` | `main.rs` and `to_json_file`, with the output directory across runs | variables `pc, run, idx, cases, suite, files, opcodeOrder`; actions `BuildCase`, `SerializeSuite`, `CreateFile`, `CreateFileFails`, `WriteAll`, `WriteAllFails`, `Crash`, `Rerun`; the properties |
| `MCGenerator.tla` | TLC instances | orderings of providers as `MainOrder` |
| `GeneratorProofs.tla` | TLAPS | `SuiteTable`, `TypeCorrect`, `IInv`, `OkRunCorrect`, `EmitterRefinement` |
| `SuiteProofs.tla` | TLAPS | `WrittenSuitesCorrect`, the provider tables, the round-trip, opcode and coverage theorems |

`Generator` implements `SuiteEmitter` under the refinement mapping `Emitter`
(end of `Generator.tla`):

* `state` is `"running"` while `pc` is `build`, `create` or `write`;
* `next` is `idx`, `run` is `run`, `dir` is `files`;
* `open` is `pc = "write"`: the file has been truncated and `write_all` is
  pending.

`BuildCase` and `SerializeSuite` are stutter steps of the emitter.
`CreateFile` is `Truncate` and `WriteAll` is `Emit`. The three failure
actions are `Stop`, and `Rerun` is `Restart`. The emitter writes some suite
in `SuitesOf(Target)`, the suites its provider may build. The generator writes
the `suite` variable it built case by case. So the refinement holds only if
that incremental build really yields the provider's suite for this process.

How the state maps to the code:

* `pc` tracks the process. The values `build`, `create` and `write` are the
  statements of `main`/`to_json_file` the process is at; `ok`, `err` and
  `crash` record how it ended: `main` returned Ok, `main` returned Err, or the
  process panicked or was killed.
* `idx` is the line of `main.rs` being executed, as an index into `MainOrder`.
* `cases` is the `vec!` that `create_tests` is building.
* `suite` is the `TestSuite` being emitted.
* `files[f]` is the file `f.json`. Its `st` is missing, partial or complete.
  Its `run` is the run that wrote it (0 means committed before the first run),
  and its `doc` is its content.
* `opcodeOrder` is the iteration order of the opcode `HashSet` that
  `list_opcodes.rs` builds in this process. `Init` and `Rerun` choose it
  nondeterministically among all orders of the three opcodes, because each
  process draws fresh random hash keys.
* `Init` has the directory either empty or holding a committed generation.
* `Crash` is enabled at every running step.
* `Rerun` starts a new process on the same directory, up to `MaxRuns` times.

Data is abstracted. An operation or result value is its variant and its field
values. A JSON value is its shape and elements. A provider record (UUID,
version, description) is abstracted to its id. The UUID's lower-case
hyphenated formatting is not modelled.

## 3. Runs (`MCGenerator.tla`)

| Run | cfg | Expect | Checks |
|---|---|---|---|
| harness | `MCGenerator.cfg` | pass | `TypeOK`, `RequestRoundTrip`, `FileHoldsItsOpcode`, `OkRunLeavesCurrentSet`, over list_authenticators, list_opcodes, list_providers and ping, with 2 runs |
| responses | `MCResponses.cfg` | pass | `ResponseRoundTrip` over list_authenticators, list_providers and ping (result lists that are `Vec`s), with 2 runs |
| emitter | `MCEmitter.cfg` | pass | `EmitterSpec` (refinement of `SuiteEmitter`) over the four consistent providers with 2 runs |
| coverage | `MCCoverage.cfg` | pass | `SuiteCovers` over the three list providers |
| list_keys_opcode | `MCListKeysOpcode.cfg` | violation | `FileHoldsItsOpcode`: list_keys.json declares ListOpcodes |
| ping_coverage | `MCPingCoverage.cfg` | violation | `SuiteCovers`: ping has no failure case |
| verify_hash_coverage | `MCVerifyHashCoverage.cfg` | violation | `SuiteCovers`: psa_verify_hash is empty |
| aead_decrypt_request | `MCAeadDecryptRequest.cfg` | violation | `RequestRoundTrip`: request framed with opcode Ping |
| aead_decrypt_response | `MCAeadDecryptResponse.cfg` | violation | `ResponseRoundTrip`: opcode mismatch, and success expected from an AuthenticationError |
| partial_output | `MCPartialOutput.cfg` | violation | `OutputSetConsistent`: a failed run leaves a truncated or mixed set |
| list_opcodes_order | `MCListOpcodesOrder.cfg` | violation | `ResponseRoundTrip`: the `HashSet` iterates in another order than the `vec!` that `expected_response` is written from |

Bounds: `MaxRuns = 2` is enough for the interesting case, a run that fails
part-way followed by a run on the damaged directory. Four providers give every
failure point: before any file, between files, inside a file, and at the last
file. Each provider has its whole case list. Every run draws each of the six
`HashSet` orders. `CHECK_DEADLOCK FALSE` is set because the batch really
stops after its last run.

Each property of a passing run has a mutant (PROJECT.json) that TLC catches:

* the last-suite test off by one;
* a `json!` that drops a field;
* a failing case that keeps `ResponseStatus::Success`;
* `main.rs` writing a suite into the wrong file;
* an ignored `write_all` error;
* a copy-pasted case name;
* a rerun that resumes at the suite where the last run stopped (breaks
  `EmitterSpec`).

Fairness and liveness: none is checked. The one way a run of this program
fails to end is a `println!` blocked on a pipe whose reader has stopped
reading. The model has no stdout, so it cannot express that. With crashes
among the process's steps, a fairness condition on those steps would only say
that a live process keeps stepping, which proves nothing about the code. All
runs check safety. The blocked `println!` is listed as a hazard without a
property.

## 4. Proofs (`GeneratorProofs.tla`, `SuiteProofs.tla`)

The assumptions are `OrderAssumption` (`MainOrder` is a non-empty sequence of
distinct providers: `main.rs` writes distinct files) and `MaxRunsAssumption`.

* `SuiteTable`: every `create_test_suite` returns a record with an opcode and a
  sequence of test cases. The proof splits on the provider. The cases
  themselves are never expanded.
* `TypeCorrect`: `Spec => []TypeOK`. `TypeOK` is inductive. The proof has one
  step per action.
* `OkRunCorrect`: `Spec => []OkRunLeavesCurrentSet`. The property alone is
  not inductive: it speaks only of `pc = "ok"`. The strengthening `IInv`
  adds four facts:
  * while a run is at suite `idx`, the files before it hold what this run wrote
    (`IInvPrefix`);
  * the cases built so far are a prefix of the provider's list (`IInvCases`);
  * a serialized suite equals the provider's suite (`IInvSuite`);
  * after an Ok return, all files hold what this run wrote (`IInvOk`).

  The distinctness of `MainOrder` shows that writing the current file leaves
  the earlier files alone. TLC checked `IInv` as an invariant before it was
  proved.

* `EmitterRefinement`: `Spec => EmitterSpec`. `EmitterInit` shows that the
  initial states map to emitter initial states. `EmitterStep` shows that each
  generator step maps to an emitter step or a stutter, with one case per
  action. The `WriteAll` case needs `IInvSuite`: the suite written is
  `CreateTestSuite(Current, opcodeOrder)`, which is in
  `PossibleSuites(Current)`.

`SuiteProofs.tla` proves the content properties:

* `WrittenSuitesCorrect`: `Spec => []WrittenHoldsSuite`. Every file with
  `st = "complete"` and `run >= 1` holds a suite in `PossibleSuites(f)`: the
  suite its provider built in the process that wrote it. It is inductive
  together with `IInv`. Only `WriteAll` completes a file, and by `IInvSuite`
  it writes the provider's suite for the current `opcodeOrder`.
* `PingTable`, `ListAuthenticatorsTable`, `ListOpcodesTable` and
  `ListProvidersTable` evaluate the round-trip, opcode and (list providers)
  coverage predicates on each suite literal, for every `HashSet` order.
  `PairSuite` first reduces a predicate on a two-case suite to its two cases.
  `ListOpcodesTable` states no response fact.
* `ListOpcodesResponseOrder`: the list_opcodes responses match the client's
  decoding exactly when the `HashSet` iterates in `vec!` order, and another
  order (Encrypt, Decrypt, DestroyKey) is among `OpcodeOrders`. So the
  `list_opcodes_order` violation holds in general and is no accident of the
  instance.
* `RequestRoundTripCorrect`, `FileOpcodeCorrect` and `SuiteCoversCorrect`
  prove those properties for every `MainOrder` whose providers are all
  consistent (`OrderConsistent`), or, for coverage, all list providers.
  `ResponseRoundTripCorrect` proves it for every `MainOrder` of the providers
  whose result lists are `Vec`s (`OrderedProviders`: list_authenticators,
  list_providers, ping). Each holds for every hash seed of every run. The
  hypotheses are needed: the violation runs show that list_keys,
  list_opcodes (responses only), ping (coverage), psa_aead_decrypt and
  psa_verify_hash break these properties.

Left to TLC:

* `OutputSetConsistent` and the other violation runs.

Neither proof module uses RECURSIVE operators.

## 5. Plan

1. Done (first sitting): the fixture model, the generator run with failures,
   crashes and reruns, the runs and findings, the type and Ok-run theorems.
2. Done: the abstract `SuiteEmitter` and the proved refinement; TLAPS proofs
   of the round-trip, opcode and coverage properties for the consistent
   providers.
3. Done: the `HashSet` iteration order of list_opcodes as a per-process
   choice, its violation run, and `ListOpcodesResponseOrder`.
4. Next: a variant of `to_json_file` that writes to a temporary file and
   renames it. Check with TLC that it satisfies `OutputSetConsistent`.
5. Next: the frame layout as a byte sequence (fixed header fields and length
   prefixes), with a round-trip check over bounded headers.
6. Not planned: the 19 providers without source, the protobuf codec, and
   JSON/base64 formatting.
