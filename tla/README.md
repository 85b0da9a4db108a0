# Cassette in TLA+

Cassette records the HTTP and MCP traffic of an agent into a YAML file and plays
it back. This directory models the recorder, the player, the file between them
and the commands around them, checks the models with TLC and proves the main
properties with TLAPS. `src/` below is the repository; every definition of the
modules stands for the lines that `PROJECT.json` gives under `map`.

## 1. The system

### Components

| Component | State | Operations | Interacts with | Hard because |
|---|---|---|---|---|
| Cassette (`cassette.go`) | file in memory, per-key groups, cursors, consumed set, all under `mu` | Open/index, Save, VerifyError | transport, MCP wrapper, scrubber, store | everything else shares it; the index is built once and not extended by appends |
| HTTP transport (`transport.go`) | in-flight interaction index; `streamCapture` buffer with its own mutex and `sync.Once` | RoundTrip in record, replay and branch mode; Read and Close of a captured body | Cassette, real server, caller's goroutines | response order, Read against Close, half-arrived bodies |
| MCP wrapper (`mcp.go`) | none | CallTool, ListTools | Cassette | reads the interaction after unlocking |
| Chaos overlay (`faults.go`) | attempt counter per key (in Cassette) | lookup, stream damage | matchResponse, VerifyError | counting under retries; Verify has to know what could not be played |
| Replay listener (`serve.go`) | none | Handler | Cassette in replay | miss path |
| `serve`, `proxy`, `up` and the miss gate (`cmd/cassette/serve.go, proxy.go, up.go, ciguard.go`) | miss counters, listener, exit hook | serveUntilSignal, forwardTo, finalizeMisses | Cassette, net/http, signals | main does not wait for handlers |
| `mcp-proxy` (`cmd/cassette/mcpproxy.go`) | pending calls | two pumps, wait, save | client, spawned server | ordering across two pipes, blocking writes, who ends whom |
| `mcp-serve` (`cmd/cassette/mcpserve.go`) | none | read, dispatch, write | MCP replay | - |
| Match keys (`internal/match`, `canon`, `rekey`) | match configuration | request to key | transport, index | the key of a scrubbed body differs from the live one |
| Scrubber (`internal/scrub`, `canary.go`) | rules | rewrite a file, scan for credentials | Save | a missed credential must stop the save |
| Store (`internal/wirefmt`) | the file | Load, Save (temporary file and rename) | all | crash in the middle, concurrent writers |
| Maintenance commands (`cmd/cassette/maintain.go` and others) | - | load, change, save | store | lost updates against a recorder |
| Timeline (`timeline.go`) | ledger file | AppendTimeline | test processes | read-modify-write in place, without a lock |
| Test helper (`cassettetest`) | mode flags | Use, cleanup | Cassette | mode decided before the file is read |
| Composition (`internal/analysis/compose.go, merge.go`) | - | stitch, merge, split | loaded files | recordings keyed under different match configurations |
| Conformance (`conformance.go`, `internal/analysis/conform.go`) | - | key check, self-replay, codec verify | loaded file, replay, dialects | a scrubbed body cannot be asked for |
| Dialects (`semequal`, `internal/wireenc`) | blocks and calls under assembly | decode, normalize, digest, encode, reframe | everything that reads or writes a response | interleaved fragments, cut streams, five formats that say different things |
| Derived recordings (`graft`, `branch`, `distill`, `whatif`, `port`, `migrate`, `canonicalize`, `scenario`, `fuzz`, `mutate`, `shrink`, `author`) | a directory of files; provenance in each | one command each | dialects, match keys, provenance | edits in place, match config and lineage carried over or not, one command on the result of another |
| Comparison (`diff`, `bisect`, `coverage`) | - | compare two recordings, count a corpus | decoded turns | which difference is a root and which follows from it |
| Verdicts on one recording (`assert`, `lint`, `attest`, `codec verify`) | - | - | decoded turns, match keys | must keep agreeing with what the edits do |
| Tool contracts (`schemacheck`, `mcp-diff`) | - | - | the schemas and calls in recordings | a tool server changes during a recording or between two |
| Audits (`taint`, `egress-audit`, `audit`, `policy`) | - | - | decoded turns, detectors, merge | flows across turns, and across files that were merged |
| Pack, reports, front end, examples | - | - | - | input and output |

### What makes it correct

* A client that asks the n-th time for a key gets the n-th recording of that
  key, whatever other clients, keys, faults or cancellations do in between.
* What a caller heard is what its interaction holds; captures are neither mixed
  up nor done twice, and a broken one is not passed off as whole.
* A file written by a run replays that run, although scrubbing changed the
  bodies the keys were derived from.
* A branch uses up its prefix before it goes live, and does not go back.
* An edit of the file (scrub, prune, rekey, redact, stitch, merge, split) leaves
  each interaction where its client's request finds it; what conformance passes
  does replay.
* A stream reads the same however it was chunked, and a turn reads the same in
  every dialect that can say it.
* A derived recording is what its command was asked for: behavior, keys and
  lineage are those of the source but for the edit, and diff, bisect, lint and
  attest say so.
* A gate that looks at recordings says of them what was true of the sessions.
* The ledger is the history of what was appended.
* Verify accuses exactly what was not played; chaos faults that are bounded end.
* No named credential reaches the disk unless scrubbing is off.
* A stop signal ends a command, and what was over by then is saved and gated.

## 2. Modules

| Module | Models | How state and actions correspond |
|---|---|---|
| `MatchTable` | `index`'s key of an interaction, `nextIndexLocked` | operators, shared by the next two and `CassetteSession` |
| `Faults` | `faults.go` | operators; status 0 is "not synthetic", `keep` -1 is "do not truncate" |
| `Tape` | nothing in the code: the promise of replay | per key a sequence of positions; the n-th play is a function of n, the sequence and the policy |
| `CassetteReplay` | Open, `matchResponse`, the MCP replay, VerifyError, many clients | `index`'s loop is one action per iteration; `matchResponse` is context check, key derivation, attempt count and lookup (first critical section), take (second), delivery; `hand` is what a goroutine holds after the unlock |
| `MCReplay` | instance | |
| `CassetteReplay_proofs` | theorems | |
| `CassetteRecord` | `record`, `streamCapture`, the MCP record, `Save` with its backstop | one action per critical section of `Cassette.mu` and `streamCapture.mu`; a Read is two actions (the source's Read, the tee), `finalize` three (copy, store, error) |
| `MCRecord` | instance | |
| `CassetteRecord_proofs` | theorems | |
| `CassetteSession` | a run (record or branch), its saves, the process end, a reopening for replay | capture is one step (its detail is `CassetteRecord`'s), a replayed request is one step (`CassetteReplay`'s); the groups are those that `index` builds |
| `MCSession` | instance | |
| `CassetteSession_proofs` | theorems | |
| `McpProxy` | `pumpMCPProxy`, `cmdMCPProxy`, the client and the server around them | each pump is scan, write, tee; pipes are bounded queues; a frame is its id and its kind |
| `FrontDoor` | `serveUntilSignal`, the handlers, the exit hooks | main, the signal goroutine and each handler are processes; of a recording only the state of each body is kept |
| `Relays_proofs` | theorems of `McpProxy` and `FrontDoor` | |
| `Upkeep` | `maintain.go`, `rekey.go`, `compose.go`, `merge.go`, `conformance.go`, `saveScrubbed` | the file is a sequence of interactions plus its volatile paths; one action per command, its load, change, scrub and save in one step; an interaction carries `live`, the request as its client sends it, which only the properties (and a person's edit) know |
| `MCUpkeep` | instance | |
| `Commands_proofs` | theorems of `Upkeep` and `Derive` | |
| `Store` | `wirefmt.Load` and `Save`, the modes of `Open`, the contract in `saveLocked`, `expect.go`, `author.go`, `buildUp`, `resolveMode` | the variables are files; a process opens, captures (or changes) and saves in steps; `knows` is what it could know of the file, and only the properties use it |
| `MCStore` | instance | |
| `Ledger` | `timeline.go`, several processes, failures and kills | a call is load, truncate, write; `apart` remembers what the property excepts |
| `SharedFiles_proofs` | theorems of `Store` and `Ledger` | |
| `Transcripts` | `semequal.go`, `wireenc.go` | a decoder is a fold of one step over the events of a stream; `Encode` and `Reframings` give event sequences |
| `Codec` | the provider around the decoders | one action per event that a provider sends; `said`, `calls` and `finish` are what it means, `stream` is what arrives |
| `MCCodec` | instance | |
| `Transcripts_proofs` | theorems of `Transcripts` and `Codec` | |
| `Recordings` | `request.go`, `engine.go`, `mcp.go`, the parts of a file in `wirefmt.go` | a request is its prompt, its messages and the rest of its body; a key is kind, dialect and body, without the rest if the file has a match config |
| `Derivations` | the commands that make one recording from another | one operator per command, from file to file |
| `Comparisons` | `diffrec.go`, `engine.go` (axes), `bisect.go`, `coverage.go`, `refusal.go` | operators over two recordings or a corpus |
| `Verdicts` | `invariants.go`, `policy.go`, `wireshape.go` of `semequal`; `lint.go`, `attest.go`, `conform.go` | operators over one recording |
| `Derive` | the commands, on a directory | `disk` holds the files; one action per command, its load, edit, stamp and save in one step; `born` is the true lineage of each file, and `last` what was done last |
| `MCDerive` | instance | |
| `ToolContracts` | `schemacheck.go`, `mcpdiff.go`, `mcpsteps.go` | a schema is its top level |
| `Audits` | `taint.go`, `audit.go`, `policy.go`, `merge.go`, `cmd/cassette/egress.go` | a sensitive value is its class and its identity |
| `Gates` | the agent, the model and the tool server that are recorded | one action per interaction; `server`, `stable` and `refused` are what was really so, the recordings are what the gates see |
| `MCGates` | instance | |
| `Gates_proofs` | theorems | |

`CassetteReplay` implements `Tape` under the refinement mapping `IsTape` at its
end (tape is `keys`, given is `served`, sealed is the end of `index`).

Mutants. An operator named `X_What` in a module is definition `X` with a
plausible bug; it is used by no specification, and shows which bug each
property finds.

### Abstractions

A match key is a model value, `NoKey` is a failed derivation. A recorded
interaction has a persisted key (`saved`) and the key that its stored request
derives now (`derived`). A body is the number of its chunks or frames. Time is
left out: pacing, `MaxFrameGap`, frame offsets. Synthetic responses are their
status.

In `Upkeep` a key is its kind, whether the digest is over undecoded bytes, and
the body without the volatile paths. Method, path and tool are the same for all
interactions (a key distinguishes them and no command changes them). Not in it:
allowlisted headers, multipart digests, transforms a user configures, and
headers of responses. A command that refuses or fails leaves the file as it is
and is no step. `RekeyPath` is a library call and is modelled for a caller who
passes the match configuration of the file. The replay that conformance and the
properties speak of is the table of `CassetteReplay` with nobody else asking,
written as the set `Takes` rather than as a loop.

In `Store` a turn is the process that recorded it, and a write is whole or has
not happened: the file is `Torn` until then, which no reader of the cassette
ever sees. `edit` stands for the commands that keep some of the turns. A rename
is atomic, and a kill loses nothing that was written: the code does not sync,
and loss of power is not modelled. A killed process is not started again under
its name, so that what it left behind stays to be seen. Processes do not lock,
and a save may bury one that happened since its process read the file. The
properties do not deny that; they say what a process that was not overtaken
keeps.

In `Transcripts` a text is a sequence of chunks, and arguments a sequence of
fragments: `Canon` says which concatenations are JSON and how they are spelled
canonically, so that the boundaries of chunks and fragments are arbitrary. A
digest is the normal form itself. Ids, usage and time stamps have no place: no
decoder of a transcript reads them. `Sorted` picks one order for each bag of
calls, where the code sorts by name and arguments.

In `Recordings` and the modules above it, a dialect stands for the URL it is
routed by; headers (`Audits` keeps what is sent beside the body) and status
codes are left out. A save by these commands is one step: their crashes are
those of `Store`. A file that a command would refuse to write because of a
credential is not in the instance. `Derive` has no user who edits by hand;
`Upkeep` has one.

In `ToolContracts` a schema has no enums and no nested schemas, which `mcp-diff`
does not walk either. Whether a text contains a sensitive value is given, not
computed: the patterns of the detectors are no part of the model, and neither is
the token budget of a policy.

In `Ledger` a write that succeeds is seen whole or not at all; what two
overlapping writes leave is the later one followed by what was longer, or no
YAML any more.

The dial counter that VerifyError also looks at stays 0: no replay path
increments it, so it has no variable. `Faults` applies in branch mode too
(`RoundTrip` calls `matchResponse` for it); `CassetteSession` has no overlay.
`Matches` compares methods for equality where the code folds case; all methods
of the instance are upper case. `CassetteSession` assumes that a seed without
persisted keys has been scrubbed already, so that scrubbing it again changes no
key; a seed whose keys are persisted may be scrubbed to anything.

## 3. Runs

| Run | Module, configuration | Shows |
|---|---|---|
| `replay` | `MCReplay`, `Replay.cfg` | `OwnRecording`, `RetriesOutlastFaults`, `VerifyExact`, and that the cassette is a `Tape` |
| `record` | `MCRecord`, `Record.cfg` | `HeardIsRecorded`, `GzipWholeOrExplained`, `CaptureOnce`, `CloseEndsCapture` |
| `session` | `MCSession`, `Session.cfg` | `RunReplays`, `SuffixAfterPrefix`, `HeardIsSaved`, `UnopenableOnlyIfKeyless` |
| `mcp_proxy` | `McpProxy`, `McpProxy.cfg` | `RecordedAsHeard`, `ClientEOFEndsCommand` |
| `front_door` | `FrontDoor`, `FrontDoor.cfg` | `FinishedIsSaved`, `GateSound`, `SignalExits` |
| `upkeep` | `MCUpkeep`, `Upkeep.cfg` | `KeepsReplay`, `RekeyRepairs`, `MergeKeepsBodies`, `ConformanceSound`, `ConformanceAccepts` |
| `store` | `MCStore`, `Store.cfg` | `LandsWhole`, `SavesGrow`, `ContractSurvives`, `NoLitter` |
| `ledger` | `Ledger`, `Ledger.cfg` | `LedgerTrue` |
| `codec` | `MCCodec`, `Codec.cfg` | `DecodedAsSaid`, `EncodedAnywhere`, `ReframedSame` |
| `derive` | `MCDerive`, `Derive.cfg` | `LineageTrue`, `BehaviorKept`, `EditedAsAsked`, `CanonicalUnique`, `ShrinkCovers`, `KeysKept` |
| `gates` | `MCGates`, `Gates.cfg` | `FlowsTraced`, `CorpusVerdicts`, `SchemaSound`, `DiffSound` |
| `shutdown_grace` | `FrontDoor`, `FrontDoorGrace.cfg` | a disagreement of a comment with the code (section 6) |

The type invariants (`TypeOK`), `IndexSound` of `CassetteReplay` and
`NoSecretOnDisk` of `CassetteRecord` belong to no run: where there is a module of
proofs they are theorems.

What the runs of the second half show, in short:

* `ledger`: as long as no two writes overlap, no behavior is recorded twice in a
  row for a scenario, although updates are lost and writes are cut off; only if
  the calls come one after the other and none breaks off is the ledger the
  history it is meant to be.
* `codec`: a decoder makes of a stream what the provider meant, whatever the
  order of the fragments and wherever it was cut; every dialect can say every
  turn, unless it writes arguments as objects and those of a call are no JSON,
  and then the round trip reports it; a reframing changes nothing.
* `derive`: after any two commands the provenance is true, canonicalize, migrate
  and fuzz kept the behavior, a graft or branch did what it was asked and diff,
  bisect, what-if and attest agree on what that is, canonical recordings are
  equal byte by byte when their turns are, a shrunk corpus shows all that the
  corpus showed, and lint reports exactly the recordings that no longer answer.
* `gates`: taint finds all flows and no others, a policy judges a corpus as it
  judges its recordings (as far as merging leaves it the means),
  schemacheck accuses the calls that a tool server refused, and what mcp-diff
  lets pass still works.

### Bounds, and why they are enough

* `replay`: 2 clients, 3 keys, 4 requests, 4 files, 5 overlays, all 3 policies.
  A key has at most 2 recordings, so that 4 requests go past the end of a group
  (exhaustion, repetition, one full cycle), and two clients suffice for every
  race of two critical sections. One overlay refuses attempts 1 and 3, so that
  a success lies between two refusals; one matches on nothing; one is shadowed
  by an earlier entry. `MaxCalls` bounds requests only.
* `record`: 2 calls, 6 answers (unary, stream, gzip, each whole or broken, with
  and without a credential), streams of at most 2 chunks: a chunk can be read
  and not teed while another is already captured, with a Close in between.
* `session`: 3 calls, so that two of the same key overlap with a third, seeds
  of up to 3 interactions, `MaxPlays` requests of the reopened file: one more
  than a key can have answers.
* `mcp_proxy`: 2 client frames, 3 server frames, pipes of one frame, so that
  every write can block; a server's own request can carry a pending id.
* `front_door`: 3 requests on 2 routes: one over at the signal, one in flight,
  one not yet accepted.
* `upkeep`: bodies of 2 fields, so that one can be volatile or redacted and the
  other not; 2 plain values and a secret; 6 recordings (one request answered
  twice, a volatile one, MCP, gzip, no JSON, written by hand); files of up to 3
  interactions, so that a merge meets two of one source and one of another.
  There is no bound on the number of edits.
* `store`: 2 names of processes, each used again when its process has ended, so
  that the history is as long as it likes while 2 are at work at once; a
  recorder of up to 2 turns, one contract, a file with both or none at first.

* `ledger`: 2 processes that call again and again, 4 calls in all, 2 scenarios
  of 2 behaviors: enough for a repetition in one scenario around an entry of the
  other, and for a long ledger under a short one.
* `codec`: 6 events, 3 chunks of text, 2 calls of one or two tools with up to 2
  fragments each, so that fragments of two calls and text interleave and every
  prefix is met; `{"b","a"}` and `{"a","b"}` are two spellings of one object,
  and every other concatenation but `{}` is no JSON.
* `derive`: two files in a directory, out of three recordings with all that the
  commands distinguish (interleaved fragments, timing, a repeated call, a unary
  turn, MCP turns, a match config, a contract, a refusal); any 2 commands one
  after the other, each in place or beside its source, because a command meets
  in the output of one other all that a recording can come to lack (streams
  that do not decode, calls, timing, the match config, a first lineage).
* `gates`: 3 turns in each of two sessions: a value needs two turns to flow and
  a third to be sent again, a call needs a list before it and, to change its
  outcome, a change of the server and another call; 6 servers between which
  each kind of change of a schema occurs.

`CHECK_DEADLOCK FALSE` in every configuration: bounded requests, calls and
commands run out, and a finished command stops.

### Fairness

* `record`: a goroutine that is inside Read or Close runs on (it waits only for
  two mutexes, whose holders do not block, and `sync.Once`). Nobody is obliged
  to read on, to close or to save, so `CloseEndsCapture` speaks of a Close that
  was called.
* `mcp_proxy`: the two pumps and main run whenever they are not blocked; the
  spawned server reads its input and exits when that is closed, as the MCP stdio
  transport prescribes. It need not answer. The client need do nothing.
* `front_door`: main runs on, and the drain ends within its two seconds.
  Handlers may hang: `SignalExits` does not rest on them.
* The other runs have safety properties only. (`ledger`: a process may be killed
  at any point, and nothing is promised to happen; `codec`, `derive` and `gates`:
  their actions are a provider, a user and an agent, who need do nothing.)

## 4. Proofs

All theorems hold for every value of the constants that satisfies the named
assumptions of the module (types of the requests and answers, `NoKey` outside
`Keys`, a body arrives no longer than it was meant).

`CassetteReplay_proofs`:

* `InvCorrect`, `TypeCorrect`: `Inv` is inductive. `TypeOK` alone is not: that
  a delivery finds its interaction needs to know what the client took under the
  lock (`HandInv`), which needs to know what `index` filed (`IndexInv`), which
  is stated for the part of the file the loop has passed.
* `IndexCorrect`: the groups hold each recording once, in order, under the
  reference definition `FiledKey`.
* `ImplementsTape`: every step is a step of `Tape` or a stutter. The extra
  invariant `PlayInv` ties each cursor to the number of plays of its key, per
  policy (`CursorLaw`).
* `ServedAtMostOnce`, `VerifyCorrect`, `OwnRecordingCorrect`.
* `RetriesCorrect`: `FaultInv` bounds the refusals of a key by the number of
  attempt ordinals that it has passed and some entry names.

`CassetteRecord_proofs`:

* `InvCorrect`: for each call, `PhaseInv` (where its interaction is),
  `StreamInv` (reader, closer and `finalize` relative to each other) and
  `StoreInv` (what was stored of the copied buffer). That other calls leave an
  interaction alone follows from slots naming their call (`SlotFacts`).
* `TypeCorrect`, `HeardIsRecordedCorrect`, `GzipCorrect`, `CaptureOnceCorrect`,
  `NoSecretOnDiskCorrect`.

`Commands_proofs`, of `Upkeep`:

* `TypeCorrect`: `TypeOK` is inductive here, because it includes `Shows`: a
  stored body differs from the live one only by placeholders, and not where it
  is compressed. Everything else rests on that. `RankOnto` and `SelectFacts`
  show that picking positions in order loses and doubles none.
* `KeepsReplayCorrect`, `RekeyRepairsCorrect`: if every interaction is filed
  under its live key, the n-th request takes the n-th interaction
  (`FaithfulReplays`); one lemma per edit shows that the keys stay.
  `GuardSuffices` is the point of the guard in `cmdRekey`.
* `ConformanceSoundCorrect`, `ConformanceAcceptsCorrect`: for the second, the
  turns that conformance takes are those of the whole file, because
  interactions of one key are all driven or all trusted.
* `MergeKeepsBodiesCorrect`: of the interactions of one identity the first
  survives (`DistinctKeeps`).

`Commands_proofs`, of `Derive`:

* `DeriveInvHolds`: `Derived` says what a command does to a file, whichever it
  is: a file of the format, keys that held hold, and the lineage is empty, the
  source's, or the source's with the digest of the source appended, which the
  commands that stamp always do (there is one lemma for each derivation, `GraftedDerived` to
  `PortDerived`). Then one lemma carries the invariant over a command, since
  each goes through `SaveAll` (`SaveAllStep`): what is on disk are files whose MCP
  calls have their key (`FilesInv`), the lineage of a file is a part of its
  ghost lineage `born`, in order (`LineageInv`), and what was written last keeps
  what its source had (`LastInv`). TLC was asked about `DeriveInv` first.
* `LineageTrueCorrect`; `KeysKeptCorrect`: lint looks at http turns only, so
  that `FilesInv` has to know of the MCP calls (`LintFinds`).
* `CanonicalUniqueCorrect`: what a canonical turn holds is what the encoder of
  its dialect makes of it, and that depends on the normal form alone.
* `CoverCovers`: each round of shrink that finds a gain keeps one file more, so
  that after as many rounds as there are files nothing is left to gain. It is
  induction over the rounds (`SetInduction`).
* `ShrinkCoversCorrect` adds that the copies leave the corpus alone and are one
  for each file kept, because no directory is copied to itself (`PathFacts`).
  Coverage counts calls, which is why it needs the next result: the calls of an
  answer are finitely many (`AnswersFinite`).
* `AnswersHoldAlways`: every stream on disk is a sequence of events that a
  decoder can be given (`AnswersInv`), whatever was derived, damaged or compiled
  before. One lemma for each operator says that it makes events of such pieces
  again (`EncodeTyped`, `ReframedTyped`, `DamagedTyped` for the mutations,
  `VariantTold` and `EditedTold` for turns), one for each command that the file
  it writes holds such answers (`GraftedHold` to `CompiledHold`). Of such a
  stream, well formed or not, each decoder makes a turn with canonical arguments
  and sorted calls (`DecodedIs`: `Sound` of any events, not only of a provider's).
* `BehaviorKeptCorrect`: a turn that was decoded is read back from an encoder as
  it was exactly when the dialect can write it, and what is read back can be
  written once more (`ReadBack`, from the lemmas of
  `Transcripts_proofs`); so codec
  verify finds a turn bad exactly when its own dialect cannot write it
  (`VerdictIs`). Then, turn by turn, canonicalize and fuzz leave a turn as good
  as it was (`CanonicalGood`, `ReframedGood`), and port changes it exactly when
  the target cannot write it (`PortedGood`); `CollectedSame` lifts that to the
  digest of a file. For migrate it is the guard that tells: equal digests are
  equal turns (`DigestsTell`).
* `EditedAsAskedCorrect`: graft and branch write a file that is the beginning of
  the source with another answer to the same request at one place (`EditedAt`).
  What is true of any two such files is proved first. The http turns before the
  edited one are as many in both, so that both number it alike (`PlacesAlike`,
  `NothingFound`, `OneFound`), the n-th of them has no difference unless it is
  the edited one, and the one that has is a root, since nothing before it
  changed: `FoundOne`. The fields that diff names come from diffing two sorted
  lists of calls, and are empty exactly when the lists are the same
  (`DiffNames`). The digest of a file has its place for each turn that can be
  shown, and the place of the edited one is the same in both (`PrefixSame`), so
  that the attestation of the one is refused for the other (`DigestsApart`,
  `Refused`). What the edited answer reads as is the round trip of `ReadBack`
  again, for a turn that need not have been decoded (`WantedBack`: texts,
  reasons and arguments of the edits are words, and canonical). What-if makes
  the same turns without writing them (`Foretold`).
* `GoldensAssumption` is the input: recordings are files with the fields of the
  format, derived from nothing, a streamed answer is a sequence of events of any
  kind, in any order and number, or is not there (`IsAnswer`), and the key of an
  MCP call is the one the recorder files it under. Of http keys nothing is
  assumed. `Words` is what names, reasons, texts and documents are made of.

`CassetteSession_proofs`:

* What `index` files is a recursive function over the interactions (`Filed`).
  That it files exactly the positions of a key, in order (`FiledSound`,
  `FiledAll`), and that a longer file only extends the groups of a shorter one
  (`FiledExtends`, `GroupsAppend`) is induction over the file, done with the
  library's theorem that a non-empty set of numbers has a least element
  (`SetInduction`: a set takes the place of the predicate).
* `InvHolds`: while the run goes on, the groups in memory are those that an
  index of the file in memory gives (`MemInv`), and the n-th answer of a key is
  what the policy makes of the n-th request (`AnswerInv`). A call that is going
  live found its key exhausted (`LiveInv`). The file on disk has the same keys,
  position by position, as the one in memory at the last Save (`DiskInv`). After
  the reopening `ReplayInv` says the same of the replay as `AnswerInv` of the run.
* `RunReplaysCorrect`, `SuffixAfterPrefixCorrect`,
  `UnopenableOnlyIfKeylessCorrect`, `HeardIsSavedCorrect` (an action property),
  `TypeCorrect`.

`Relays_proofs`, of `McpProxy`:

* `InvHolds`: a request is at one place at a time on its way from the client to
  the server and back (`ClientInv`, `ServerInv`, `ResultsInv`), a tools request
  that was forwarded and not answered to the client is registered
  (`PendingInv`), and `RecordInv` keeps the bijection between interactions and
  results. The pipes are sequences of any bounded length.
* `TypeCorrect`, `RecordedAsHeardCorrect`. "In order and one to one" is stated as
  an order-preserving map of positions that leaves no result out (`Records`).

`Relays_proofs`, of `FrontDoor`:

* `DoorInvHolds`: a finished handler never moves again (`HandlerInv`), the miss
  recorder's counts are cardinalities (`SeenInv`; this needs the requests to be
  finitely many, `ReqsAssumption`), and `ExitInv` says what the hooks had seen
  when they decided.
* `DoorTypeCorrect`, `FinishedIsSavedCorrect`, `GateSoundCorrect`.

`Gates_proofs`:

* `InvHolds`: `SchemaSound` compares verdicts with what the server refused, so
  the invariant has to say that what a session listed is what the server has and
  that `refused` are the calls it does not admit, as long as it was not changed
  (`ServerInv`), and that whatever is advertised or listed is a schema
  (`SchemasInv`: JSON has finitely many types, so that a set of types with one
  element can be told by its cardinality).
* `SchemaSoundCorrect`: `ValidateSound` (arguments that are admitted are not
  accused) and `ValidateComplete` (under a plain schema the others are).
* `DiffSoundCorrect`: `ChangesSound`: without a breaking change between two
  schemas what the old one admits the new one admits, as far as mcp-diff
  compares.
* `FlowsTracedCorrect`: `SeenFacts` is the loop invariant of `Taint`: after n
  turns it knows of each value where it was first, where it was sent last and
  how often. `ExfilsLeak` turns that into a statement about the recording
  (`Leaks`: the model brings up what a later request sends), and `LeaksPart`
  says that a part of the recording leaks the same if it has, for each turn, a
  turn like it at its place or before. Both the filter for http turns and the
  merge that leaves copies out are such parts.
* `CorpusVerdictsCorrect`: what a merge keeps of two recordings each of them
  keeps by itself (`FirstsJoined`), each body has a first copy (`FirstCopy`), and
  recordings that share no value leak together what they leak apart
  (`LeaksJoined`).
* `AgentsAssumption` and `ServersAssumption` are the input: turns have the
  fields of an interaction, tool lists are recorded by the action that asks for
  them, and an agent that uses the server calls no other, since a recording of
  mcp-proxy is of one server.

`SharedFiles_proofs`, of `Store`:

* `InvCorrect`: `NoLitter` is inductive with `TypeOK`. The other parts say that
  what is about to be renamed is what the process has in memory (`WholeInv`),
  and that a process that was not overtaken has the turns and the contract of
  the cassette in memory (`TurnsInv`, `ContractInv`), from the load on.
* `TypeCorrect`, `NoLitterCorrect`, `LandsWholeCorrect`, `SavesGrowCorrect`,
  `ContractSurvivesCorrect` follow.

`SharedFiles_proofs`, of `Ledger`:

* `LedgerInvHolds`: until two writes overlap, whoever has truncated the file is
  alone with it and holds a history without churn that its entry changes
  (`WritesInv`); until two calls overlap, there is one caller and it has loaded
  all that was ever appended (`CallsInv`). `NoChurnAppend` is the point
  of the digest comparison in the code.
* `LedgerTypeCorrect`, `LedgerTrueCorrect`.

`Transcripts_proofs`:

* `CodecInv` is inductive: after every event of the provider the accumulator of
  the decoder of its dialect is well formed (`Sound`) and tells what was said:
  its text (`TellsText`), its calls, in order, with the fragments of their
  arguments joined (`TellsCalls`), the reason and whether it failed; and each call
  that was begun has its block at the index that the provider numbers it with
  (`Placed`, per dialect). That events of different calls interleave is what
  `Placed` is for. What a decoder computes is a fold over a recursive function of
  positions; each such function is unfolded once by `SetInduction` (`ReadStep`,
  `OfTypeStep`, `JoinedStep`), and then every event is one step.
* `DecodedAsSaidCorrect`: `Assembled` of such an accumulator is what was said, in
  normal form, wherever the stream was cut; and a decoder reports an error
  (`DecodeFails`) exactly of a stream that carries an error event.
* `EncodedAnywhereCorrect`: what an encoder writes is a head, the pieces of its
  calls and an end, glued together, and `Read` of a list and one event more is one
  step more. So the encoded turn is read back piece by piece (`Holds` for the
  dialects that write arguments as fragments, `Bare` for Ollama and Gemini), and
  the accumulator tells the turn as the dialect writes it (`EncodedRead`):
  `Canonized` calls or `RawCalls`. `CallsBack` compares those with the decoded
  ones: they differ only where arguments are no document and are written as an
  object. This holds of any turn that is `AsDecoded`, not only of the provider's.
* `ReframedSameCorrect`: the chunks of a split glue to the text again
  (`SplitsJoined`), and `Sorted` depends on the calls and not on their order, since
  a sequence and its rearrangements have the same rearrangements (`Rearranged`).

Checked by TLC only: the liveness properties (the prover does not do liveness),
`ENABLED`, and the one property that a run expects to be violated. Induction over
data is possible in the form of `SetInduction`, one function at a time: the
library's theorems that take a predicate as a parameter cannot be instantiated by
the provers here. `SelectSeq`, which the library defines with a recursive
operator, cannot be reasoned about; what is picked from a sequence is picked by
`Where`, the positions in order.

## 5. Not modelled, and the plan

What has no module, or has one in part, is listed with its reason under
`components` in `PROJECT.json`:

* `mcp-serve` asks the replay lookup of `CassetteReplay` one request after the
  other and keeps no state of its own.
* The detectors, the scrubber's patterns, YAML, multipart bodies and header
  digests are computations on texts; the models take their outcomes as given.
* `pack` is the layout of a trailer; watch, dashboard, datasets, eval, reports,
  `doc`, `otel`, `cost`, `explain`, completion and the argument parser are input
  and output.
* Time: pacing, `StreamTiming` beyond whether there is one, timeouts other than
  the drain's.

## 6. Where documents and code disagree

* `shutdown_grace`: main exits without waiting for the two seconds of grace
  (`serve.go`).

Seen while modelling, without a run of its own:

* Replay. Verify lets off recordings behind any unbounded synthetic fault, also
  those an MCP call, or a request that meets an earlier entry of the overlay,
  has reached (`faults.go:81`). `ErrExhausted` is documented and never returned;
  `Options.Faults` says "Replay only" and applies in branch mode.
* Record. A turn whose body broke off is stored without the `error` that
  `docs/spec/cassette-format.md` describes. The comment in `record` speaks of
  request order where appends happen in response order. A broken pipe does not
  end the client pump of `mcp-proxy`, contrary to the comment of `writeLine`.
* Upkeep. After redact-field the client's request does not match if the redacted
  body is an MCP call's or another field is scrubbed (`maintain.go:258`). Stitch
  takes the union of the volatile paths and keeps the keys, which were made
  under the paths of one source (`compose.go:39`). The guard of rekey looks at
  HTTP interactions only, where `docs/cli.md` and `docs/faq.md` speak of scrubbed
  interactions; `docs/security.md` says that scrub keeps keys in step, and
  `cmdScrub` does not rekey. Conformance reports an intact gzip recording,
  scrubbed MCP arguments, and a key whose interactions are partly scrubbed, as
  broken. Merge is said to collapse byte-identical copies only, and also drops a
  repeated turn of one source and ignores status and headers.
* Derived recordings. `fuzz.go:13` says that a variant "replays"; the variants of
  scenario, fuzz, what-if and port lose the match config that their keys were
  derived under. The draft of `author` is a `.yaml` file beside its target, empty
  at first, on which `up` and other readers of the directory fail, contrary to
  its comment; a screenplay's `url` decides by which dialect a turn is read, not
  in which it is written. Graft refuses a turn that is no streaming http turn,
  but lets MCP turns pass.
* Gates. `policy.go:16` forbids model and tool output in later requests; taint
  looks at http turns only. A corpus is judged after a merge that ignores
  headers, so that a finding in the header of a copy is not reported, and turns
  of different sessions make flows that no session had. `mcp-diff` says nothing
  of a key that becomes required without being declared, nor of a declared key
  that had no type and gets one.
* Ledger. `timeline.go:19` calls it append-only; an entry is lost to a process
  that loaded the ledger before it, and all of them to a kill between the
  truncation and the write.
