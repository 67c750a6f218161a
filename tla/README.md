# Sonder: verification project

TLA+ models of Sonder's audit chain and approval gates, model-checked with TLC
and proved with TLAPS. Everything here is translated from the TypeScript under
`src/`; paths below are relative to it.

## 1. The system

Sonder records what agents do. An application emits an event; adapters add
governance data and may hold the event back; the event is redacted, chained to
the agent's previous event, signed, and stored in SQLite. A verifier walks the
chain, and a publisher anchors the chain heads in a git repository. An approval
gate that is pending keeps an event out of the log until an operator decides.

| Component | Code | State | Operations |
|---|---|---|---|
| Audit log | `packages/core/src/audit.ts`, `chain.ts` | tables `events`, `chain_genesis` | `write`, `writeChain`, `immediate`, `readLatestHash`, `readGenesis`, `readHeadEvent`, `query`, `queryChildren`, `queryDescendants` |
| Emit pipeline, bus | `packages/sdk/src/emit-pipeline.ts`, `core/src/bus.ts`, `gate.ts` | calls in flight, handlers, adapters | `emit` (v1), `emit`/`emitOutcome` (v2), `persistSigned`, `contribute`, `observe` |
| Runtime | `sdk/src/runtime.ts` | key pair, database connection | `createRuntime`, `shutdown` |
| Verifier and its command | `sdk/src/verify-chain.ts`, `cli/verify-chain.ts` | none | `verifyChain`, `run` |
| Gate registry | `core/src/gate-registry.ts` | map in memory, JSONL file | `register`, `resolve`, `expireOverdue`, replay |
| Gate retry, registry-backed gates | `core/src/gate-retry.ts`, `adapters/lattice/src/index.ts` | retry loops | `emitWithGateRetry`, `checkGate` |
| Anchors | `sdk/src/anchor.ts`, `cli/anchor.ts` | anchor repository and its remote | `buildAnchorManifest`, `run` |
| Redaction | `core/src/redact.ts` | none | `redactSonderEvent` |
| Keys, hashes | `core/src/sign.ts`, `hash.ts` | key file | `loadOrGenerateKeypair`, `signEvent`, `verifyEvent`, `canonicalize` |
| AOP projection | `core/src/aop.ts` | none | `toAopEvent`, `projectGovernanceObservation` |
| withSonder | `sdk/src/with-sonder.ts` | one wrapped call | emits a decision event, calls the function, emits an outcome event |
| Adapters | `adapters/*` | injected callbacks | `contribute`, `checkGate`, `observe` |
| CrewAI port | `adapters/adapter-crewai-py` | a file of its own | unsigned rows, single threaded |

How they interact: `emit` awaits the adapters, then runs synchronously into a
SQLite transaction that reads the latest hash and writes the row; handlers are
called inside that transaction, observers are started there and not awaited.
`checkGate` of the Lattice adapter consults the gate registry, which operators
and a periodic sweep change. `emitWithGateRetry` polls by emitting again, and a
caller of a wrapped function may call it again after a veto. The verifier, the
queries and the publisher only read the log.

What is hard about it:

- JavaScript interleaves calls at each `await`. The id and the timestamp of an
  event are taken before the await, its predecessor is looked up after it.
- The wall clock orders the log, and a wall clock may stand still or step back.
- A transaction holds side effects that cannot be rolled back (handlers,
  observers), and two tables that must change together.
- The process may end at any point; the store, the gate log and the key file
  are what a new process finds. The gate log is appended with plain
  `appendFileSync` whose errors are swallowed.
- Polling, deadlines, timeouts and operators race one another.
- All adapters are shown one snapshot, answer in any order and are merged in
  another; gates are asked one after the other, and the policy behind them may
  change in between. A veto comes as an exception in a call that has already had
  effects.
- Several processes may start from one key file, which is written in three system
  calls without a lock. Anybody may edit the database.
- `parent_id` is what a caller passed: it may name nothing, or close a cycle.

What makes each component right:

- Audit log and pipeline: an agent's rows form one chain that starts at a genesis
  seed, the log only grows, a new head extends the old one, what `emit` answered
  agrees with what is on file, and the verifier accepts an untouched log.
- Gate registry: a gate gets at most one verdict and keeps it through crashes; the
  map is the projection of the log; no verdict is invented.
- Gate retry: each loop ends; a resumed gate lets the event through; a denied
  one does not.
- Anchors: a run that reports success left a manifest at the remote that is at
  least as recent as the heads it read; the tag never goes back.
- Redaction: protected fields survive, and nothing that the level masks is left.
- Envelope: the merge depends on the order of registration alone, and an event that
  passes leaves no demanded gate undecided.
- withSonder: the caller's answer is on file, the function runs once, every call
  answers.
- Keys: the processes that run hold one key. Verifier: exit code 0 means that the log
  is whole, and an untouched log gets it.
- Queries and text: a walk finds every descendant and ends, pages tile the log, no
  two values have the same canonical text, the AOP projection loses nothing.

## 2. Modules

| Module | Models | Composes |
|---|---|---|
| `AuditStore` | the two tables as sets, the queries on them, chain helpers, verifier: operators only | |
| `LinearLedger` | abstract: per agent, a list of linked entries that only grows at its end | |
| `EmitPipeline` | one process with many emits in flight, shutdown, crash, restart, clock | extends `AuditStore`; implements `LinearLedger` |
| `GateLifecycle` | abstract: a gate is opened once and gets at most one verdict | |
| `GateRegistry` | the map, the log file and its torn tail, replay | implements `GateLifecycle` |
| `GateFlow` | callers in `emitWithGateRetry`, operator, sweep, clock, crashes | extends `GateRegistry` |
| `AnchorPublisher` | runs of `sonder-anchor` over a clone and its remote | |
| `Redaction` | one event on its way through the redactor | |
| `Envelope` | `contribute` of all adapters, the merge, `findPendingGate` with several adapters | |
| `WrappedCall` | `withSonder` from call to answer, with the caller's retries | extends `Envelope` |
| `KeyFile` | starts of processes from one key file, by system call | |
| `AuditTrail` | the log over its life: processes, edits by hand, the verifier command | extends `AuditStore`, `KeyFile` |
| `AuditQueries` | `query` and the walks over `parent_id`: operators only | extends `AuditStore` |
| `Canonical` | `canonicalize` and the clone by JSON: operators only | |
| `AopEvent` | the AOP projection: operators only | |
| `AuditReads` | one read of the log, one projection or one value to be hashed, per initial state | extends `AuditQueries`, `AopEvent`, `Canonical` |
| `MCEmitPipeline`, `MCGateFlow`, `MCAnchor`, `MCRedaction`, `MCWrappedCall`, `MCAuditTrail` | constants for TLC; `MCAuditTrail` composes `AuditTrail` with `AuditReads` and lists the values | |
| `Induction` | induction on numbers, stated for sets, and what a recursive function computes | |
| `EmitPipelineProofs` | proofs about `EmitPipeline` | |
| `GateFlowProofs` | proofs about `GateRegistry`, `GateFlow` | |
| `AnchorProofs`, `RedactionProofs` | proofs about `AnchorPublisher`, `Redaction` | |
| `WrappedCallProofs` | proofs about `Envelope` and `WrappedCall` | |
| `AuditProofs` | proofs about `KeyFile`, `AuditTrail`, `AuditQueries` and `AopEvent` | |
| `CanonicalProofs` | proofs about `Canonical` | |

### From the code to EmitPipeline

Code between two awaits is one action. `Start` is `buildEnvelope` up to its
await: the ULID and the timestamp are taken and every `contribute` is called.
`Contribute` is the continuation after `Promise.all`, up to the call of
`checkGate`. What follows the gates is synchronous, so each way it can end is
one action: `GateVetoes`, `Refused` (redaction or missing L0 evidence),
`StoreRefuses`, `PersistSigned`, `HandlerRollsBack` (a handler throws in the
transaction), `LateRollback` (COMMIT fails, or a synchronous observer throws,
after observers were started), `PersistLegacy` (the v1 emit, whose row is
written outside any transaction). `AdapterFails` is a rejected adapter promise.
`CrashAfterCommit` separates the commit, or the write of a v1 row, from the answer to
the caller.

`rows` and `genesis` are the tables, `env[e]` the envelope held by call `e`,
`seen` what handlers were shown, `observing` the `observe()` calls that run.
`nextId` is `monotonicFactory()` of the ULID library: ids increase in the order
of `Start`. After a restart ids continue to increase, which a ULID does because
its prefix is the time; the model therefore lets a restart happen only at a
later clock value, so that ids and timestamps stay in step except where the
clock is set back explicitly.

A hash is represented by the id of the row hashed, a signature by the number of
the key. SHA-256 and Ed25519 are taken to be ideal. The outcome of redaction, evidence tiers
and the allowlist enter as a small record (`GovernanceRecords`) that carries
what the refusals test, with the answer that `checkGate` will give.

### From the code to GateRegistry and GateFlow

`records` is the `Map`, `file` the lines that parse, `tail` the text after the
last newline. `AppendLog` has the outcomes of `appendFileSync` with a
swallowed error: the line is written, it is glued to an unfinished line (and
both are lost to `replay`), nothing is written, or a part of it is (`Torn`: part of a
line, or a line without its newline, which still parses), as when the disk is full.
`CrashInAppend` is a process that dies in the middle of an append.
`Replay` is a closed form of the loop in `replay()`; the invariant
`ReplayIsLoop` compares it with the loop itself, a fold of `ReplayLine`, in
every reachable state of a run with torn and lost lines. `Expire` is one turn
of the loop in `expireOverdue`, since listeners run between turns and may call
the registry. An `ApprovalGate` keeps the state with which the policy opened
it; the registry's status is separate, as in the code.

A caller of `GateFlow` is one call of `emitWithGateRetry`: `Begin`, then an
emit (`FirstTry` when the registry does not know the gate, `Retry` when it
does), which passes, or vetoes and leads to a sleep or to a timeout, then
`WakeUp`. `Rejects` is any other error. After a crash `Begin` is the agent's call for the
same event in the new process, which finds the gate that the replay made of the log.

### From the code to AnchorPublisher

`run()` is synchronous, but other processes go on between its file operations
and git commands, and it may be killed there; so each of them is an action:
`Launch` (list the agents, exit 2 if there are none), one `ReadHead` per agent,
`Truncate` and `Fill` (the two halves of `writeFileSync`), `Add`, `Commit`,
`MoveTag`, `PushBranch`, `PushTag`. A dry run goes as far as `Fill` and writes where it
was called, which may be the clone; `BadArguments` and `NotARepo` are the two places
where exit code 64 is decided. `AttemptFails` is a turn of the loop in
`pushWithRetry`, which starts with the branch again; a push that fails may have
reached the remote all the same. `GitFails` and `Dies` end a run anywhere.

A chain enters as the position of its head, which `HeadAdvance` of the pipeline
lets only grow. `worktree`, `index`, `history` and `tag` are the clone, `rbranch`
and `rtag` the remote; they outlive every run. One clone pushes to the remote, so
history is a line and a commit its position. Git itself is external: a command
has its documented effect or none.

### From the code to Redaction

An event is a function from JSON paths to values. A value has a type (`nan` and
`absent` among them), the kinds of pattern that match in its text, and a mark for
the placeholder. `Configure` is `validateMustNotRedactOverride`, `Begin` the clone
by JSON, `WalkKeyName` and `WalkPattern` one walk each, `Enforce` the check of the
allowlist after them. The patterns of one kind (eleven for secrets, two for phone
numbers) are one walk. What a match replaces may have matched later patterns too
(a number inside a longer one), which `also` leaves open; a placeholder brings no
new match about, since each pattern begins and ends where a word does or with a
sign that is in no word. Which protected path is named in the refusal is left out.
The redactor is sequential; its module stands beside `EmitPipeline`, where the
action `Refused` is the outcome `"refused"`.

### From the code to Envelope and WrappedCall

`EmitPipeline` is about many emits and one adapter answer; `Envelope` is about one emit
and many adapters. `BuildEnvelope` is `buildEnvelope` up to its await, with the snapshot
that every adapter gets; `Settles(i)` is one adapter's promise, in any order, and
`AllSettled` is `Promise.all`. `MergeNext` is a turn of the loop of `bus.ts:98-105`,
`AskClear` and `AskPending` a turn of the loop in `findPendingGate`, since there is an
await in each. A section of the event is a block that is replaced whole; what is kept of
it is whose it is and whether it has a gate and evidence. `Contributions` has what each
of the six packages can return: a block from the host, the `EMPTY` one, or, for Aegis,
the snapshot's governance with its own two fields.

`Demand(g)` is the host's policy beginning to ask for a gate, `Decide` an operator or the
sweep; both happen between any two steps. `late` remembers gates that were demanded after
the emit had asked for them, which no order of asking could catch.

`Call`, `CallFn`, `FnSettles` and `Answer` are the parts of the wrapper between its
awaits; `Stored` and `EmitFails` are how each of its two emits ends; `OnEventThrows` is an
exception of the host's callback, and `Crash` the end of the process. `Call` after an
answer `"gate"` is the retry that `gate.ts:26-29` asks of the caller. `oneGate` says that
the policy uses one `gate_id` for a decision and its outcome.

### From the code to KeyFile and AuditTrail

`loadOrGenerateKeypair` is `Look`, and then `CheckMode` and `ReadKey`, or `Generate`,
`Truncate`, `Write` and `Chmod`: one action per system call, since other processes run in
between, and `Ends` may come after each. `FileRemoved` and `ModeChanged` are what may be
done to the file from outside. `raced` remembers that two starts found no file, or that
it was removed.

In `AuditTrail` an emit of a process that is up is one step. `Delete` and `Alter` edit the
database as somebody without the signing key can: a row goes, or its text changes, with
the old hash or with one computed afresh and signed by another key (key 0). `ExitCode` is
the command: its flags as a record `Arguments`, the checks in the code's order, then
`VerifyChain`. `before[id]` remembers what the agent had on file when the event was
emitted.

### From the code to AuditQueries, Canonical and AopEvent

These are pure functions, written as the code computes them and compared with what they
should be. `QueryDescendants` is the breadth-first loop with its visited set; `Query` is
the `WHERE`, `ORDER BY`, `LIMIT` and `OFFSET` that are built from a filter. `Serialize`
writes a text character by character, over an alphabet of the characters that mean
something in JSON, because the property is about the text. The code recurses over members;
`Canonical` recurses over levels: `JsValues[d]` are the values of at most `d` levels, and an
operator like `SerializeAs` says what is made of a value whose members' texts are known.
`MaxDepth` bounds the levels, `Values` are those that are hashed. `ToAopEvent` works on
functions from names to values, with one name for all names that are treated alike.
`AuditReads` has a variable `given` for their inputs: an initial state of the run either
starts the trail or has one input of one function.

## 3. Runs

`expect: pass`:

| Run | Shows | Bounds |
|---|---|---|
| `emit_faults` | rows of an agent hang together from one root, heads extend heads, answers agree with the store; for emits in any order, a clock set back, crashes, throwing handlers, rejecting observers | 3 emits, 2 agents, both versions, 2 clock values, 1 restart |
| `emit_ordered` | the verifier accepts the log at all times, and the chain implements `LinearLedger`, when emits keep their order and the clock does not step back | as above, with refused and accepted events, full disk |
| `emit_live` | every emit settles | 3 emits, 1 agent, every kind of refusal |
| `gate_durable` | map = replay of the log, one verdict per gate (`GateLifecycle`), a denial stands, also for a caller that calls again after a crash and meets the gate as replayed, sleepers wait on listed gates | 2 callers with a gate each, 3 kinds of gate, clock 0..3, 1 restart |
| `gate_faulty` | a replay invents no verdict, closed form = loop, retry loops end, a resume unblocks a waiting caller even if its deadline or its timeout passes first; with lost appends and torn ones, whose process dies or goes on | 2 callers of one gate, which has a deadline, none or an unparsable one; timeout 2, clock 0..3, 1 restart |
| `anchor` | exit 0 means anchored for good, a date's tag never goes back, nothing torn is published, tags name commits of the remote's branch, every run ends; with dry runs, kills, git failures, failed pushes and emits between any two steps | 2 runs one after the other, 2 agents, 2 dates (same or different), chains up to 2 events, 3 attempts |
| `redaction` | protected fields survive as they came in, nothing that the level masks is left, the evidence block is exact, no refusal without a cause | 1,728 events of 13 paths (missing, null, NaN, nested under a sensitive key, up to 3 patterns in a string), 4 allowlists, 3 levels |
| `calls` | the merge goes by order of registration, no demanded gate is passed by, the caller's answer is on file, the function runs once where the policy allows it, every call answers; with adapters that settle in any order or reject, gates demanded at any time, verdicts, `onEvent` that throws, crashes | 6 deployments of up to 2 adapters, 3 attempts, 2 subjects, a user's adapter that may fill 2 sections |
| `trail` | all processes hold the one key of the file, exit 0 of the verifier means a whole log, an untouched log passes; and, for each small input, queries, canonical text and AOP projection are exact | 2 processes, 2 keys, 2 agents, 3 events, 2 edits; logs of 3 rows with any `parent_id`; values up to 3 levels deep (`MaxDepth = 3`) with strings of up to 2 characters; AOP events with any of 6 fields |

`expect: violation`, each against a sentence of the repository:

| Run | What happens |
|---|---|
| `emit_racing` | two emits of an agent commit in the other order than their timestamps; the third links to a row that already has a successor (spec R6: "a linear chain with no fork") |
| `gate_default` | an expired gate with `default_action: 'deny'` lets its event through (`event.ts:56`) |
| `aegis` | an `AegisAdapter` registered after the `LatticeAdapter`, as its comment asks, is shown the same snapshot as Lattice and replaces Lattice's governance by the snapshot's (`lattice/src/index.ts:187-190`) |

Divergences seen while modelling and not given a run of their own. Where a doc says
otherwise it is named; the rest is behaviour that a reader may not expect.

- Chain and log. After the key file is lost the new key continues the old chain
  (`design.md:145`: "a fresh key means a fresh chain"). After a step back of the wall
  clock the verifier reports a mismatch on an untouched log, while R5 has no such
  exception. `docs/adapters.md:6` says that `observe` comes after emission, but
  `persistSigned` starts it before COMMIT; `docs/adapters.md:286` says that its errors
  are swallowed, but `void Promise.all(...)` leaves the rejection unhandled, which ends
  a Node process.
- Verifier and publisher. `verifyChain` never compares an event's own `agent_id` with
  the agent asked for. The command opens the database as a writer, so that a wrong path
  creates an empty one (exit 2), and a `--pub-key-file` that cannot be read exits with
  1, as a mismatch does. `design.md:175` speaks of three attempts "with backoff"; the
  code retries at once.
- Gates. A line appended after a torn one is glued to it and lost too, so a replay no
  longer gives the map (`gate-registry.ts:15-18`). A denied gate vetoes its event until
  the caller's timeout, and the denial itself is never recorded (`gate.ts:47-52`).
  `gate-retry.ts:25` calls `timeoutMs` a hard ceiling, but the last sleep may run past
  it by up to `pollMs`.
- Wrapped calls. If the policy opens a gate for the outcome only, the function has run
  when the veto comes, and the retry runs it again (`FnRunsOnce` has the condition).
  If `onEvent` throws, the function is skipped or its result is lost.
- Key file. A file torn by a crash stops every later start until it is removed. Two
  starts that both find no file end with two keys, one of which is in no file (`OneKey`
  excludes this by `raced`).
- Queries. A filter's `violations` is not looked at; an `offset` without a `limit` is
  refused by SQLite, and a `limit` of 0 is none; `queryChildren('')` returns everything.
  Filters and walks go by the columns, the verifier by the stored text: a `parent_id`
  that is edited in its column alone changes a walk and no check.
- Text. An undefined member of an object is dropped, while `hash.ts:23-26` says that
  `canonicalize` throws on undefined at any depth; lone surrogates are not rejected. The AOP projection
  overrides keys of an existing `metadata.sonder` and replaces one that is no object.
- Redaction. `redact.ts:288-292` protects `$.paths` so that no path is redacted away,
  but the allowlist is matched exactly and `$.paths[0]` is masked if, say, it contains
  nine digits; a string that two patterns match is listed twice in
  `metadata.redaction.fields`, and `count` counts it twice.

Why the bounds are enough. A fork needs three emits of one agent: two that
overtake each other and one that links to the wrong row. Two agents show that
chains do not mix; a second agent is enough since no step reads more than one
agent's rows. Two clock values give equal, increasing and decreasing
timestamps. One restart separates "before" and "after" for each stored thing;
a second one starts from a state of the same shape. Two gates with a caller
each cover a verdict on one while another changes (`gate_durable`), two callers of one
gate the retry by one of what another registered (`gate_faulty`). With `Poll = 1`,
`Timeout = 2` and a deadline of 1 a caller may find its deadline passed on its second try
and its timeout not, or sleep on and find the timeout passed as well.
What a dead run leaves is met by the next one, so two runs are enough for the
publisher; two dates show that a run commits what another date left in the index.
Two adapters are the fewest that can settle and be merged in different orders and
that a gate can be decided between; the deployments pair those that share a section.
Three attempts are a first one, one after a veto of the decision and one after a veto
of the outcome. Two keys and two processes are what a race over the key file takes;
three events and two edits leave room for a row removed from the middle, from either
end, and altered beside one that was removed. Three rows with any `parent_id` hold
every cycle up to length three, forks, and rows without an end.

`trail` has an action constraint, `Bound`: starts, ends and changes of the key file are
explored in full on an unedited log of at most one event, and the log then grows and is
edited from every outcome of them in which a process is up and the key file is whole and
private. No emit or edit looks at the key file, and no start looks at the log, so that
what is cut are interleavings of steps that commute.
`emit_ordered`, `emit_faults` and `trail` use the symmetry of emits, agents or processes,
which no action or property distinguishes; the liveness runs use none.

Deadlock is not checked (`CHECK_DEADLOCK FALSE`): emits, callers, runs and attempts are
finite in number, and a system whose calls are all over rightly stops.

### Fairness

`emit_live` assumes that adapters settle their promises and that the event loop
runs a continuation that is ready (`WF` on `Contribute` and on `Finish`, per
emit; an adapter that fails disables both). What ends an emit is decided by data
that was fixed before (the gates' answer, redaction, evidence), so that each
kind of refusal must reject by itself. The loop is FIFO per ready queue, so weak fairness is what
Node gives; an adapter that never settles does hang `emit`, since there is no
timeout in the code. `calls` assumes the same of adapters and event loop, and that the
wrapped function settles (`WF` on `CallStep`; there is one call at a time, so that one
of its disjuncts is what the call waits for). `gate_faulty` assumes that time passes,
timers fire and a tried emit returns. `anchor` assumes that a file operation or git
command that was started returns (`WF` on `Step` of each run): `spawnSync` is
called without a timeout, so a `git push` that hangs does hang the run. Operators, sweeps,
policies, restarts and crashes have no fairness anywhere: nobody need act.

## 4. Proofs

All theorems hold for every value of the constants that satisfies the named
assumptions of the modules (`AgentsAssumption`, `ConstantsAssumption`, `GateAssumption`,
`FlowAssumption`, `AnchorAssumption`, `RedactionAssumption`, `EnvelopeAssumption`,
`WrappedCallAssumption`, `KeyFileAssumption`, `AuditTrailAssumption`,
`AuditQueriesAssumption`, `CanonicalAssumption`): any number of
emits, agents, callers, gates, restarts, runs, adapters, attempts, processes and edits.

`EmitPipelineProofs` (any scheduling, any clock, any fault):

- `TypeCorrect`: `Spec => []TypeOK`.
- `RootedChains`: `Spec => []OneRoot`, and `HeadsAdvance`: `HeadAdvances`. `OneRoot`
  is not inductive alone. The strengthening adds that ids in use are below
  `nextId`, that an id belongs to at most one call and at most one row, that a
  call in flight has no row, that the rows are finite (so that a nonempty chain
  has a head), and that `genesis` names an existing row.
- `OutcomesMatch`: `Spec => []OutcomeMatchesStore`.

The same module, assuming `Lockstep`, no `clock_step_back`, and for the verifier
no `key_lost`:

- `VerifierAccepts`: `Spec => []VerifierPasses`. The invariant says that rows and
  calls in flight are ordered alike by id and by (timestamp, id), and that each
  row is linked to its immediate predecessor. The run `emit_racing` is what
  happens without the first assumption; a clock set back breaks it too.
- `ImplementsLedger`: `Spec => LedgerSpec`. The head of the walk is the tip of the
  ledger, and a commit appends there.

`GateFlowProofs`:

- `FlowTypeCorrect`, `SleepersListed`: whatever the log loses.
- `VerdictsSubmitted`: `FlowSpec => []NoInventedVerdict`, whatever the log loses. The
  strengthening extends the claim from the map to every line of the file and
  its tail, so that a replay of any of it is covered.
- Under `LogFaults = {}` (each append reaches the file): `RecordsProjected`
  (`Projection`), `ImplementsLifecycle` (refinement of `GateLifecycle`) and
  `DenialsHold` (`DenyStands`). The strengthening says that there is no tail
  and that the replay of the file is the map, also while the process is down
  and the map is gone; its step is a lemma on what one more line does to the
  closed form of `Replay`. That a denial holds follows from the lifecycle: a
  verdict never changes, so a denied gate stays denied in the log, through any
  crash. Without the assumption a torn line takes the next one with it.
- `ReplayClosed`: `FlowSpec => []ReplayIsLoop`. `Replay` is a closed form (a gate's
  record is its first line, with the verdict of the last line that has one); the code is
  a loop over the lines. They agree on the empty log and, by a lemma with one case per
  kind of line, on one line more, hence on a log of any length.

`AnchorProofs`, assuming that runs do not overlap (`~Overlap`): `AnchorTypeCorrect`,
`SuccessHolds`, `TagsAdvance`, `PublishedTrue`, `TagsOnBranch`, all from one
invariant. It says that at most one run is active; that the file, the index and
every commit hold heads at or before the log's, and only the file may be torn,
and only where no run has yet reached `Add`; that along the history the manifests
of a date only advance; and, stage by stage, how far what the active run built
has come: in the file, in the index, at the last commit, under the tag, at the
remote. The assumption is needed: with `Overlap = TRUE` every property except
`RunEnds` has a short counterexample (a second run truncates the file before the
first one's `git add`, or commits heads that were read earlier). The command is meant
to be scheduled once a day, and nothing in it takes a lock.

`RedactionProofs`, for any event, set of key names, allowlist and level:
`RedactTypeCorrect`, `ProtectedFieldsSurvive`, `NothingIsLeft`, `EvidenceExact`,
`RefusalsHaveCause`. The invariant relates the tree after `at` walks to the clone: a
protected field is the clone's or has gone with a sensitive ancestor (the only
loss, which `Enforce` then finds); a path is listed if and only if it is masked;
no pattern of an earlier walk shows. That what is lost is accounted for needs the
topmost sensitive key above a path, a lemma by well-foundedness on lengths.

`WrappedCallProofs`, for any deployment, any number of retries and any policy:

- `CallTypes`: `Spec => []CallTypeOK`.
- `MergeIsByRegistration`: `LastRegisteredWins`. The strengthening (`MergeInv`) follows the
  merge turn by turn: after `n` adapters a section is the block of the last of the first
  `n` that filled it, and while it is merged nothing more arrives.
- `PassedIsClear`: `PassedNoPendingGate`. The strengthening (`GateInv`) says the same of
  the adapters asked so far: each has no demanded gate that is not resolved, but for
  those in `late`. It is inductive because a resolved gate stays resolved, which is what
  allows the code to ask one adapter at a time.
- `AnswersAreRecorded`: `AnswerIsRecorded`, from what each phase says of the log
  (`PhaseInv`) and what the log says by itself (`LogInv`): an outcome names the decision of
  its own attempt, and an attempt is never reported twice.
- `RetriesRunOnce`: `FnRunsOnce`. Under a policy that does not move and has no gate for
  outcomes alone (`SteadyPolicy`), once the function runs every demanded gate is
  resolved, so that no later emit of the call is vetoed and the caller never retries.

`AuditProofs`, for any number of processes, events, edits and keys:

- `TrailTypes`: `Spec => []TrailTypeOK`.
- `AllHoldOneKey`: `OneKey`. The invariant (`KeyInv`) says, as long as nothing has raced,
  that whoever has found no file is alone in that and there still is none, that the file
  is torn while it is being written, and that whoever has written or read it holds its
  key: a whole file is never replaced.
- `PassIsWhole`: `PassMeansWhole`. The invariant (`Follows`) says of each v2 row, edited or
  not, that what its agent had on file before it is what the row that it names had, and
  that row. A log that the verifier accepts is linked row by row; if an event in it had
  one before it that is missing, take the first event of which that is so (the one use
  of well-foundedness, on numbers): its predecessor in the log is the one that it names,
  and that one's history is whole.
- `UntouchedIsAccepted`: `UntouchedPasses`. The invariant (`UntouchedInv`) says that while
  nobody edits, each row is intact, linked to the row before it and, if nothing has
  raced, signed with the key of the file; an agent has a genesis tuple exactly if it has
  v2 rows.

The same module, for any set of rows with distinct ids, whatever their times and
whatever is in `parent_id`, and for any event:

- `PagesTileEveryLog`: counting the rows before a row numbers the rows of a result
  without gaps, because (timestamp, id) orders any two of them; so `InOrder` is a
  bijection that sorts, a page is the segment of it that its limit and offset name, and
  the first `n` pages are its first `n * size` elements, by induction on `n`.
- `WalkFindsDescendants`: two nested loops and a third around them, each with an
  invariant (`Met` for the inner ones, `Level`): after `d` rounds `visited` is what lies at most `d`
  hops below the root, `out` lists it once and the nearer first, and `frontier` is what
  lies at `d` hops and no nearer. That the walk ends without a `maxDepth`, cycles
  included, is a count: a round that leaves the frontier nonempty has met an id more,
  and there are `MaxId`.
- `ProjectionLosesNothing`: field by field, for an event with any fields; what the
  projection's own keys replace in `metadata.sonder` is excepted (section 3).
- `QueryReads` and `AopReads` say the same as invariants of `ReadsSpec`.

`CanonicalProofs`, for values with any number of levels and members, and strings of any
length over the alphabet of `Canonical`:

- `TextsIdentify`: values that are not rejected have one text exactly if they are one JSON
  value. A text is read from the left. An escape is told from what follows it, by its second
  character where it begins with a backslash; therefore so is a string, which ends at the
  first quote that is not escaped; and if the members of an array or an object are told
  from what follows them, so are the commas and the closing bracket, and the whole
  (`Parse`, `JoinedParsed`, `BracketsParsed`). The first character tells the type
  (`StartsDiffer`). In the other direction, the same JSON value has the same text because
  the order of member names is total (`NameOrder`) and so a set of names is sorted in one
  way. Level by level (`Texted`, `Told`, `Determined`), counted up from 0.
- `ClonesKeepHashes`: a clone keeps the JSON value where the value has a text, is a value
  that canonicalize accepts, and is its own clone; hence the hash survives storage.
- `CanonicalReads`: both as an invariant of `ReadsSpec`, for any set `Values`.

That the recursive functions over levels have values at all is proved (`JsValuesIs`,
`LevelsAre`), not assumed. The quote, the comma and the braces have names in `Canonical`
(`Quote`, `Comma`, ...) because the SMT translation does not take them as literals.

Induction. The library's induction theorems take an operator, which the provers cannot
instantiate; `Induction` states them for a set of numbers instead (`CountUp`: a set that
holds 0 and, with each `n` below `N`, `n + 1`, holds `0 .. N`), proved from the well-founded
order on `Nat`, and from that what a recursive function on `0 .. N` computes (`RunExists`).
A proof by induction names the set of the numbers for which its claim holds.

Only model-checked: liveness (`EmitSettles`, `RetryEnds`, `ResumeUnblocks`, `RunEnds`,
`CallSettles`), which is out of the prover's reach under fairness.

## 5. Not modelled, or not in full

- String layout: ULID text, console output, the wording of errors, how a command line is
  split. Canonical text and the clone by JSON are modelled in `Canonical`, except that the
  text of a number is a literal there; elsewhere a canonical text stands for its value.
  SHA-256 and Ed25519 are ideal.
- What the fields of an adapter's section hold, and `observe` of the LeWM and AWM
  adapters, which calls the host and changes nothing of Sonder's.
- `migrateLegacySchema`, which adds empty columns to a database without v2 rows.
- A contribution may hold any key and overwrite `id`, `timestamp` or `agent_id` of the event
  (`bus.ts:99-104`). `Merged` and `Overlay` keep them: no adapter of the repository
  changes one.
- Events that are not JSON data: `redact.ts:99` throws on a BigInt or a cycle, without
  `RedactionRefusedError`; `metadata` that is null or a primitive is spread into an object
  (`aop.ts:130`). The text of an event is encoded in UTF-8 before it is hashed
  (`hash.ts:228`), which maps different lone surrogates alike; the alphabet of `Canonical`
  has none.
- Names of members, which the redactor never scans, and a placeholder that makes a new
  match: see the section on `Redaction` for why the second is taken to be impossible.
- A git child of a publisher that was killed may still finish (`cli/anchor.ts:103-110`);
  `Dies` ends both at once.
- Two processes that emit to one database at the same time: `spec.md:53` confines R6 to
  one process. In `AuditTrail`, where several processes write, an emit is one step.
- Runs of `sonder-anchor` that overlap, and other users of its clone or remote.
- A restart in `EmitPipeline` waits until no call of the old process is in flight;
  after a crash that is always so, after `shutdown()` it is the usual order.
- The CrewAI port (Python, unsigned rows in a file of its own, one thread), the benchmarks
  and the examples are separate programs.

## 6. Plan

Done, in this order: `AuditStore`, `EmitPipeline`, their proofs, `GateRegistry`,
`GateFlow`, their proofs, `AnchorPublisher`, `Redaction`, their proofs, `Envelope` and
`WrappedCall`, `KeyFile` and `AuditTrail`, their proofs, `AuditQueries`, `Canonical`,
`AopEvent`. Left, in order of what it would add:

1. `KeyFile` and `EmitPipeline` in one module, so that emits of several processes on one
   database interleave between their awaits (SQLite's `BEGIN IMMEDIATE` is the only lock).
2. Overlapping runs of the publisher, if the code gets a lock.
