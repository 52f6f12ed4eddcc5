# TLA+ models of certificate-transparency-go

This directory holds TLA+ models of the concurrent parts of this
repository, with the TLC configurations that check them. Every definition is
translated from the Go source under `src/`. The exception is the fixchain
Fixer and FixAndLog: they are not in this tree, so they are modelled from
`spec.md`, and `PROJECT.json` marks them `spec_modelled`. `PROJECT.json`
lists, for each definition, the source lines it models (`map`), the runs,
the mutants that show each property can fail, the findings and the hazards.

## The system and its parts

| Part | Source | Concurrency and state | Model |
|---|---|---|---|
| fixchain Logger | `src/fixchain/logger.go` | a caller goroutine (QueueChain), a pool of postServer goroutines fed by an unbuffered channel, two locked hash caches, a WaitGroup, atomic counters, an errors channel, RootCerts' retry loop | `Logger`, `MCLogger`; RootCerts in `Chainfix` |
| fixchain hashes | `src/fixchain/functions_test.go` (hash.go) | pure: hash, hashChain, hashBag, bag.Less | `FixchainHash` (hashBag not checked) |
| chainfix command | `src/fixchain/chainfix/chainfix.go` | main reads chains into FixAndLog, a goroutine drains the errors channel into files, shutdown in order | `Chainfix`, `MCChainfix` |
| Fixer, FixAndLog | not in this tree (spec 4.5, 4.7) | fix-worker pool behind an unbuffered task channel, a relay goroutine from the chains channel to `Logger.QueueChain` | inside `Chainfix`, from the spec |
| URL cache | not in this tree (spec 4.3) | AIA fetch cache | not modelled |
| scanner Fetcher | `src/unnamed/part_005` (fetcher.go) | Run, a range-generator goroutine on a cancellable child context, ParallelFetch workers on the parent context, Stop from another goroutine, the log's STH growing | `Fetcher`, `FetchRange`, `MCFetcher` |
| scanner matchers | `src/unnamed/part_005` (scanner.go) | stateless predicates | not modelled |
| CT hammer | `src/trillian/integration/hammer.go` | an op-dependency queue, a ring of pending certificates waiting out the MMD, an STH history, parallel add-chain goroutines, invalid requests | `Hammer`, `MCHammer` |
| CTFE instance | `src/trillian/ctfe/instance.go` | SetUpInstance: a sequence of checks and set-up steps, each of which may end the call with an error | `CTFEInstance`, `MCCTFEInstance` (request log and leaf builders not modelled) |
| Chrome CT policy | `src/unnamed/part_000` | pure group selection | not modelled |
| x509 curves, certcheck, sctscan, test env | `src/unnamed/part_001..004` | initialisation, I/O, drivers | not modelled |

How the parts interact:
- chainfix reads chains and hands each one to FixAndLog.
- FixAndLog has the Fixer fix them, and a relay goroutine queues every fixed
  chain with `Logger.QueueChain`.
- The Logger posts chains to a log and reports failures on the errors
  channel. The Fixer reports its failures on the same channel, and chainfix
  drains it.
- sctscan drives a scanner, whose Fetcher hands batches of entries to a
  callback.
- The hammer drives a log through its HTTP API.

## Modules

### FixchainHash
Certificates are model values with a short DER byte sequence `Raw[c]`.
SHA-256 is taken as injective, so a digest is represented by the bytes it was
computed over. What is kept is how the code builds its inputs: Go's
`hash.Hash.Sum(b)` appends the digest to `b`, so `hash(c)` is the first
`hashSize` bytes of `c.Raw` followed by SHA-256 of nothing (`HashCert`), and
`hashChain` hashes the concatenation of those appended forms (`HashChain`).
`BytesLess`/`RawLess` translate `bag.Less`, and `HashBag` is `HashChain` of the
chain put in `bag.Less` order. `hashSize` is scaled down (`HashSize`).
`HashCert` and `HashChain` are checked through the Logger runs. `HashBag` is
used only by the Fixer, which is not in this tree, and no run checks it.

### Logger
State:
- the two caches: `postCertCache` holds `HashCert` of leaves,
  `postChainCache` holds `HashChain` of chains;
- the caller's program counter `caller`: queueing, blocked in the unbuffered
  send, or returned from Wait;
- the chain being handed over (`pending`);
- each worker's program counter and chain (`wpc`, `wchain`);
- the WaitGroup counter `wg` and the atomic counters;
- the log's answers (`addChainLog`) and the errors reported (`errs`).

Actions:
- `QueueChainOf(chain)`: the nil check, the counter, the leaf check, the
  chain check, the mark and `wg.Add`. On its own, the Logger's caller picks
  any chain (`QueueChain`).
- `HandOver`: the rendezvous on `toPost`, and `active++`.
- `CheckPosted`: postChain's recheck.
- `PostChain`: `posted++`, then AddChain, which may succeed or fail, and the
  cache update on success.
- `ReportError`: the send on `errors`.
- `Finish`: postServer's `active--` and `wg.Done`.
- `Wait`.

### Chainfix (composition)
`Chainfix` instantiates `Logger` on its own variables (`L == INSTANCE
Logger`). It adds:
- main: client creation (fatal on error); RootCerts' loop of up to ten
  getRoots calls, then `log.Fatalf`; processChains one record at a time (a
  fatal open, decode or parse error ends the process); `fl.Wait()`;
  `close(errors)`; `wg.Wait()`.
- The Fixer, from the spec:
  - QueueAllCertsInChain makes one fix task for the leaf of each suffix of
    length >= 2.
  - `SendTask` is `wg.Add` plus the rendezvous with an idle fix worker.
  - The task's outcome is a nondeterministic choice. It is either a
    non-empty set of verified chains of that leaf, none a prefix of another
    (`Verified`, super-chain elimination), or one or two FixErrors.
  - `FixerEmit` drops a chain whose `hashChain` the Fixer already emitted.
    Otherwise it sends the chain on the chains channel.
- The relay goroutine, which calls `Logger.QueueChain` (`L!QueueChainOf`) for
  every chain it receives.
- `logStringErrors`, which receives each error and stores it with
  contentStore, or ends the process with `log.Fatalf`.

Every send on the errors channel (`SendError`) is a rendezvous with that
receive. Once main has closed the channel, a send is a panic.

`LoggerWait` is `l.wg.Wait()`. It does not stop later QueueChain calls. The
Logger's own `Wait` action, which ends its single caller, is not used here.
`FixerWait` and `LoggerWait` give FixAndLog.Wait's order:
1. Wait on the Fixer and close the chains channel.
2. Once the relay has left its loop, wait on the Logger.

The spec's 4.7 order leaves out waiting for the relay. `LoggerWaitNoRelay`
models that reading; see Findings.

### Fetcher and FetchRange
State:
- the tree size and `opts.EndIndex`;
- Run's program counter;
- the generator's program counter and its `start`/`end`/`next`;
- updateSTH's `lastSize`/`targetSize`/`quick`;
- whether the caller called Stop, whether that cancelled cctx, and whether
  the parent ctx was cancelled;
- each worker's program counter and range;
- how often each entry was delivered to `fn`.

Actions:
- `Prepare`/`PrepareFailed`: GetSTH and the clipping of EndIndex.
- `RunStart`: cctx is made, its cancel is stored in `f.cancel`, and the
  generator and the workers start.
- `GenLoop`: the loop condition, the `start == end` test and the batch
  computation.
- `UpdateSTH`: one GetSTH accepted by the retry condition. Also
  `UpdateSTHCancelled` and `QuickDeadline`.
- `SendRange`/`SendCancelled`: the two cases of the select.
- `FetchEntries`: a response of 1..len entries, `fn`, then `r.start += len`.
- `FetchCancelled`, `RangeDone`, `WorkerExit`, `RunReturns`.
- The environment steps: `Stop`, `Cancel`, and `Grow` (the log grows up to
  `MaxTree`). The caller may call `Stop` at any time after calling Run; it
  cancels cctx only when Run has reached `RunStart`, since before that
  `f.cancel` is NewFetcher's no-op.

`FetchRange` is the abstract specification of what Run promises its
callback:
- every fn call gets a run of consecutive entries below EndIndex that no
  earlier call got;
- EndIndex only grows;
- nothing is delivered after Run has returned.

`Fetcher` defines `Abs == INSTANCE FetchRange WITH` these mappings:
- `got <- delivered`;
- `limit <-` EndIndex once Prepare has fixed it;
- `done <-` Run has returned.

Its runs check `Abs!Spec` as the property `FetchesRange`. FetchRange's
`Extend` may happen after Run has returned. Run waits only for the workers,
and the genRanges goroutine may still be in updateSTH.

### Hammer
HammerCTLog runs on one goroutine:
- chooseOp takes an op from the nextOp queue, or else picks a biased random
  entrypoint. The pick may also make the op invalid (`HammerBias.Invalid`).
- retryOneOp runs performOp under `s.mu`, and retries until
  MaxRetryDuration when IgnoreErrors is set. It runs performInvalidOp once,
  and returns its errors at once.

The only parallelism is addMultiple, for add-chain and add-pre-chain:
- 1..MaxParallelChains goroutines;
- each runs getChain (or getPreChain) under `chainMu`, then AddChain (or
  AddPreChain), then `pending.tryAppendCert` under `pending.mu`.

So ops are atomic actions, and each adder goroutine takes three steps:
`GetChain(a)`/`GetPreChain(a)`, `AddChain(a)`/`AddPreChain(a)` and
`TryAppendCert(a)`.

State:
- `now` is a clock, with `Tick`.
- `sth` holds tree sizes, most recent first, or `NoSTH` for nil.
- `pending` is the non-nil prefix of `pendingCerts.certs`. The code keeps that
  array dense: it appends at the first nil and dropOldest shifts.
- `nextOp`, and per chain kind the first/last chain with its integration time.
- The loop's `count`, the op `ep`, whether it is `invalid`, and its `deadline`.
- The adders' program counters.
- History variables:
  - `alarms` holds the certificates that getProofByHash found missing.
  - `consistencyReqs` holds every consistency request sent.
  - `invertedReqs` holds every ParamsInverted request sent.

Each op of `performOp` is an action: `AddMultiple`, `GetSTH`,
`GetSTHConsistency`, `GetProofByHash`, `GetEntries`, `GetRoots` and
`GetEntryAndProof`. Each `*Invalid` function of `performInvalidOp` is one too:
- `AddChainInvalid` and `AddPreChainInvalid` cover the three chain
  corruptions.
- `GetSTHConsistencyInvalid` covers the inverted or out-of-range parameters.
- `GetProofByHashInvalid` and `GetEntriesInvalid`.
- `NoInvalidRequest` covers the entrypoints that have no invalid request.

`IsMirror` zeroes the add-chain and add-pre-chain biases, as
`newHammerState` does.

The log is the environment:
- It may answer any request with an error (`LogError`). The log returns at most
  `MaxLogErrors` errors per op. This stands in for MaxRetryDuration, which
  real time enforces.
- It stamps a new certificate's SCT with `now`. A duplicate gets the SCT time
  it had before, as a CTFE returns the existing leaf's SCT.
- It integrates accepted certificates (`Integrate`).
- `Tick` never passes a certificate's SCT time plus MMD while that certificate
  is unintegrated: the log keeps its MMD.
- It rejects every invalid request.

Proofs from such a log verify, so verification is not modelled.

### CTFEInstance
`SetUpInstance` and `setUpLogInfo` as a sequence of steps, `pc` naming the
next one; each step is one action, and every `return nil, err` is `Fail`,
which sets `err` and ends the call:
- `CheckConfig`: a log that is not a mirror needs RootsPemFile.
- `LoadRoot`: one RootsPemFile entry per step (the `for` loop); a file that
  cannot be read or parsed (not in `Readable`) ends the call.
- `NewSigner`: keys.NewSigner, skipped for a mirror; a private key that does
  not load (`SignerOf[k] = NoKey`) ends the call.
- `CheckPubKey`: the type switch: an ecdsa, ed25519 or rsa key must equal the
  signer's public key, any other type is an error.
- `BuildValidationOpts`: CertValidationOpts and `ParseOIDs` of
  RejectExtensions. `SplitOn` is strings.Split (the empty string is one empty
  piece), `Atoi` is strconv.Atoi (optional sign, at least one digit, range
  check on an `IntWidth`-bit int), and `ParseOIDs` returns at the first
  piece Atoi rejects, naming it, as Atoi's error does.
- `NewStorage`: the Trillian backend gives no storage and the direct service;
  the CTFE backend opens its database or fails.
- `NewCache`: the cache, then the indirect service.
- `GetPublicKey`: the signer's key of a returned Instance.

The configuration is the ValidatedLogConfig; which PEM files read, and which
key each private key loads to, are constants (`Readable`, `SignerOf`).
`MCCTFEInstance` holds the cases of instance_test.go (bundled into
`src/fixchain/logger.go`, lines 518-760) as tables and checks the model
answers them as the tests want.

## Runs

| Run | Checks | Shows |
|---|---|---|
| `logger_pass` (MCLogger.cfg) | TypeOK, WaitAccountsForEveryChain, QueueAndWaitReturn | Setting: two workers, three chains (two share a leaf, one extends another), and a log that may reject. Wait returns only when every queued chain is accounted for. QueueChain and Wait always return. |
| `logger_collide` (violation) | IsPostedMeansAccepted | Two leaves with equal leading bytes: IsPosted is true for a leaf the log never accepted. |
| `logger_race` (violation) | NoPostAfterAccept | A chain is posted for a leaf already accepted, through the window between postChain's check and AddChain. |
| `chainfix_pass` (MCChainfix.cfg) | TypeOK, NoSendOnClosedChannel, ErrorsStoredBeforeExit, FixedChainsOffered, Terminates | Setting: get-roots failures, fatal errors, fix errors, failed posts, and one leaf fixed twice. No goroutine sends on a closed channel, every error is stored and every fixed chain reaches Logger.QueueChain before main returns, and chainfix always ends. |
| `fetcher` (MCFetcher.cfg) | TypeOK, FetchesRange, RunReturnsAfterDrain, RunTerminates, KeepsUp, RunReturnsAfterStop | Setting: one-shot and continuous scans (`ContinuousOpts`), EndIndex beyond the tree (clipped), a tree growing from 4 to 6 entries, partial responses, Stop and cancellation at any point. Fetcher refines FetchRange; Run drains accepted ranges unless cancelled; a one-shot Run terminates; a continuous scan delivers every entry from StartIndex that appears, unless it is stopped; once Stop has cancelled cctx, Run returns. |
| `fetcher_start_beyond_tree` (violation) | FetchedWithinRange | With StartIndex beyond the tree in continuous mode, genRanges delivers entries before StartIndex. |
| `fetcher_stop_lost` (violation, MCFetcherStopLost.cfg) | StopEndsRun | In continuous mode, Stop called while Run is still in Prepare is lost, and Run never returns. |
| `hammer_pass` (MCHammer.cfg) | TypeOK, NoFalseInclusionAlarm, ConsistencyRequestsValid, NextOpBounded, InvertedConsistencyRejected | Setting: every entrypoint biased and possibly invalid, two parallel adders, duplicates, log errors and retries. A log that keeps its MMD is never reported missing a certificate, and every valid consistency request has 1 <= first <= second. nextOp stays within 2·(MaxLogErrors+1), and every inverted request has first > second. |
| `hammer_pending_order` (violation) | PendingOrdered | A duplicate of the first chain comes back with its original SCT time and is appended behind newer ones. |
| `ctfe_instance` (MCCTFEInstance.cfg) | TypeOK, SetUpInstanceContract, InstanceAgreesWithTests, ParseOIDsMatchesGrammar | Setting: the configurations of TestSetUpInstance and TestSetUpInstanceSetsValidationOpts, and 864 combinations of mirror, roots, keys, RejectExtensions and backend. Every Instance returned trusts its roots, has the signer the configured public key names (none for a mirror) and the storage its backend names; every test case gets the error or the options its test wants; parseOIDs accepts exactly the spellings of int lists. |
| `hammer_invalid_no_retry` (violation) | FailsOnlyAfterRetryDuration | With IgnoreErrors set, one GetSTH failure inside an invalid consistency op ends the run at once. |

Every property of a passing run has a mutant in `PROJECT.json`: a variant of
one mapped definition, written as a plausible bug, which TLC shows violates the
property. Examples:
- a dropped mark or a dropped counter;
- caching on failure;
- overlapping ranges, or `<=` for `<` in a loop;
- no fallback after the quick deadline;
- closing the chains channel before the Fixer is done;
- waiting on the Logger before the relay is done;
- returning before the errors are stored;
- a drainer that stops after its first error;
- a RootCerts loop of eleven tries.

## Bounds

- Logger:
  - Two workers and three chains over four certificates is the smallest
    setting where two chains share a leaf, a chain repeats a prefix and two
    workers post concurrently.
  - `MaxQueue` bounds QueueChain calls to 4, so a chain is queued again after
    it was posted.
  - `HashSize` 2 with 3-byte DER keeps the truncation visible: in the collide
    run, the leaves differ only after byte 2.
- Chainfix:
  - Two records, [L1, I, R] and [L1, I], give four fix tasks: two for L1 and
    two for I.
  - The Fixer can verify [L1, I] and its super-chain [L1, I, R]. So the two
    L1 tasks may emit the same chain (dropped by hashChain) or different
    ones, and the Logger sees one leaf twice. The I tasks end in one or two
    FixErrors.
  - One fix worker and two postServers. One worker is enough for the Fixer
    to wait on: the race is between the relay and the Logger.
  - RootCerts keeps the code's ten tries.
- Fetcher: two workers, batch size 2 and trees of at most 5-6 entries give
  ranges shorter than a batch, partial responses, two ranges in flight and
  tree growth during a scan.
- CTFEInstance: one roots file that reads and one that does not, a key that
  loads and one that does not, a public key per outcome of the type switch,
  and RejectExtensions empty, valid and invalid give every error path and
  both services. Go's int is 5 bits wide, so "19" overflows while the tests'
  arcs (up to 8) fit; parseOIDs is compared with its reference on every
  string of up to four characters over {0, 1, 9, +, -, ., x}.
- Hammer:
  - MMD 2 with two pending slots gives an append spacing of MMD/sctCount = 1 tick.
  - With two STH slots, both a nil and a real earlier STH can be chosen.
  - Two adders, two certificates and 4-6 operations over 3-6 ticks are enough
    for a certificate to become due, be checked and be dropped.
  - One log error per op is enough for a retry, which queues prerequisites
    again.

## Fairness

Weak fairness is assumed for:
- every goroutine step: the Go scheduler runs a runnable goroutine;
- the log eventually answering a GetSTH or GetRawEntries: the retry loops
  keep asking;
- the quick deadline passing: it is a timer.

In Chainfix, every step moves a goroutine forward or grows a counter, so no
behaviour loops, and weak fairness of the whole step relation is what the
scheduler gives. This assumes the log and the file system answer every call:
chainfix's `http.Client{}` has no timeout.

In the Logger, weak fairness is assumed for the caller's QueueChain and
Wait and for every postServer step: each is a goroutine the scheduler runs,
and the log answers every AddChain. QueueAndWaitReturn needs exactly this:
postToLog blocks until a postServer takes the chain, and Wait until every
postServer has called wg.Done.

No fairness is assumed for Stop, ctx cancellation or tree growth: these are
the environment's choice. The Hammer runs check only safety. The
hammer's op choice is random (rand.Intn), which justifies no fairness.

## Findings

- `hash()` truncates the DER, not a digest (code bug, `logger_collide`).
- postChain's check-then-post is not atomic (divergence from the spec's
  "never post for a posted certificate", `logger_race`).
- genRanges goes backwards when StartIndex exceeds the tree size in
  continuous mode (code bug, `fetcher_start_beyond_tree`).
- Run stores cctx's cancel in `f.cancel` only after Prepare's GetSTH. A Stop
  called in that window runs NewFetcher's no-op cancel, and a continuous
  Run then never returns. Stop's comment says that after the call, Run
  finishes the started fetches and returns (code bug, `fetcher_stop_lost`).
- spec.md 4.4 says a zero-length GetRawEntries response counts as a failed
  attempt. runWorker instead calls fn with an empty batch and asks again at
  once, without backoff. The model has no request rate, so this is listed
  as a hazard and not checked.
- The hammer's pending certificates are not ordered oldest first, as their
  comment says. Two causes put an older SCT behind a newer one:
  - a duplicate add-chain returns the original SCT;
  - a slow parallel adder appends late.

  oldestIfMMDPassed then leaves a due certificate unchecked
  (`hammer_pending_order`).
- retryOneOp returns an invalid op's non-skip errors at once, whatever
  IgnoreErrors says. A transient GetSTH failure during an inverted-consistency
  request ends the run (divergence from HammerConfig's documentation,
  `hammer_invalid_no_retry`).
- The spec's shutdown order for FixAndLog (4.7) does not wait for the relay
  goroutine between closing the chains channel and waiting on the Logger. The
  relay may hold the last fixed chain while the Logger's wait group is zero.
  If Logger.Wait then returns and main closes errors, one of two things
  happens:
  - a failed post of that chain panics on the closed channel;
  - main returns without the chain ever being posted.

  The pass run models FixAndLog.Wait with the relay wait. The mutant
  `LoggerWaitNoRelay`, the spec's literal order, shows the failure.
- Reading the code, HammerCTLog's loop `for count := 1; count <
  cfg.Operations` performs Operations-1 operations. This is listed as a
  hazard; the model keeps the loop as written.

## Not modelled

- logStats: a logging ticker.
- The limiter: a no-op in the model. postServer waits on it with
  `context.Background()` and a burst of 1, so Wait only delays and never fails.
- Logger ctx cancellation: chainfix uses `context.Background()`.
- The Fixer's X.509 path building, AIA fetches and the URL cache: a
  nondeterministic outcome per fix task.
- Zero-length GetRawEntries responses: a stuttering step for the model.
- The matchers, policy, curves, certcheck and the test environment:
  stateless, or I/O.
- In instance.go: RunUpdateSTH (a periodic getSTH whose error is only
  logged), DefaultRequestLog (every method only logs) and the log-leaf
  builders (TLS serialisation and hashing of entries).
- The hammer's stats printer, rate limiter, request deadlines and the content
  of proofs and entries.
