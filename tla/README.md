# CryptNA-Lab: TLA+ verification project

CryptNA-Lab is a zero-trust access laboratory. A client sends a single-packet
authorisation (SPA) to the PDP; the PDP looks the client up in the PIP and asks
a PEP to open an IPsec (XFRM) tunnel; the PEP may only do so with a *capacity
token* that the Verifier signs after appraising the PEP's *enforcement history*,
a hash-chained log of every XFRM change. The client checks the tunnel it is
offered against the token and installs its own side of it.

## Inventory

| Component | State | Operations | Hard behaviour | What makes it correct |
|---|---|---|---|---|
| Verifier (`verifier/main.go`) | per PEP: accepted checkpoint, tracked sessions, last token; the state file | `capacityHandler`, `loadVerifierState` | concurrent requests, read-unlock-appraise-relock, failed writes, restarts, replayed answers | one durable chain per PEP, answers only from it |
| Appraisal (`verifyEnforcementPolicy`, `VerifyHistoryEvidence`) | none (pure) | one pass over the submitted events | long sequences across submissions, time boundaries | accepts exactly the acceptable logs |
| PEP activation (`pep/main.go`, `pep/xfrm.go`) | session table, allocators, kernel XFRM objects, health flag | `activateHandler`, `sessionReaper`, clean-up | multi-step transactions, partial failure, crashes | the kernel is accounted for, no tunnel is hidden |
| PEP history (`pep/history.go`) | events, last accepted checkpoint | `AppendEvent`, `BuildEvidence`, `MarkCheckpointAccepted`, `Restore` | agreement with the Verifier after any crash | the chain can always be continued |
| PEP durable state (`pep/state.go`) | snapshot file: sessions, marker, pending evidence, history | `persistPEPState`, `loadPEPState`, `validateRestoredSessions` | crash between kernel and file | append-only history, restored table equals kernel |
| PEP tokens (`pep/attestation.go`) | cached token, two mutexes | `ensureCapacityToken`, `refreshLoop`, `startAttestation` | lock order, lost and late answers, expiry | acceptable submissions, start-up succeeds |
| XFRM observer (`pep/xfrm_observer.go`) | monitor process, event buffer, marks | `start`, `readEvents`, `annotate`, the wait loop | lines late, lost, foreign; buffer cut under a mark; monitor dies | a window starts at its mark; waits end |
| PDP (`pdp/main.go`, `pdp/metrics.go`) | replay cache, metrics buffer | `handleUDPPacket`, metric handlers | copies of a packet in concurrent goroutines, slow or lost calls, restart | copies dropped, tunnels granted, attempts end |
| PIP (`pip/main.go`) | client table, outliving the process | `seedClients`, `getClient` | start cut short between rows, changed seed files | the seed file takes effect |
| SPA handshake (`common/noiseutil`) | symmetric state on both sides | build, open header, complete, answer | opening in two stages around a look-up; damaged and mixed parts | exactly the genuine packets open, both sides agree on the key |
| Client (`client/`) | policies, states, address and route in the kernel, a detached clean-up | exchange with the PDP, verification, installation, clean-up | rounding of times, parameters changed on their way, clean-up after the process has ended | what is installed is what the PEP gave, and it lasts as long as the session |
| Open-loop benchmark (`client/bench_rate.go`) | semaphore, wait group, results | launch, attempt, report | deferred releases, metrics recorded after the answer | the report is whole, the run ends |
| Firewall, sequential benchmark, scripts, key generation | none, or one pass | | | not modelled |

The client talks to the PDP in one datagram each way; the PDP calls the PIP and
the PEP over HTTP without a timeout; the PEP calls the Verifier over HTTP
(`POST /capacity`, five-second timeout). The goroutines of the PEP share
`historyTransactionMu` (one transaction or checkpoint at a time) and
`pepAttestationState.mu` (one token request at a time); PEP and Verifier each
keep one file that is replaced by a rename.

## Modules

| Module | Contents |
|---|---|
| `Appraisal` | `verifyEnforcementPolicy` and its helpers, `VerifyHistoryEvidence`, as operators |
| `AppraisalHistory` | all histories a PEP key can sign, appraised submission by submission, and the reference definition of an acceptable log |
| `Verifier` | the goroutines of `capacityHandler`, memory, state file, restarts |
| `CapacityService` | what the Verifier promises: one growing chain per PEP and answers taken from it |
| `VerifierProofs` | theorems about `Verifier` |
| `AppraisalHistoryProofs` | theorems about `AppraisalHistory`, and what runs of the loop do to the tracked sessions, used by `VerifierProofs` and `PEPProofs` |
| `PEP` | activations, reaper, refresher, start-up, kernel, state file, and the Verifier as one atomic step |
| `Observer` | the monitor, the reading goroutine, the event buffer and the transactions that count its lines |
| `PIP` | seeding row by row into a table that survives, and the look-up by path |
| `PDP` | `handleUDPPacket` step by step in any number of goroutines, composed with `PIP`, the client's exchange, and the PEP as an external service |
| `PDPProofs` | theorems about `PDP` and `PIP` |
| `Noise` | the SPA handshake over symbolic cryptography |
| `Tunnel` | a tunnel from the PEP's token and clock to the client's kernel and its clean-up |
| `RateBench` | the open-loop benchmark and the PDP's metrics buffer |
| `PEPProofs` | theorems about `PEP`: types and locks, the chain shared with the Verifier, the state file; kernel, session table and addresses; what the history says of the kernel and what the Verifier makes of it |
| `ObserverProofs`, `NoiseProofs`, `TunnelProofs`, `RateBenchProofs` | theorems about the module each is named after |
| `MC...` | instances for TLC |

How they compose. `PEP` uses the operators of `Appraisal` for the Verifier's
decision. That the Verifier may be one atomic step there is what
`ImplementsService` shows of `Verifier`. `PDP` extends `PIP`; that a packet in it
is a record of its fields which opens or not is what `OpensExactlyGenuine` shows
of `Noise`. `Observations` in `PEP` are the outcomes of `Observer`. `Tunnel`
takes token and session of the PEP as the code computes them, at a finer clock.

### Abstractions

* Hashes are injective: the hash of an event is the log up to it, the hash of a
  checkpoint or packet is the thing itself. A signature is the name of its key.
  In `Noise` every key, hash and ciphertext is the term that computes it.
* Times are whole seconds (RFC 3339 without fractions), except in `Tunnel`,
  whose clock has ticks of a half second so that rounding shows. Unparsable time
  strings are left out. The PDP's clock does not go back; the clients' clocks
  differ from it by an offset.
* An XFRM plan is `NCommands` kernel objects, each installed by one command. In
  `Tunnel` the client's installation and its clean-up are one step each; the
  inner address on `lo` comes and goes with the two policies and is not a
  variable of its own. A failing command is in `PEP` (`ApplyCommand`) and in
  `Tunnel` (`InstallFails`); in `Observer` commands succeed, since after one that
  fails the PEP is unhealthy and observes nothing more.
* The length limits of an SPA packet (`noiseutil.go`, line 192) are left out:
  `OpensExactlyGenuine` is about payloads that fit.
* The scope of a PEP is a setting, `Scope`; a token has the scope its PEP was
  configured with. Service names are model strings, and `NoService` is the empty
  one, which the Verifier takes for an incomplete event.
* SPIs are fresh. `ReqID` and inner address come from two counters that are used
  alike; one is modelled.
* The state files are replaced atomically (`os.Rename`); a write may fail.
* Both services run with a state path, as in `docker-compose.yml`, and the PEP of
  module `PEP` with attestation enabled. Configuration does not change between
  restarts. The PEP's and the client's attestation settings agree.
* Service names hold no comma. Of a key's base64 text only slashes matter.
* The client's configured PEP address and port are not part of the SA binding
  and are left out of `Tunnel`. Without attestation the client has nothing to
  compare and the PDP's answer is taken to be right.
* The benchmark's pace is left out: a launch may happen at any time.
* `PolicyStep` binds its argument with a `CHOOSE` over a one-element set: it says
  the same as the conditional alone, and lets TLC evaluate the argument once.

### Correspondence with the code

*Verifier.* `mem` is `verifierState`, `disk` the state file, `lock` is
`state.mu`, `h[i]` a goroutine. `Lookup` is the first critical section,
`Appraise` the part without the lock, `Recheck`, `Save` or `SaveFails` and
`Publish` the second one, `Reply` is `writeJSON`, `Restart` a crash followed by
`loadVerifierState`. `accepted` and `sent` are history variables.

*PEP.* `mem` and `disk` are what `persistPEPState` snapshots and the file:
sessions, transaction marker, pending evidence, log, last accepted checkpoint.
`kern` is the kernel. Each thread is a record in `th`; the activation handler
goes through `Activate`, `CheckHealth`, `TakeTokenLock` (and, without a usable
token, the steps of the refresh), `Bind`, `BeginApply`, `ApplyCommand`,
`FinishApply`; clean-up, shared by reaper, refresh and start-up, is
`TakeHistoryLock`, `BeginDelete`, `DeleteCommand`, `FinishDelete`, `Drained`;
the refresh goes on with `PrepareEvidence`, `Post`, `AcceptToken` or `Timeout`.
`Serve` and `ServeLate` are the Verifier, `Boot` and `validateRestoredSessions`
the start-up. A failure of kind `persist`, `command`, `observe` or `network` is
an alternative of the step it may happen in and is kept in `faults`, so that a
property can say which failures it holds under.

*Observer.* `pipe` holds lines the monitor has printed and `readEvents` has not
read, `events` is the buffer, `cut` how many lines were trimmed. `Launch`,
`Loaded`, `MonitorExits`, `WaitReady` and `Start` are the start-up race;
`Begin`, `Command`, `Deadline`, `Observe` and `Undone` a transaction: mark,
commands, the 500 ms of the wait, `annotate` and its consequence. `conf` is the
deployment, chosen at the start.

*PIP and PDP.* `db` is the SQLite table, `pos` the next row of the seed file:
`StartPIP`, `SeedRow`, `StopPIP`. A goroutine of `handleUDPPacket` goes through
`Arrive` (with its only clock reading), `Seen`, `Fetch` or `FetchFails`,
`Complete` (which adds to the cache and calls the PEP) or `CompleteFails`, the
PEP's `PEPActivates` or `PEPRefuses`, `CallLost`, and `Respond`. The client is
`Send`, `Receive`, `GiveUp`. `Restart` empties the cache.

*Noise.* `BuildIKpsk1SPA` is the client, `OpenIKpsk1SPAHeader` and
`CompleteIKpsk1SPA` the PDP; `Arrive` delivers a packet built before, a damaged
one, or one with the parts of two.

*Tunnel.* `Ask`, `Bound`, `Stamp` are the PEP's allocation, its first clock
reading (`boundLifetime`) and its second one (expiry and binding); `Relay` is
the PDP, which may pass on another inner address (`via`) than the PEP gave;
`Install`, `InstallFails`, `Reject` and `Cleanup` are the client and its
detached shell. Policies are kept by inner address (`pol`), states by activation
(`states`); `route` is the source address of the one route to the PEP's
`SERVICE_IP`. `ip route replace` takes it over from any address, `ip route
delete` finds it only with its own source (`RouteAfterDelete`). `prior`
and `waiting` are history fields: who had reached the kernel before, and whose
clean-up was still to come.

*RateBench.* `Launch`, the steps of `Attempt` with the deferred `Release` and
`Done`, and `Report` are `benchHandshakeRate`; `Reset`, `Raw` and
`recordSPAMetric` the PDP's metrics.

## Runs

| Run | Shows | Bounds |
|---|---|---|
| `appraisal` | the one-pass loop accepts exactly the acceptable logs; carried sessions are the history's; deletions follow expiry | one session key, 38 candidate events with right and wrong plans, stamps, observations and services, one of them with the session's key but outside its life cycle; 7 events per submission (a whole life cycle and one more), 8 in all |
| `verifier` | one durable unforked chain per PEP, answers only from it, sessions stored with their checkpoint, refinement of `CapacityService`, every request ends | two goroutines, two PEPs, six requests (rival first checkpoints, a successor, a clamped one, one with another measurement), one clock tick |
| `pep` | continuity of PEP and Verifier, no tunnel hidden from the Verifier, kernel objects known to the file, table equals kernel, acceptable submissions, append-only durable history | apply mode, hybrid observer, two sessions, each for a service of the scope or for none at all, one failure of any kind, one crash, one expiry |
| `pep_live` | allocators at the limit of the pool and across restarts, expired sessions go, start-up succeeds unless the pending submission is hopeless | dry-run mode (where sessions survive a restart), two sessions, each for a service in or outside the scope, one address, one crash, one tick of the clock, after which sessions and tokens (lifetime 1, no margin) have expired |
| `pdp` | which copies pass the replay cache, tunnels go back to a grant, the seed file takes effect, accepted tunnels are alive, attempts end | one packet, with the right or an old PSK, from a clock ahead; two goroutines; two seed files (the second revokes) and two starts of the PIP, one restart of the PDP; time up to 3 with skew and TTL of 1. That files have one entry is made up for by `SeedTakesEffect` |
| `observer` | windows start at their mark, the table follows the kernel, no work without probes, transactions end | three deployments, plans of three commands, buffer of 6 cut to 3, three transactions (so that it is cut under a mark), one foreign line, one failure |
| `noise` | exactly genuine packets open; both sides have the same response key | two packets, four identities (one with an old PSK, one with a foreign key, one unknown), two PDPs, times inside and outside the skew |
| `tunnel` | an honest answer is not refused, the client's side outlives the PEP's, the route stays with the tunnel installed last | two activations, each for a service in or outside the scope, half-second ticks, seven ticks (more than a token and enough for a second tunnel after the first), a clock behind, a changed inner address, one restart of the PEP, with and without attestation |
| `rate_bench` | the report is whole, the metrics are the newest, the benchmark ends | three attempts, two slots, buffer of three, two late records of earlier packets, answered and dropped packets |
| `pep_expired_replay`, `pep_interrupted`, `pdp_concurrent` | disagreements, see below | the smallest instance that shows each |

The counters named `Max...` are bounds of the instances, not of the code, except
`MaxSALifetime`, `MaxHost` and `MaxInflight`, which are settings. They are large
enough for each hazard to occur: every action fires, and each property has a
small change of the code that breaks it under the same bounds. Sessions,
handlers and activations are symmetric where no liveness is checked: nothing
orders them. Deadlock is checked for `verifier`; elsewhere the system may really
stop (bounded time and attempts run out, a state file with a marker is refused
until somebody looks at it, a refused log ends).

### Fairness

*Verifier and PEP.* Goroutines that can run do, and `sync.Mutex` hands the lock
to a starving waiter, so a step that is enabled again and again is taken: strong
fairness per goroutine or thread. The reaper's ticker fires, the Verifier
answers what reached it, time passes and a PEP that exited is started again (a
restart policy is assumed): weak fairness. *PDP.* Goroutines run, PIP and PEP
answer what they are asked, the client's deadline and the reaper fire: weak
fairness; nothing makes a datagram arrive or a connection last. *Observer.* The
transaction's goroutine runs and its deadline passes; the monitor owes nothing.
*RateBench.* Client and script run; nothing is asked of PDP or network. Crashes,
failures and incoming requests never have fairness.

## Disagreements between code and documentation

1. *An expired answer is replayed for ever* (`pep_expired_replay`). The Verifier
   replays the token stored for the last accepted checkpoint whatever its age;
   the PEP refuses an expired token and keeps the same submission pending.
   After an outage longer than the token's lifetime at the wrong moment neither
   side moves again, although `README.md` line 70 speaks of an idempotent replay.
2. *An interrupted transaction goes unnoticed* (`pep_interrupted`). The health
   flag is read once at the start of `activateHandler`. A handler already past
   it overwrites the marker of a failed apply and then clears it.
3. *Concurrent copies make two tunnels* (`pdp_concurrent`). `Seen` and `Add` are
   two critical sections with the look-up at the PIP between them; the test of
   `scripts/test_replay_no_extra_xfrm.sh` sends the copy after the answer.

Two more have no run of their own; a property's exception states each exactly.

* *A repeated activation is undone by the first one.* The comment at
  `client/xfrm.go` line 58 wants repeated activations for one inner address to be
  idempotent, and the delete commands that run before the new ones see to that.
  But the detached shell of the first activation still waits. It counts from the
  client's installation, so it may wake after the session has expired at the PEP;
  a PEP that restarts in between gives the address again, and the shell then
  deletes policies, route and address of the second tunnel: the second case of
  `Displaced`, the exception of `ClientOutlivesPEP` and `RouteToLatest`.
* *The metrics may lack rows.* `handleUDPPacket` answers first and records the
  metric then. Experiment 04 (line 119 of
  `experiments/04_pdp_internal_processing_rates.sh`) fails unless there are
  exactly as many rows as attempts; a benchmark whose attempts were all answered
  may end before the last rows are there, the exception of `MetricsAreNewest`.

Some properties state an exception, because the code has it:

* A copy handled after another was added passes the cache when the packet's time
  stamp is ahead, or its goroutine slow, by more than the entry outlives the
  skew (`SerialReplayDropped`): TTL and skew are equal, their origins are not.
* A session that expires between the clean-up and the checkpoint's time stamp,
  two readings of the clock, makes the submission unacceptable, now and on every
  repetition (`SoundSubmissions`, `StartupSucceeds`).
* The PEP makes a tunnel for whatever service it is asked for. A tunnel for a
  service outside its scope, or for the empty name (which the PIP may grant, see
  below), puts an event into the history that the Verifier refuses, and with it
  this and every later submission (`SoundSubmissions`, `StartupSucceeds`). The
  client, too, refuses such a tunnel, as the token's scope does not have the
  service (`HonestAnswerAccepted`); the PEP's side of it stays until it expires.
* A PEP whose pending submission was accepted with a token that has expired
  since never gets up (disagreement 1): the third case, beside the two above, in
  which `StartupSucceeds` promises nothing (`Hopeless`).
* A PEP that dies inside a transaction keeps its sessions, as its state file is
  refused (`ExpiredSessionsGo`).
* After a crash the table need not equal the kernel if a command or an
  observation failed before it: the marker of the failed transaction may have
  been overwritten (disagreement 2), and the restart then takes the leftover
  objects for nobody's. Nor need it with an `ebpf` observer, which looks no
  object up (`TableIsKernel`; an earlier form without the first exception
  failed in the proof and then, with two failures, in TLC).
* With an `ebpf` observer, which counts deletions and looks no object up, a
  delete command that fails may go unnoticed: the session is recorded as deleted,
  and the Verifier stops tracking it, while objects are left (`NoHiddenTunnel`,
  whose second part then asks that no command failed; an earlier form without
  this exception failed in the proof).
* A window of the observer is complete only if the buffer was not cut under its
  mark (`WindowAfterMark`). The wait ends with the first line although more are
  required, and lines of an earlier transaction that are read late are counted;
  in `ebpf` mode an applied plan can so be reported as failed, which is why
  `TableFollowsKernel` is about the two other modes.
* Clean-up on the client goes by the inner address: a later activation with the
  same address, which a restarted PEP may give again, or the clean-up that an
  earlier one left behind takes a tunnel's policies and route away (`Displaced`
  in `ClientOutlivesPEP` and `RouteToLatest`).
* There is one route to the service. An activation with another address takes it
  over from the tunnels before it, and its clean-up deletes it: an earlier tunnel
  that still lives has policies and states but no route any more. So
  `RouteToLatest` is about the tunnel installed last, `ClientOutlivesPEP` about
  policies and states only.
* A metric is recorded after the answer was written (`MetricsAreNewest`).
* `validateRestoredSessions` compares an observation without the source that
  `observationMeetsLocalProfile` asks for: in apply mode every restart with an
  unexpired session is refused, also when the kernel matches.

Two more limit what `TunnelsGranted` can say: an empty list of services comes
back from the PIP's table as a list of the empty name, and a key whose text
starts with a slash or has two adjacent ones is not found by its path.

## Proofs

`VerifierProofs` proves, for any sets of PEPs, requests and goroutines and any
appraisal parameters, `TypeOK`, `AcceptedIsOneChain`, `SentIsDurable`,
`MemoryFollowsChain`, `ImplementsService` and `ActiveIsLog`. The assumptions are
`RequestAssumption` (requests have their fields, logs are sequences, epochs
natural numbers, events of a session's life cycle have a session key and events
have numbers as times, the absent checkpoint is not a checkpoint) and
`ProfileAssumption`; TLC evaluates both.

The chain property is not inductive by itself: a commit is right because of
what the goroutine learnt earlier. The invariant `IInv` adds, per control
point, that a signed token is the next link after the checkpoint copied in the
first critical section (`Follows`); that a goroutine in the second critical
section holds the lock, follows the checkpoint in memory *now*, and will write
exactly the current maps with its PEP's entries replaced; that memory and file
agree whenever the lock is free; and that a goroutine about to answer holds a
certified token. `ChainGrows` is the step in which the file is renamed;
`CertifiedStable` says that this takes no token away; `RetryCertified` that the
stored answer is the newest link. The refinement maps `accepted` to the
service's chain: `Save` is `Certify`, `Reply` is `Answer`, all else stutters.

`ActiveReflectsLog` (`ActiveIsLog`) is about data as well as control: sessions and
checkpoint travel together through appraisal, commit, file and restart
(`ActiveInv`), and the loop that computes the sessions must do to them what the
submitted events say (`ReflectsAppraised`). The latter is the lemma `LoopTurns` of
`AppraisalHistoryProofs`, taken over by `INSTANCE`: after an accepted submission
the last activation or observed deletion of a key decides, and without one what
was tracked before.

`AppraisalHistoryProofs` proves, for any events, keys, profile, scope and lifetime
and for submissions of any length and number, from `CandidateAssumption` and
`ProfileAssumption`: `LoopIsReference` (`AppraisalIsReference`), `CarriedIsHistory`
(`TrackedIsHistory`) and `DeletionsAreDue` (`DeletionsFollowExpiry`).

* The loop is a fold, so the first lemmas unfold it: the fold of a log with one
  more event is the step of that event from the fold of the log (`LoopAppend`).
  Induction is stated for a set of numbers and proved by its least missing one
  (`Induction`), which needs no operator as a parameter.
* The reference looks a log up at any position, so the next ones say that one
  more event changes nothing that was said of earlier positions (`EventsGrow`,
  `TrackedGrows`, `GroundedGrows`).
* `HistoryInv` relates the two. Once for the submission and once for the whole
  history, it says that the loop's session and plan of a key are those of the log
  (`Agrees`), that its stage is the last session event of the submission
  (`Staged`), that a session being deleted has expired (`Overdue`) and that the
  log satisfies the reference so far. `Decides` is the heart: in such a state the
  loop admits an event exactly where the reference places it.
* What the proofs about the PEP need of the loop is stated for any log, by
  induction over its events (`LogInduction`). A session that was tracked or
  intended is tracked at the end, still open, or observed to be gone
  (`LoopAccounts`); keys without events stay as they are (`LoopIgnores`); expiries
  are numbers (`LoopExpiries`); and a log cut where no transaction is open may be
  appraised in two pieces, the second one from the sessions of the first, with the
  same verdict and the same sessions (`LoopResumes`).

The proof did not go through at first, for a good reason: the reference let an
event outside the life cycle that carries a session's key (a `capacity_requested`,
say) count as the end of an open transaction; the code does not. The reference
now asks for the events of the life cycle, and the run has such an event.

`PDPProofs` proves, for any packets, copies, goroutines, clock offsets, seed
files and restarts, from `PDPAssumption` and `PIPAssumption`:

* `TypeCorrect` and `ReplaysDropped` (`SerialReplayDropped`). The cache is pruned
  by whoever calls `Seen`, with a clock reading that may be old, so the entry of
  a packet says little. `CacheInv` names one goroutine per added packet that
  *accounts* for the state of the cache: either its entry is there with an expiry
  at least its own clock reading plus the TTL, or that time has passed. `IInv`
  joins this with the types, the shape of records, what a packet keeps
  (`PacketInv`) and what a goroutine knows at each control point (`HandlerInv`).
* `AnswersLive` (`AcceptedTunnelLives`), when `ClientWait < Lifetime`: `LiveInv`
  says that a tunnel is made after its packet was sent and removed only after
  its whole life, so what arrives before the deadline is alive.
* `TunnelsGranted` (`TunnelsAreGranted`), when every client of every seed file
  has a service and keys stay apart in paths (`SomeService`, `KeysApart`):
  `GrantInv` carries the seed entry from the table (`TableInv`) through the
  look-up to the call.
* `SeedTakesEffect` (`ServesSeed`): `SeedInv` says the rows inserted so far are
  those of the last entries among the file's first ones.

`PEPProofs` proves, for any sessions, activations, plans, lifetimes, numbers of
crashes and kinds of failure, from `ConfigAssumption`:

* `ChainContinuous` (`Continuity`) and `HistoryGrows` (`DurableHistoryGrows`).
  Three copies of the chain drift apart: memory, state file and Verifier.
  `Links` says that the Verifier's checkpoint is, for memory and for the file
  alike, the last accepted one or the one of the pending submission, and that
  this submission continues the last accepted checkpoint. It survives a crash at
  any point because it holds of the file too. `Traffic` says that a request on
  its way, or one that arrives after its time-out, is the pending submission or
  too old to be taken. `Base` has the shape of the records, who holds which lock
  at which control point, and which threads exist in which phase.
* `TypeCorrect` (`TypeOK`).

`ConfigAssumption` is the configuration that the PEP's own validation lets
through, positive settings, and that the absent key and the absent plan hash are
no session's. The theorems that speak of the chain have the hypothesis
`Sentinels`: `NoCp` and `NoEvidence`, which stand for `nil`, are not records with
the fields of a checkpoint or a submission. It is not an assumption of `PEP`
because TLC gives them model values, whose `DOMAIN` it does not evaluate.

About the transactions, without `Sentinels`:

* `KernelIsAccounted` (`KernelAccounted`). Every step is *calm* (it leaves
  kernel, table and marker as they are, and may save them) or one of the few
  that transact (`Transacts`). `Marked` says that a transaction runs under its
  own marker, `Accounted` that in the runs the property is about the marker is
  in the file before the first command.
* `TableMatchesKernel` (`TableIsKernel`). `Fresh` adds that nothing exists
  before the PEP first serves and that no session in apply mode survives
  `validateRestoredSessions` (`Vetted` marks the part of start-up after it).
* `AddressesDistinct` (`DistinctAddresses`): the addresses of the table and of
  the activations under way (`Holders`) are at most the last one given out, which
  a restart sets to the highest of the restored sessions.

About the history, with `Sentinels`, for a log of any length and any number of
submissions:

* `TunnelsAreKnown` (`NoHiddenTunnel`). `Story` follows the log whatever fails: no
  session is mentioned before its transaction, those of the table are recorded as
  activated, one for each key, a session in its apply transaction has its intent
  and nothing more, and what a clean-up is to delete is in the table and has
  expired. `Traced` relates the log to the kernel: an object was intended, and the
  file says so or has a marker, so that a restart cannot lose it; what the log says
  was observed to be gone is gone; a deletion has removed the objects before its
  next command. `Submitted` and `Followed` carry this to the Verifier through
  `LoopAccounts`: it tracks what the accepted part of the log intends unless that
  part says it is gone.
* `SubmissionsAreSound` (`SoundSubmissions`). `Whole` is the loop run over the
  whole log of the PEP at once. `Ordered` says that, as long as nothing but the
  network fails, it admits every event, has nothing open and tracks exactly the
  sessions of the table, in the state file always and in memory between
  transactions, while during one it is open at that session alone. Each step that
  appends shows the loop admits what it appends (`IntentOpens`,
  `ObservationOpens`, `ActivationSettles`, `ExpiryOpens`, `DeleteIntentOpens`,
  `DeletionSettles`): the lifetime from `boundLifetime`, the plan from the stage,
  the observation from the kernel, where the commands of the transaction have left
  exactly the plan or none of it. A checkpoint is cut under
  `historyTransactionMu`, hence where nothing is open; `Agreed` says that the
  Verifier's sessions are those of `Whole` at the last accepted one, and
  `LoopResumes` that the appraisal of the events since then comes to the same as
  that of the whole log. All this is about histories whose services are in the
  scope (`InService`): one event outside it and the loop admits nothing more,
  which is an exception of the property; once a submission was accepted, what it
  holds is in the scope (`LoopServes`), so that the exception is about what is
  new. What is left is the scan of expiries, the other exception.

`ObserverProofs` proves, for any plan, any buffer and any size it is cut to, from
`ObserverAssumption`: `WindowIsAfterMark` (`WindowAfterMark`), `TableFollows`
(`TableFollowsKernel`), `ProbesLoaded` (`NeverWithoutProbes`) and `ObserverTypes`
(`TypeOK`). `Numbered` says that the k-th line of the buffer is line `cut + k` of
the monitor, however often it was cut; `MarkInv` bounds the line at which a
transaction began by the mark it remembers; `StartInv` follows the start-up.

`NoiseProofs` proves `ExactlyGenuine` (`OpensExactlyGenuine`) and `BothSidesAgree`
(`SidesAgree`) for any identities, PDPs, payloads and times, from
`NoiseAssumption` and the hypothesis `Sentinel` (as above: `Nothing` is not a
record). The argument reads the keys from the outside in: each term is injective,
so a key that opens the payload names the ephemeral, the static keys and the PSK
that made it (`PayloadKeyNames`); hence what opens was built by one client for
this PDP (`OpenedIsGenuine`), and what was so built opens (`GenuineOpens`).
`NoiseInv` says what a client builds, what may be on the wire and what each stage
of the PDP holds.

`TunnelProofs` proves, for any length of the second in ticks, lifetimes, clock
offset, services and scope and any finite set of activations, from
`TunnelAssumption`: `HonestAnswers` (`HonestAnswerAccepted`), `ClientOutlives`
(`ClientOutlivesPEP`), `RouteStays` (`RouteToLatest`) and `PoolSuffices`
(`TypeOK`). The first two rest on rounding: a lifetime bounded by what is left of
the token at one reading of the clock still ends within the token when it is
stamped at a second reading less than a second later (`BoundedByToken`,
`ExpiryWithinToken`), and the client's timer, which starts later, is due no
earlier than the PEP's expiry (`DueAfterExpiry`). `AnswerInv` carries this from
the PEP through the PDP to the client, and with it that an address which arrived
other than it was given counts as a change, so that what passes the client's
checks has the PEP's address (`AddressAsGiven`). `HeldInv` says which installed
tunnels are still there and which of them has the route (`Whole`), and that a
clean-up still to come was waiting when a tunnel was installed or is that of a
later one. So a step on behalf of one activation touches another only if they
have the same address, or takes the route from it and comes after it
(`HeldKept`). `AddressInv` counts: no more addresses were given than activations
have asked.

`RateBenchProofs` proves, for any number of attempts and slots and any size of the
buffer, from `BenchAssumption`: `WholeReports` (`ReportIsWhole`), because `wg` is
the number of goroutines that have not ended (`BenchInv`), so that after the wait
each result is stored; and `NewestMetrics` (`MetricsAreNewest`), from the numbers
in the buffer (`MetricsInv`) and the count of recorded attempts (`Counted`).

Only model-checked: liveness, which is out of the prover's reach
(`EveryRequestEnds`, `ExpiredSessionsGo`, `StartupSucceeds`, `AttemptsSettle`,
`TransactionsEnd`, `BenchEnds`). Every invariant, every action property and the
refinement that a passing run checks is also a theorem.

## Not modelled

* The firewall (`pep/firewall.go`): a fixed list of commands run once.
* The sequential benchmark: a plain loop over the attempt that `RateBench` has.
* Scripts and experiments other than the measurement loop of experiment 04, and
  `natt-listener`, which keeps a socket open.
* Cryptographic primitives, SA key derivation, key generation, the formatting of
  commands, flag parsing, logging, health handlers and the read-only `/sessions`.
* The PEP's activation in baseline mode (no attestation), except for addresses,
  lifetimes and restarts in `Tunnel`: it is `activateHandler` without history.

## Plan

The plan of this project is carried out: the parts that keep state are modelled,
and what the runs check, liveness aside, is proved. What could follow:

1. A theorem that the PEP's submissions are requests of `Verifier`, so that the
   Verifier's atomic step in `PEP` is justified by a proof of the composition and
   not by `ImplementsService` alone.
2. `Observations` in `PEP` as an abstraction of `Observer`, shown by a refinement.
