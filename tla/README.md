# Flamingo verifier: TLA+ models and proofs

This directory holds a verification development of the verifier in `verifier/`:
TLA+ modules translated from the source, TLC configurations that check them on
small instances, and TLAPS proofs of their main safety properties for every
value of the constants. Run everything from this directory:

    tlc -config MCEnclaveMatch.cfg MCEnclaveMatch.tla
    tlapm EnclaveMatchProofs.tla

`PROJECT.json` maps each definition to the lines it translates and lists the
runs, the mutants that show each property can fail, the findings, the hazards
and the theorems.

## 1. The system

A client asks a *host* for a match of biometric images. The host is a relay: it
runs WebSocket sessions and forwards to one *enclave* over vsock. The enclave
opens the sealed request, checks it, runs it on one sandboxed biometric worker,
signs a statement and seals the result to the client.

    client --WebSocket--> host --vsock, one connection per call--> enclave --pipe--> worker
                                                                     |
                                                                     +--> Nitro module

| Component | Source | State | Operations |
| --- | --- | --- | --- |
| match operation | `enclave/src/routes/matches.rs` | locals of each call | open, prepare, reserve, run, sign, seal, wait for a slot |
| replay guard | `enclave/src/replay.rs` | set of (aud, nonce), `full` | reserve, release, is_full |
| executor | `enclave/src/biometric_engine.rs` | worker mutex, blocking jobs | run with queue limit and deadline, terminate, check_health |
| enclave state | `enclave/src/state.rs`, `runtime.rs` | boot keys, release (write once), `engine_overran` | load a release, reset, health, boot, exit |
| attestation refresh | `enclave/src/attestation.rs` | document and time per key | refresh, serve, give up |
| host session | `host/src/routes/matches.rs`, `app_state.rs` | permits, phase of each session | assignment, match, error report, close |
| host enclave client | `host/src/enclave.rs`, `error.rs` | none; a deadline per call | control call, match call, error mapping |
| control routes | `enclave/src/routes/release.rs`, `encryption_key.rs` | the release (write once) | load, answer about the key |
| client session | `client/src/session.rs`, `client.rs` | socket, verified assignment, one deadline per phase | connect, request_match, close |
| client configuration | `client/src/config.rs` | the policy, constant once a client exists | new, from_json, with_*, verifier |
| message types | `sealed-types/src/response.rs` and the other `*-types` | none | pad, open, leave a report out |
| worker client | `sandbox-client`, `enclave/src/error.rs` | next request id | evaluate, decode |
| pipeline adapter | `enclave/src/pipeline.rs` | none | operation, threshold, check_score |
| engine interface | `engine-interface` | a stream of bytes | read_frame, write_frame, encode, decode |
| end-to-end runner | `e2e/src/main.rs` | none | a payload from its environment |
| provider metadata, host configuration | `host/src/engine_provider.rs`, `environment.rs` | constant after start | validate |

How they interact and what is hard about it:

* Calls run concurrently and share the replay guard, the overrun flag and the
  worker. A call that times out or whose connection breaks leaves its blocking
  job behind, and the job, not the call, owns the mutex.
* A reservation is given back only by a call refused as busy, after other calls
  have seen the set with it, duplicates included.
* Answers leave at slots counted from arrival, whatever happened before.
* An overrun ends the process after a grace period in which other calls go on.
* The host opens a connection per call; the enclave may reboot between any two,
  with a new key, an empty replay set and no release.
* A host that gives a call up does not know how far the enclave got.
* A peer may stall in every phase; a permit must still come back.
* All answers of the worker arrive on one stream, and the client tells them apart
  only by the number of the request.
* A refresh task judges the age of a document only when a refresh fails.
* An answer about the channel key is put together from three reads, and a load may
  come between any two of them.
* The client trusts nothing on the way: the host may replay, replace, mix or withhold
  frames, and an attested enclave may run other code.
* The verdict and a report of arbitrary length share one envelope of fixed size.
* A frame arrives in pieces, and the stream may end within it.

## 2. Modules

| Module | Models | Role |
| --- | --- | --- |
| `AtMostOnce` | the contract of replay rejection | abstract specification |
| `ReplayGuard` | `replay.rs` | state and operators used by `EnclaveMatch` |
| `EnclaveMatch` | `routes/matches.rs`, `biometric_engine.rs`, `state.rs`, health | the match operation of one enclave |
| `HostSession` | `host/src/routes/matches.rs`, `app_state.rs`, `enclave.rs`, `error.rs` | host and peers over an abstract enclave |
| `Attestation` | `attestation.rs`, supervision in `runtime.rs` | cached documents |
| `KeyRoute` | `state.rs` (`load_release`), `routes/release.rs`, `encryption_key.rs` | control routes beside `Attestation`, which it extends |
| `Pipeline` | `pipeline.rs`, normalisation in `biometric_engine.rs` | operators used by `Inference` |
| `Inference` | `sandbox-client/src/client.rs`, `error.rs`, `run` of `matches.rs` | one request at the worker, up to its verdict |
| `Runner` | `e2e/src/main.rs` | the requests the runner makes, and `Inference` with them |
| `ClientConfig` | `client/src/config.rs` | operators used by `ClientSession` |
| `Envelope` | `sealed-types/src/response.rs` | operators used by `ClientSession` |
| `ClientSession` | `client/src/session.rs`, `client.rs`, `error.rs` | clients against a free host, enclaves of this and of other code |
| `OrderedDelivery` | the contract of a framed stream | abstract specification |
| `EngineCodec` | `engine-interface/src/lib.rs` | messages as sequences of bytes, used by `EngineIpc` |
| `EngineIpc` | `engine-interface/src/framing.rs` | frames over a stream |
| `MC*` | | instances for TLC |
| `*Proofs` | | theorems |

Compositions: `EnclaveMatch` extends `ReplayGuard` and implements `AtMostOnce`, which
is the enclave of `HostSession` (per boot) and, with the release check before it, the
genuine enclave of `ClientSession`. `KeyRoute` runs together with `Attestation`.
`Runner` extends `Inference`, `ClientSession` has `ClientConfig` and `Envelope` in it, and `EngineIpc` carries `EngineCodec` and
implements `OrderedDelivery`.

### EnclaveMatch (extends ReplayGuard)

A call is a program counter `pc[r]` with its locals: `opening` (in the blocking
pool), `queued` (waits for the worker), `inferring`, `signing`, `sealing`,
`sleeping` (waits for its slot), `answered`, or `abandoned` (the peer went away
but the blocking part of `handler`, which reserves, still runs). Actions follow
the awaits of the code: `Arrive` is `handler` up to the first await;
`OpenFails`, `RejectUnresolved`, `RejectResolved`, `ReserveFails` and `Prepare`
are the exits of the blocking part; `StartInference`, `QueueExpires` and
`ExpiredWithGuard` those of the wait for the mutex; `TakeResult` and
`EngineTimeout` those of the inference; then `Sign`, `Seal`, `Answer`.
`Disconnect` drops the future at any await. `EngineFinishes` is the blocking job.

What a request says is abstracted to the check that rejects it, its pipeline and
its pair. The OS mutex of the replay guard makes `Reserve` and `ReleasePair`
atomic. A time-out and a result that are due together race: `timeout_at` looks
at the result first, so both outcomes are allowed once the deadline has passed.

### HostSession

A session is a phase with the time since its deadline was set: `request`,
`attest`, `assign`, `match`, `slots` (deadline metadata), `run`, `reply`,
`report` and `close`; the last two share one deadline. The match call is on its
own (`call[s]`) once the host gave it up, and goes on in the enclave until the
enclave notices (`Dropped`). The enclave is its boot number, which stands for
the channel key, its release and `AtMostOnce`, which `EnclaveMatch` is shown to
implement. A peer may seal its frame to the key of any boot so far, or to none: the host
forwards the bytes unread. A call that is abandoned while its request is prepared may still
reserve its pair (`Abandoned`). Error codes carry `allow_retry`; `internal_error` comes in two
versions. `kept[s]` is a history variable: the enclave holds the pair for the
call of this session. The peer may do anything in its turn, or nothing.

The permit is taken before the upgrade completes; the upgrade itself is not
modelled. A name of a session is reused once the call of its predecessor is over,
which bounds the number of calls in flight.

### Attestation

Per key the refresh task sleeps, attests, has a signed document on its way back,
or has ended. `age` is the true age of the cached document, `since` the age the
code computes from `attested_at`. The process serves, drains (the executor waits
for its blocking pool) or is down.

### Inference (extends Pipeline)

Where `EnclaveMatch` says which call has the worker and for how long, this module
says what becomes of the request that has it: `Prepare` (strictness and layout),
`Evaluate` (image checks, the number, the size once encoded), the exchange, and
`Read` (the response, the failure or scores in it, the thresholds). An image is
the position of its entry in the payload; its bytes are a number. `wire` is
what the worker has sent and nobody has read. `up` ends with `fail`, and a boot
brings a new worker and starts the numbers again.

The worker is external. It answers the request it has with scores it computed or a
failure (`Work`); when it goes wrong (`faulty`) it says something again, answers an
earlier request, sends what is no answer, or dies. Two things it does not do,
because no client could tell: invent scores for the request it has, and use the
number of a request it has not been given. `answer` is a history variable: what the
worker found out about this request, with the pairs of images it compared.

Scores are integers: `-One..One` is the grid of f64. f32 keeps a fixed number of digits,
so the distance of its numbers doubles with their size (`Spacing`), and a conversion takes
the nearest, of two as near the even one (`RoundEven`). `Normalized` converts twice, as
`f32::midpoint` of a score cast to f32 does: a tie of the second conversion can lift a score
that the first had already lifted, so both add up. The exact sum of `One` and the score
stands for the midpoint, as halving it changes no digit.
The release is taken to list every pipeline and level, so that `prepare` goes on
to the checks of this module.

`Runner` adds the environments of the end-to-end runner and the payload it makes of each,
with a file standing for its role; the worker and the client are those of `Inference`.

### KeyRoute (extends Attestation)

A manifest stands for its `release_hash`. `LoadRelease` is all of `load_release`,
`get_or_init` included; a manifest that is refused changes nothing and is a stutter.
`handler` of `encryption_key.rs` awaits the document and then reads the release twice,
for the list and for the latest slot: `ReadDocument` and two `ReadRelease`, between which
anything may happen. `acked` and `before` are history variables. The composition is
`RouteNext`: a step of the refresh or a step of a route.

### ClientSession (extends ClientConfig and Envelope)

A session is a phase (`upgrading`, `asking`, `assigning`, `session`, `sending`,
`matching`, `closing`, `done`) with what is left of its deadline; asking and assigning
share one, so do sending and matching. Every frame that may arrive in a phase is an
action: an error envelope, a Close, text or a binary frame that does not belong there,
a ping (`Ignored`), and what counts. `Configure` is the way to a client: `new` or
`from_json`, then any number of `with_*`, then `FlamingoVerifierClient::new`, which
validates again.

The host is free to do with frames what it likes; what it cannot do is stated at the
head of the module and amounts to what Nitro and HPKE promise. An enclave is a boot with the
PCR values Nitro measured: `Genuine` ones run this repository's code (`LoadRelease`, `Serve`), the others attest their own keys and may
answer what is sealed to them with any bytes and any token, those relayed from genuine
enclaves included (`ForeignReplyRead`). Several boots may have the measurements of one
policy. A result is its verdict, the bytes of its CBOR without the report and the
report. `asked`, `replies`, `lost` and `spent` are kept for the properties; `asked` and
`replies` also say what the enclave can answer.

### EngineIpc (extends EngineCodec)

One direction of a stream: `Write` is `write_frame` as far as its checks, `Push` hands
over any number of its bytes, `ReadFirst`, `ReadLength`, `ReadBody` take what there is.
`Close` is the end of the writer, at a boundary or within a frame; `ReadFails` any error of
I/O or memory. Bytes are integers, so that lengths, identifiers and flags are encoded as they
are in the code, with fewer bytes. The repository has both ends of this interface as a
library but no process that runs them; how an engine reacts to a terminal verdict is not
there to be modelled.

## 3. Runs

| Run | Instance | Shows |
| --- | --- | --- |
| `match_safety` | 2 calls, 3 pairs, `Limit` 2, slots {2,3} and {1,2} | all safety of the match operation and the refinement of `AtMostOnce` |
| `match_liveness` | 2 calls, 2 pairs, one slot | every call ends; an overrun ends the process |
| `session_safety` | 2 sessions, 2 permits, 1 pair, 2 boots | permits, origin of results, what errors leave behind |
| `session_time` | 2 sessions, 1 permit, 1 boot | bounded hold, every session ends |
| `inference` | 78 payloads (11 of them accepted) and every one the runner makes, 6 failures, 4 scores, numbers to 3, 2 frames ahead; 256,072 states | verdicts rest on what the worker found out about the request; layouts; the end of the process; the runner is understood |
| `attestation` | 2 keys, period 2, servable 4, calls up to 1; 4 manifests, one invalid, one of another bundle; 440,424 states | bounded staleness, failures end the boot; loads and answers about the key agree |
| `client_sessions` | 2 sessions, 3 boots (one genuine, one that shares its PCR0, one other), 3 requests with 2 pairs and 2 releases, 7 configurations and 30 files; 691,512 states | what the client sends, what it accepts, and that its calls end |
| `engine_ipc` | up to 3 of 11 frames (5 messages, 6 byte strings that are none), 3 bytes in flight; 151,775 states | delivery in order and whole, a canonical codec, no frame that was flushed is lost |
| `serves_after_overrun`, `full_until_reboot`, `leaves_at_a_slot`, `retry_can_succeed` | smallest that shows it | statements of the documentation that the code does not keep, section 6 |

Bounds. Pairs exceed `Limit` by one so that the replay set fills and refuses.
Two calls suffice for every race of two actors; what needs three, two calls that
wait for one worker, is covered by the theorems, which hold for any number of calls. Slots lie on
both sides of `QueueTimeout`, so each of the two limits of the wait can be the
first. `Horizon` is past every deadline, where clocks stand because no guard
tells later moments apart. All durations of the sessions are 0 or 1, enough to be before or at a
deadline: `LastSlot` is 0 and `Margin` 1, which only matter as their sum.
`MaxBoots` is 2 for safety, so that an assignment can be outlived, and 1
for liveness, the worst case, an enclave that never comes back. The first
session run uses a view without `held`, a history variable that no guard and none
of its properties reads. `Stalest` bounds the ages in `Attestation`; the proof
shows that a serving process never reaches it. The attestation run allows deadlock: there a
process that went down stops.

The payloads of the `inference` run are every assignment of metadata to three
entries for both pipelines, to two of the entries of a capture with four, further orders,
repeated and missing positions, and one payload for each other check, with sizes
at and past every limit. The scores are both ends of the range, one on a tie that ends
below a threshold it has reached, and one that two roundings lift over a threshold it
has not. Three numbers are two
requests and the end of the numbers; two frames ahead are an answer and one more.
Nothing but `match_strictness` is bounded in the environments of the runner.

In `client_sessions` one timeout is 1 and the other 0: before a deadline and at it.
The ages of documents are one within the bound and one past it, and the configurations are
one for each way to be refused and to be accepted. Of the reports of 4, 8 and 12 bytes the
first fills the budget to the byte, the second exceeds it within its own cap, and the
third exceeds the cap. Two answers to one request are the first and a replay. Everything
may end there, so the run does not ask for deadlock; nor does that of the stream.

In `engine_ipc` identifiers and lengths have two bytes, which have an order; the stream
holds three, so that prefixes and bodies are cut everywhere. The reader's limit is below the
writer's, so that a length may be refused.

Fairness. `EnclaveMatch`: time passes, the exit task fires, and each call that
can move moves (the tokio scheduler). Nothing is assumed of the Engine, the
peers, the host, or a boot; a release may never be loaded. `HostSession`: time
passes and timers fire; nothing is assumed of peers or the enclave.
`Attestation`: timers fire, tasks that ended are noticed, and calls in the
blocking pool return. The code does not enforce this last point for the module,
and for the Engine only by the worker's own exchange limit, which is external.
`ClientSession`: timers fire (`WF` of `Tick` and `Expire`); the host may stay silent for
good and a caller may never use its session. `EngineIpc`: each end goes on with what it
has begun, as loops over blocking calls do; nobody need write, and reading may fail.

Each property has a mutant: a plausible bug in one mapped definition under which
TLC finds the property violated with the same configuration.

## 4. Properties

`EnclaveMatch`
* `WorkerExclusive`: one inference at a time, and calls and jobs hold the mutex
  exactly as long, although callers time out and vanish. `check_health` takes the mutex
  too, for the moment of a look; that moment is no state, but a wait that expires in it
  is allowed for in `QueueExpires`.
* `RefinesAtMostOnce`: under one boot a pair goes at most once through the
  Engine, and only a pair whose inference has not started is given back.
* `OneStatementPerPair`, `ReservationOwned`, `BusyIsRetryable`, `FullIffAtLimit`.
* `NoEarlyAnswer`: nothing leaves before the slot that is due.
* `OverrunIsGenuine`: only a call whose own inference ran past its last slot
  makes the enclave reset; waiting too long for the worker never does.
* `EveryCallEnds`, `OverrunLeadsToExit`, with an Engine that may never return.

`HostSession`: `PermitsConserved`, `BoundedHold` (at most five idle timeouts, two
control calls and the match deadline), `SameBootServes` (a result is of the boot the
request was sealed to, so of the assigned one for a peer that seals to its assignment),
`CleanRetry`, `EverySessionEnds`.

`Inference`: `VerdictIsEarned` (of this request, of these pairs, right to three
quarters of a step of normalised scores in f32), `LayoutExact`, against the layouts `pipeline.rs` documents, `PromisesKept`
(the panics and errors the code argues away), `HonestWorkerSurvives`.

`RunnerIsUnderstood`: whatever environment the runner accepts, the adapter takes its
request and compares each file under the role it was given.

`Attestation`: `BoundedStaleness` (servable age + one period + two calls of the
module), `FailureEndsService`, `StopTakesDown`.

`KeyRoute`: `LoadsAgree` (one manifest is acknowledged, however loads race),
`ListedIsTimed` (an answer never lists a release without its own deadline, although the two
are read apart; it rests on the order of the reads), `AckedIsListed`.

`ClientSession`
* `SealedToVerified`: biometric data leaves sealed to a key attested for three nonzero
  measurements of one entry of the policy, for a release the host lists, and never under a
  policy that a setter broke after it was validated.
* `AcceptedIsAttested`, `AcceptedWasServed`: an accepted statement is about the caller's
  own request, signed by an enclave the policy trusts, and made by it if it runs this code,
  whatever the host mixes and whatever the enclave asked answers. The first does not say
  that the signer is the enclave the request was sealed to: `client.rs` does not compare
  them, and with two enclaves of one policy they may differ.
* `OneResultPerPair`, over replays by the host and repeats by the caller.
* `ReplyFaithful`, `NoVerdictLost`: a report never costs or changes the verdict.
* `PhaseBounded`, `CallsEnd`: no frame extends a deadline, and every call ends.

`EngineIpc`: `ImplementsDelivery` and `CleanEndIsWhole` (in order, whole, and clean only at a
boundary), `FlushedIsRead`, `DecodesWhatWasSent`, `DecodesCanonically` (what a decoder
accepts, of any bytes, is exactly what the encoder makes of the result).

A type invariant belongs to each module. Those of `HostSession`, `Attestation`,
`KeyRoute`, `Inference`, `ClientSession` and `EngineIpc` are theorems and are not run.

## 5. Proofs

All theorems hold for every set of calls, pairs, sessions, boots, configurations and keys and
all limits and durations, under the named assumptions of the modules: `ReplayAssumption`,
`MatchAssumption`, `SessionAssumption`, `AttestationAssumption`, `RouteAssumption`,
`ScoreAssumption`, `InferenceAssumption`, `RunnerAssumption`, `ConfigAssumption`,
`EnvelopeAssumption`, `ClientAssumption`, `CodecAssumption` and `IpcAssumption` (finite sets
where the code has a limit, positive limits where the configuration demands them, at least one
slot per pipeline, `NsmMax` below the servable age, a result without a report that fits an
envelope, frames that are what the encoder made or else bytes of any kind). TLC evaluates each
of them in a run. Every safety property of the runs, the two refinements included, is stated
by a theorem.

`EnclaveMatchProofs`. `WorkerExclusive` is inductive with types and one more
fact: a call in `inferring` has its job on the worker or its inference has ended.
The replay properties are not: whether a duplicate can be inferred depends on
what becomes of a reservation after its call has gone. The invariant `IInv` adds
that a pair with a run is still in the set (`RunsInv`), that a call carries a
pair out of the set only if it was refused as busy (`RefusedInv`), that two waiting
calls never share a pair (`ReservationOwned`), and that a call that ran did so once
and alone (`RanInv`). With it each step maps to a step or a stutter of `AtMostOnce`
(`ImplementsContract`). For `NoEarlyAnswer`, `SlotInv` follows the slots of a call from
`prepare` to its answer: it waits for one of its own, has reached it when it is answered, and
a timed out one was past its last. Slots need that a finite set of times has a least and
a greatest element, proved from well-foundedness.
The limit of the set is a limit on inferences: the pairs that ran are among those reserved, so a boot runs at
most `Limit` of them (`BootRunsAtMostLimit`), and one that has run them all is full until it
reboots (`SpentBootStaysFull`). That is how much is true of the sentence that section 6
refutes, of a set that is full of reservations which can still be released.

`HostSessionProofs`. `PermitsConserved` follows from the cardinality of the set
of live sessions, which every step keeps or changes by one with the permits
(`PermitsMove`). For `BoundedHold`, `OnTime` bounds the time held by what the
earlier phases may have taken (`Spent`) plus the clock of the present one.
`SameBootServes` needs to know where the frame of an active call is sealed to, and that
no session knows a boot still to come (`CallOK`); it follows the result from the boot that
opened the frame to the peer (`ResultOK`); `CleanRetry` needs that nothing is reserved before the call and that
an answer that promises a clean retry left nothing (`KeptOK`).
The enclave of the sessions is made of the actions of `AtMostOnce`, whose guards would hold a
call up if the contract had lost its pair. `PairsHeld` shows that they never do: a call that
is `queued` has its pair reserved, one that is `inferring` has it run, and no two have one pair.
It is inductive only together with `IInv`. `KeepsContract` is then the refinement of
`AtMostOnce` by the composition, in which a reboot is the contract's `NewKey` and a step of the
host stutters.

`AttestationProofs`. The age of a document is at most `since` plus one call
(`Stamped`), and `since` is bounded by the phase of the task (`Recent`): a failure
below the limit buys one more period and one more call, and no more.

`InferenceProofs`. That a verdict is earned follows from what the stream may hold
while a request waits: `Trusted` says of each frame that, if it would pass `decode`,
it is what the worker found out; `WireOK` that no frame has the number of a request
still to come, so that the frames left over when the next request starts are refused.
`Sound` adds that a worker without a fault has at most one frame on the stream and
that one is no violation. The layouts are compared for payloads of any length
(`LayoutsAgree`), and `NormalizedScore` bounds the two roundings: `Spacing` is at most `Grain` for a score and
twice that for the sum, and divides `One` (`SpacingFacts`); rounding moves a number by at most half the
distance (`RoundEvenFacts`) and past no number of f32 (`RoundsWithin`).

`RunnerProofs`. While a payload is in hand, the operation is the adapter's of that payload
(`Adapted`, inductive by itself). The theorem then says of the operators alone: the images of
the runner are three or four in a known order (`ImageOrder`), the adapter finds
exactly one capture among them, the one that was meant (`OneCapture`), so every check passes and each role finds its file (`RequestUnderstood`). The strictness and the size of the
images are any.

`KeyRouteProofs`. The routes leave the variables of the refresh alone, so that its theorems
hold of the composition (`RoutesOnlyRead`). `RouteInv` adds what an answer under way has
seen: what it lists is the release, which stays what it is, and what was acknowledged when it was
asked for is listed as soon as the list is read.

`ClientSessionProofs`. `EnvelopesOpen` shows that what is padded opens again, with nothing but a
report that does not fit left out. The invariant `IInv` says where everything in the session
comes from: the configuration was validated last and no session precedes it (`ConfigOK`),
an exchange has the peer and the request its phase calls for (`PhaseOK`), a result was
opened from a reply or a statement that was checked (`ResultOK`), a genuine reply to an
exchange is about its request and, if it is a success, of a pair that is processed
(`ServedReply`), and two exchanges never both hold a success of one boot for one pair
(`Unique`). TLC checks the same invariant on the small instance.

`EngineIpcProofs`. The codec computes with numbers and bytes of any length, so the proofs need
induction. The library's induction theorems are out of reach, but a set of naturals that has 0
and with each number its successor is all of them (`NatSet`, from well-foundedness), and from that follows that
a function defined by recursion on a number exists and takes the values of its equation
(`Iterates`). With it `BytesOfNumber` and `NumberOfBytes` show that big-endian bytes and the numbers
that fit are in bijection, and the codec follows in both directions: what is encoded decodes
to itself (`RequestIsRead`, `ResponseIsRead`), and bytes that decode, whatever they are, are
what the encoder makes of the result (`RequestIsCanonical`, `ResponseIsCanonical`).
`WireIsDecodable` is the same of the framing: the bytes of a list of frames, and of the beginning of
one more, determine the list, because a prefix tells the length of its body.
The invariant of the stream is one equation (`WireInv`): the frames the reader returned, what it
holds and what is on the way are the frames flushed and the part of the one in hand that is
done; `PhaseInv` says what each end holds in its state, `SizeInv` that every frame has a length
its prefix can tell. By decodability the frames returned are the first of those sent,
which gives `CleanEnd`, and each step is one of `OrderedDelivery` or a stutter
(`DeliversInOrder`): `Write` sends, `Return` delivers, `ReadEnd` and `ReadFails` end it.
`ReaderIsNotLeftWaiting` is the safety half of `FlushedIsRead`: where a frame that was flushed is not
returned, the equation puts the whole of it in the reader's hands (`NextFrame`, `HeldIsWhole`),
so a reader that waits for a byte there is none of has returned them all.

Model-checked only: liveness, which is outside the reach of the prover, that is
`EveryCallEnds`, `OverrunLeadsToExit`, `EverySessionEnds`, `FailureEndsService`,
`StopTakesDown`, `CallsEnd` and `FlushedIsRead`. The theorems about safety say nothing of
whether anything happens; these runs do, on their instances.
Stated by theorems alone are `WaitingReaderHasAll`, `BootIsBounded`, `SpentBootIsDone` and the other
results of the proof modules that no run lists.

## 6. Where documentation and code differ

1. `state.rs:145`: after an overrun "the enclave then serves nothing more". A call
   that already waits for the worker can start its inference in the grace period
   and be answered with a statement (`serves_after_overrun`).
2. `replay.rs:4-5`: "once full, the enclave refuses every request and reports not
   ready until it reboots". A waiting call refused as busy gives its pair back and
   lowers the flag (`full_until_reboot`).
3. `matches.rs:81`: "Every outcome after opening, errors included, leaves at a
   slot". One that is ready after the last slot leaves at once (`leaves_at_a_slot`).
4. `api-types/src/error.rs:6`: `allow_retry` says "Whether the client should retry
   the request". After a timeout, a broken connection or an internal error of the match call the
   enclave may hold the pair for good, and the retry is a replay (`retry_can_succeed`).
5. `docs/api.md:104`: `internal_error`, "A host-side invariant failed.", "Retry." The
   host's own `internal_error` says `allow_retry: false` (`error.rs:239-247`), as does the
   one for an enclave error it does not expect (`error.rs:80-91`, `118-125`); only an internal
   error of the enclave's match carries `true`. No run shows this: the two versions of the code
   are in `Retryable` and `Final` of `HostSession`, and what differs is the table's one row.

## 7. Not modelled

* Signatures, HPKE, certificates and the Nitro module are external libraries; the models
  state what they promise. `keys.rs` and `rng.rs` add no control to them: a key is
  generated once per boot, and a boot without the right generator does not serve.
* The steps of a boot before it serves (provisioning, spawning the worker, the readiness
  frame) run one after the other in one thread, and each failure ends the process before
  anything is served. `Boot` is their success.
* `engine_provider.rs` and `environment.rs` check a document and limits once, at start,
  and never change them; what the sessions need of them is in `SessionAssumption`. The
  content of the provider document is JSON served as it is.
* Of the client: the TLS connector and the text of URLs. Of the host: the listener, the route
  of liveness, which has no state, and that of readiness, which relays `Ready` of
  `EnclaveMatch` under the deadline of any control call.
* CBOR, JSON and protobuf are reduced to sizes and to what can be refused. Only the engine
  interface is modelled byte by byte.
* The qualification driver, the examples, and the build and delivery of images: nothing of them
  takes part in the protocol.

Four hazards have no property. An overrun of a call whose peer has left
(`matches.rs:198`) is noticed by nobody before the worker's own exchange limit, and a call of the
Nitro module that never returns (`attestation.rs:112`) stops a refresh without ending it:
both outcomes rest on an external part, and a model would assert its behaviour. A blocking
call that never returns holds up the exit of a process that has stopped (`runtime.rs:80`), as the
code sets no bound; `StopTakesDown` assumes that calls return. A verified
assignment has no age (`client.rs:119`): the code sets no limit on the time between
`connect` and `request_match`, so that there is nothing to check.
