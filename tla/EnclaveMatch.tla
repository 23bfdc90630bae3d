---------------------------- MODULE EnclaveMatch ----------------------------
(***************************************************************************)
(* The match operation of one verifier enclave: concurrent calls of        *)
(* routes/matches.rs `handler`, the replay guard, the executor that shares *)
(* one biometric worker (biometric_engine.rs), the overrun reset and the   *)
(* reboot of the process.                                                  *)
(*                                                                         *)
(* Time.  Every live call has its age since `arrival`, every queued call   *)
(* the time since it started to wait.  Tick moves all clocks; a timer may  *)
(* fire late but never early, as tokio's do.  Clocks stop at Horizon, past *)
(* every deadline, where all later moments look alike.                     *)
(***************************************************************************)
EXTENDS ReplayGuard, FiniteSetsExt

CONSTANTS
  Call,           \* handler invocations that can be in flight; a slot is reused
  Pipeline,       \* pipelines of the loaded release
  ResponseSlots,  \* pipeline -> its response slots, times since arrival
  QueueTimeout,   \* QUEUE_TIMEOUT
  ResetGrace,     \* RESET_GRACE
  Horizon,        \* bound: clocks saturate here
  NoPair          \* of a call that has reserved nothing

AllSlots == UNION {ResponseSlots[pl] : pl \in Pipeline}

ASSUME MatchAssumption ==
  /\ NoPair \notin Pair
  /\ Pipeline # {} /\ IsFiniteSet(Pipeline)
  /\ ResponseSlots \in [Pipeline -> SUBSET Nat]
  /\ \A pl \in Pipeline : ResponseSlots[pl] # {} /\ IsFiniteSet(ResponseSlots[pl])
  /\ QueueTimeout \in Nat /\ ResetGrace \in Nat /\ Horizon \in Nat
  /\ \A s \in AllSlots \union {QueueTimeout, ResetGrace} : s < Horizon

VARIABLES
  \* the enclave process
  up,        \* serving; false from an exit to the next boot
  loaded,    \* the OnceLock holds a release manifest
  overran,   \* engine_overran
  grace,     \* time since terminate spawned its exit task
  \* the executor
  locked,    \* the worker mutex is held, but for a look of check_health
  jobs,      \* pairs whose inference the worker is executing
  runs,      \* history: inferences started for each pair in this boot
  \* one record of locals per call
  pc, pair, slots, age, waited, outcome, leave,
  done       \* the inference of the call has ended

bootVars == <<up, loaded, overran, grace>>
workerVars == <<locked, jobs, runs>>
clockVars == <<age, waited>>
callVars == <<pc, pair, slots, age, waited, outcome, leave, done>>
vars == <<bootVars, guardVars, workerVars, callVars>>

Quiet == {"idle", "answered", "abandoned"}
PC == Quiet \union {"opening", "queued", "inferring", "signing", "sealing", "sleeping"}
Outcome == {"none", "success", "failed", "engine_timeout", "not_ready", "internal",
            "not_opened", "too_large"}

LocalTypeOK ==
  /\ up \in BOOLEAN /\ loaded \in BOOLEAN /\ overran \in BOOLEAN
  /\ grace \in 0..Horizon
  /\ locked \in BOOLEAN
  /\ jobs \subseteq Pair
  /\ runs \in [Pair -> Nat]
  /\ pc \in [Call -> PC]
  /\ pair \in [Call -> Pair \union {NoPair}]
  /\ slots \in [Call -> SUBSET Nat]
  /\ age \in [Call -> 0..Horizon]
  /\ waited \in [Call -> 0..Horizon]
  /\ done \in [Call -> BOOLEAN]
  /\ outcome \in [Call -> Outcome]
  /\ leave \in [Call -> Nat]

TypeOK == GuardTypeOK /\ LocalTypeOK

-----------------------------------------------------------------------------
(* The process: boot, exit, and what an exit loses.                         *)

Init ==
  /\ up = TRUE /\ loaded = FALSE /\ overran = FALSE /\ grace = 0
  /\ GuardInit
  /\ locked = FALSE /\ jobs = {} /\ runs = [p \in Pair |-> 0]
  /\ pc = [r \in Call |-> "idle"] /\ pair = [r \in Call |-> NoPair]
  /\ slots = [r \in Call |-> {}] /\ leave = [r \in Call |-> 0]
  /\ age = [r \in Call |-> 0] /\ waited = [r \in Call |-> 0]
  /\ done = [r \in Call |-> FALSE] /\ outcome = [r \in Call |-> "none"]

\* An exit loses everything EnclaveState and the running tasks hold.
Exit ==
  /\ up' = FALSE /\ loaded' = FALSE /\ overran' = FALSE /\ grace' = 0
  /\ processed' = {} /\ full' = FALSE
  /\ locked' = FALSE /\ jobs' = {} /\ runs' = [p \in Pair |-> 0]
  /\ pc' = [r \in Call |-> "idle"] /\ pair' = [r \in Call |-> NoPair]
  /\ slots' = [r \in Call |-> {}] /\ leave' = [r \in Call |-> 0]
  /\ age' = [r \in Call |-> 0] /\ waited' = [r \in Call |-> 0]
  /\ done' = [r \in Call |-> FALSE] /\ outcome' = [r \in Call |-> "none"]

\* A panic in blocking work, a failed worker exchange, a stale attestation or
\* the host ends the process at any moment.
Crash == up /\ Exit

\* Mutant: the exit task first waits for the worker mutex.
ExitAfterOverrun_WaitsForWorker == up /\ overran /\ grace >= ResetGrace /\ ~locked /\ Exit

\* The task spawned by terminate sleeps for the grace period, then exits.
ExitAfterOverrun ==
  /\ up /\ overran /\ grace >= ResetGrace
  /\ Exit

Boot ==
  /\ ~up
  /\ up' = TRUE
  /\ UNCHANGED <<loaded, overran, grace, guardVars, workerVars, callVars>>

LoadRelease ==
  /\ up /\ ~loaded
  /\ loaded' = TRUE
  /\ UNCHANGED <<up, overran, grace, guardVars, workerVars, callVars>>

\* What the health operation reports, provided the idle worker is alive.
Ready == up /\ loaded /\ ~full /\ ~overran

-----------------------------------------------------------------------------
(* Response slots.                                                          *)

LastSlot(S) == Max(S)
LatestFirstSlot == Max({Min(ResponseSlots[pl]) : pl \in Pipeline})
\* Mutant: the earliest first slot instead of the latest.
Unresolved_Earliest == {Min({Min(ResponseSlots[pl]) : pl \in Pipeline})}
Unresolved == {LatestFirstSlot}

\* Mutant: no slot to fall back on once the last one has passed.
ReleaseAt_NoFallback(S, elapsed) ==
  LET open == {s \in S : s >= elapsed} IN IF open # {} THEN Min(open) ELSE -1

\* release_at(elapsed).unwrap_or(last)
ReleaseAt(S, elapsed) ==
  LET open == {s \in S : s >= elapsed} IN IF open # {} THEN Min(open) ELSE LastSlot(S)

\* The handler knows its response and sleeps until a slot.
AwaitSlot(r, S, o) ==
  /\ pc' = [pc EXCEPT ![r] = "sleeping"]
  /\ outcome' = [outcome EXCEPT ![r] = o]
  /\ leave' = [leave EXCEPT ![r] = ReleaseAt(S, age[r])]

\* The handler has a MatchResult that it encodes and seals first.
ToSeal(r, o) ==
  /\ pc' = [pc EXCEPT ![r] = "sealing"]
  /\ outcome' = [outcome EXCEPT ![r] = o]
  /\ UNCHANGED leave

-----------------------------------------------------------------------------
(* Arrival, opening and prepare.                                            *)

\* The two early returns of handler that do not depend on the request.
Admits == loaded /\ ~overran

\* A request above every limit is refused before it is opened.
Arrive(r) ==
  /\ pc[r] \in {"idle", "answered"}
  /\ up
  /\ pair' = [pair EXCEPT ![r] = NoPair]
  /\ slots' = [slots EXCEPT ![r] = {}]
  /\ age' = [age EXCEPT ![r] = 0]
  /\ waited' = [waited EXCEPT ![r] = 0]
  /\ done' = [done EXCEPT ![r] = FALSE]
  /\ leave' = [leave EXCEPT ![r] = 0]
  /\ \/ /\ Admits
        /\ pc' = [pc EXCEPT ![r] = "opening"]
        /\ outcome' = [outcome EXCEPT ![r] = "none"]
     \/ /\ pc' = [pc EXCEPT ![r] = "answered"]
        /\ outcome' = [outcome EXCEPT ![r] = IF Admits THEN "too_large" ELSE "not_ready"]
  /\ UNCHANGED <<bootVars, guardVars, workerVars>>

\* Sealed to another key or damaged: answered at once, outside the slots.
OpenFails(r) ==
  /\ pc[r] = "opening"
  /\ pc' = [pc EXCEPT ![r] = "answered"]
  /\ outcome' = [outcome EXCEPT ![r] = "not_opened"]
  /\ UNCHANGED <<bootVars, guardVars, workerVars, pair, slots, clockVars, done, leave>>

\* prepare fails with the given slots and never reaches the Engine.
Reject(r, S) ==
  /\ pc[r] = "opening"
  /\ slots' = [slots EXCEPT ![r] = S]
  /\ ToSeal(r, "failed")
  /\ UNCHANGED <<bootVars, workerVars, pair, clockVars, done>>

RejectUnresolved(r) == Reject(r, Unresolved) /\ UNCHANGED guardVars
RejectResolved(r, pl) == Reject(r, ResponseSlots[pl]) /\ UNCHANGED guardVars

\* The last check of prepare, refused: Replayed or, at the limit, Internal.
ReserveFails(r, pl, p) ==
  /\ ReserveResult(p) # "ok"
  /\ Reserve(p)
  /\ Reject(r, ResponseSlots[pl])

\* The last check of prepare, passed: the call goes to wait for the worker.
Prepare(r, pl, p) ==
  /\ pc[r] = "opening"
  /\ ReserveResult(p) = "ok"
  /\ Reserve(p)
  /\ pc' = [pc EXCEPT ![r] = "queued"]
  /\ pair' = [pair EXCEPT ![r] = p]
  /\ slots' = [slots EXCEPT ![r] = ResponseSlots[pl]]
  /\ UNCHANGED <<bootVars, workerVars, clockVars, outcome, leave, done>>

\* The caller went away during opening; the blocking task still runs prepare,
\* whose result nobody receives.
AbandonedPrepare(r) ==
  /\ pc[r] = "abandoned"
  /\ pc' = [pc EXCEPT ![r] = "idle"]
  /\ \/ UNCHANGED guardVars
     \/ \E p \in Pair : Reserve(p)
  /\ UNCHANGED <<bootVars, workerVars, pair, slots, clockVars, outcome, leave, done>>

-----------------------------------------------------------------------------
(* The executor.                                                            *)

Expired(r) == age[r] >= LastSlot(slots[r])

\* Mutants: the nonce stays consumed; the wait counts as an Engine overrun.
Busy_KeepsReservation(r) ==
  /\ AwaitSlot(r, slots[r], "not_ready")
  /\ UNCHANGED <<bootVars, guardVars, workerVars, pair, slots, clockVars, done>>
Busy_ResetsEngine(r) ==
  /\ ReleasePair(pair[r])
  /\ AwaitSlot(r, slots[r], "not_ready")
  /\ overran' = TRUE
  /\ UNCHANGED <<up, loaded, grace, workerVars, pair, slots, clockVars, done>>

\* Executor::run gives up before inference: run releases the reservation and
\* the error leaves at a slot without being sealed.
Busy(r) ==
  /\ ReleasePair(pair[r])
  /\ AwaitSlot(r, slots[r], "not_ready")
  /\ UNCHANGED <<bootVars, workerVars, pair, slots, clockVars, done>>

\* The guard moves into the blocking task, which runs the inference.
StartInference(r) ==
  /\ pc[r] = "queued" /\ ~locked /\ ~Expired(r)
  /\ locked' = TRUE
  /\ jobs' = jobs \union {pair[r]}
  /\ runs' = [runs EXCEPT ![pair[r]] = @ + 1]
  /\ pc' = [pc EXCEPT ![r] = "inferring"]
  /\ UNCHANGED <<bootVars, guardVars, pair, slots, clockVars, outcome, leave, done>>

\* timeout_at polls the lock before the timer, so an expired call can still
\* obtain the guard; the second look at the clock gives it back.
ExpiredWithGuard(r) ==
  /\ pc[r] = "queued" /\ ~locked /\ Expired(r)
  /\ Busy(r)

\* The timer fires while another call holds, or was just handed, the guard.
\* check_health takes it for the moment of a look at the worker, so there need
\* be no such call.
QueueExpires(r) ==
  /\ pc[r] = "queued"
  /\ Expired(r) \/ waited[r] >= QueueTimeout
  /\ Busy(r)

\* The blocking task ends and drops the guard.  Its result lies ready for the
\* call, if the call still waits for it.
EngineFinishes(p) ==
  /\ p \in jobs
  /\ jobs' = jobs \ {p}
  /\ locked' = FALSE
  /\ done' = [r \in Call |-> done[r] \/ (pc[r] = "inferring" /\ pair[r] = p)]
  /\ UNCHANGED <<bootVars, guardVars, runs, pc, pair, slots, clockVars, outcome, leave>>

\* Mutant: an infrastructure error hands the pair back for a retry.
TakeResult_ReleasesOnError(r) ==
  /\ pc[r] = "inferring" /\ done[r]
  /\ \/ /\ pc' = [pc EXCEPT ![r] = "signing"]
        /\ UNCHANGED <<outcome, leave, guardVars>>
     \/ ToSeal(r, "failed") /\ UNCHANGED guardVars
     \/ AwaitSlot(r, slots[r], "internal") /\ ReleasePair(pair[r])
  /\ UNCHANGED <<bootVars, workerVars, pair, slots, clockVars, done>>

\* run examines the Engine's answer: all scores clear the threshold, a
\* rejection or a low score, or an infrastructure error.
TakeResult(r) ==
  /\ pc[r] = "inferring" /\ done[r]
  /\ \/ /\ pc' = [pc EXCEPT ![r] = "signing"]
        /\ UNCHANGED <<outcome, leave>>
     \/ ToSeal(r, "failed")
     \/ AwaitSlot(r, slots[r], "internal")
  /\ UNCHANGED <<bootVars, guardVars, workerVars, pair, slots, clockVars, done>>

\* Mutants: the async caller owns the guard and drops it on a timeout; the
\* timed out request may be sent again; inference has no deadline.
EngineTimeout_DropsGuard(r) ==
  /\ pc[r] = "inferring" /\ Expired(r)
  /\ overran' = TRUE
  /\ locked' = FALSE
  /\ ToSeal(r, "engine_timeout")
  /\ UNCHANGED <<up, loaded, grace, guardVars, jobs, runs, pair, slots, clockVars, done>>
EngineTimeout_ReleasesPair(r) ==
  /\ pc[r] = "inferring" /\ Expired(r)
  /\ overran' = TRUE
  /\ ReleasePair(pair[r])
  /\ ToSeal(r, "engine_timeout")
  /\ UNCHANGED <<up, loaded, grace, workerVars, pair, slots, clockVars, done>>
EngineTimeout_Never(r) == FALSE /\ UNCHANGED vars

\* The deadline passes first.  The blocking task keeps the guard; the first
\* overrun of a boot spawns the exit task.  timeout_at polls the result before
\* the timer, and the inference can end between the two polls: a late result
\* that lies ready does not rule the timeout out.
EngineTimeout(r) ==
  /\ pc[r] = "inferring" /\ Expired(r)
  /\ overran' = TRUE
  /\ ToSeal(r, "engine_timeout")
  /\ UNCHANGED <<up, loaded, grace, guardVars, workerVars, pair, slots, clockVars, done>>

-----------------------------------------------------------------------------
(* Signing, sealing and the release of the response.                        *)

Sign(r) ==
  /\ pc[r] = "signing"
  /\ ToSeal(r, "success") \/ AwaitSlot(r, slots[r], "internal")
  /\ UNCHANGED <<bootVars, guardVars, workerVars, pair, slots, clockVars, done>>

Seal(r) ==
  /\ pc[r] = "sealing"
  /\ \E o \in {outcome[r], "internal"} : AwaitSlot(r, slots[r], o)
  /\ UNCHANGED <<bootVars, guardVars, workerVars, pair, slots, clockVars, done>>

Answer(r) ==
  /\ pc[r] = "sleeping" /\ age[r] >= leave[r]
  /\ pc' = [pc EXCEPT ![r] = "answered"]
  /\ UNCHANGED <<bootVars, guardVars, workerVars, pair, slots, clockVars, outcome, leave, done>>

\* The host's connection closes and the handler's future is dropped wherever
\* it waits.  Blocking work already handed over goes on.
Disconnect(r) ==
  /\ pc[r] \notin Quiet
  /\ pc' = [pc EXCEPT ![r] = IF pc[r] = "opening" THEN "abandoned" ELSE "idle"]
  /\ pair' = [pair EXCEPT ![r] = NoPair]
  /\ slots' = [slots EXCEPT ![r] = {}]
  /\ age' = [age EXCEPT ![r] = 0]
  /\ waited' = [waited EXCEPT ![r] = 0]
  /\ done' = [done EXCEPT ![r] = FALSE]
  /\ outcome' = [outcome EXCEPT ![r] = "none"]
  /\ leave' = [leave EXCEPT ![r] = 0]
  /\ UNCHANGED <<bootVars, guardVars, workerVars>>

-----------------------------------------------------------------------------

Later(t) == IF t < Horizon THEN t + 1 ELSE t

Tick ==
  /\ up
  /\ age' = [r \in Call |-> IF pc[r] \in Quiet THEN age[r] ELSE Later(age[r])]
  /\ waited' = [r \in Call |-> IF pc[r] = "queued" THEN Later(waited[r]) ELSE waited[r]]
  /\ grace' = IF overran THEN Later(grace) ELSE grace
  /\ UNCHANGED <<up, loaded, overran, guardVars, workerVars, pc, pair, slots, outcome, leave, done>>

LeaveQueue(r) == StartInference(r) \/ ExpiredWithGuard(r) \/ QueueExpires(r)

Opened(r) ==
  \/ OpenFails(r) \/ RejectUnresolved(r)
  \/ \E pl \in Pipeline :
       RejectResolved(r, pl) \/ \E p \in Pair : ReserveFails(r, pl, p) \/ Prepare(r, pl, p)

\* The steps of a call that the runtime takes by itself.
Progress(r) ==
  \/ Opened(r) \/ LeaveQueue(r) \/ TakeResult(r) \/ EngineTimeout(r)
  \/ Sign(r) \/ Seal(r) \/ Answer(r)

Next ==
  \/ \E r \in Call : Arrive(r) \/ Progress(r) \/ AbandonedPrepare(r) \/ Disconnect(r)
  \/ \E p \in Pair : EngineFinishes(p)
  \/ LoadRelease \/ Crash \/ ExitAfterOverrun \/ Boot
  \/ Tick

Spec == Init /\ [][Next]_vars

\* The runtime polls every live task, fires due timers and lets time pass.
\* Nothing is assumed of the Engine, which may run forever, or of callers.
Fairness ==
  /\ WF_vars(Tick)
  /\ WF_vars(ExitAfterOverrun)
  /\ \A r \in Call :
       /\ WF_vars(Opened(r)) /\ WF_vars(LeaveQueue(r))
       /\ WF_vars(TakeResult(r) \/ EngineTimeout(r))
       /\ WF_vars(Sign(r)) /\ WF_vars(Seal(r)) /\ WF_vars(Answer(r))
       /\ WF_vars(AbandonedPrepare(r))

FairSpec == Spec /\ Fairness

-----------------------------------------------------------------------------
(* Safety.                                                                  *)

(* The Engine never works on two requests at once and a call or its job     *)
(* holds the mutex exactly while it works, although the calls that started  *)
(* the work may time out or be dropped meanwhile (biometric_engine.rs 184:  *)
(* the blocking task, not its caller, owns the guard).                      *)
WorkerExclusive ==
  /\ \A p, q \in jobs : p = q
  /\ locked <=> jobs # {}

(* A waiting call is the only one with its pair, the pair is reserved, and  *)
(* the Engine has not seen it: so the release after Busy can only undo the  *)
(* call's own reservation (replay.rs 75; matches.rs 192-196).               *)
ReservationOwned ==
  \A r \in Call : pc[r] = "queued" =>
    /\ pair[r] \in processed
    /\ runs[pair[r]] = 0
    /\ \A q \in Call \ {r} : pair[q] # pair[r] \/ outcome[q] = "not_ready"

(* Two calls never both end with a signed statement for the same pair, and  *)
(* a statement is signed only for a pair the Engine ran once and that is    *)
(* still refused to everyone else (matches.rs 144-145, 205-216).            *)
OneStatementPerPair ==
  \A r \in Call : outcome[r] = "success" =>
    /\ runs[pair[r]] = 1 /\ pair[r] \in processed
    /\ \A q \in Call \ {r} : outcome[q] = "success" => pair[q] # pair[r]

(* No opened request is answered before a slot of its own; a failed run     *)
(* keeps to the last one and a request rejected before its pipeline was     *)
(* known never overtakes a completed run of any pipeline (matches.rs 81-84, *)
(* 98-100).                                                                 *)
NoEarlyAnswer ==
  \A r \in Call : pc[r] = "answered" /\ slots[r] # {} =>
    /\ age[r] >= Min(slots[r])
    /\ outcome[r] = "engine_timeout" => age[r] >= LastSlot(slots[r])
    /\ (\A pl \in Pipeline : slots[r] # ResponseSlots[pl]) =>
         \A pl \in Pipeline : age[r] >= Min(ResponseSlots[pl])

(* Action: the engine is declared overrunning only by a call whose own      *)
(* inference started, and either still holds the worker past the last slot  *)
(* or ended without being seen in time.  A wait that expired in the queue   *)
(* never resets an Engine that is not late (trait contract,                 *)
(* biometric_engine.rs 126-127).                                            *)
OverrunIsGenuine ==
  [][~overran /\ overran' =>
       \E r \in Call :
         /\ pc[r] = "inferring" /\ Expired(r) /\ runs[pair[r]] = 1
         /\ (pair[r] \in jobs /\ locked) \/ done[r]]_vars

(* Action: a call refused as not ready after opening can be retried with    *)
(* the very same pair: it is no longer processed, the Engine never saw it   *)
(* and the guard has room for it (matches.rs 192-196, host: 503, retry).    *)
BusyIsRetryable ==
  [][\A r \in Call : pc[r] = "queued" /\ outcome'[r] = "not_ready" =>
       pair[r] \notin processed' /\ runs'[pair[r]] = 0 /\ ~full']_vars

(* The replay contract: see AtMostOnce.  A pair that ran twice, or that ran *)
(* and was forgotten, is in none of the abstract states.                    *)
StatusOf(p) ==
  CASE runs[p] = 0 /\ p \notin processed -> "fresh"
    [] runs[p] = 0 /\ p \in processed -> "reserved"
    [] runs[p] = 1 /\ p \in processed -> "ran"
    [] OTHER -> "broken"

Contract == INSTANCE AtMostOnce WITH status <- [p \in Pair |-> StatusOf(p)]
RefinesAtMostOnce == Contract!Spec

-----------------------------------------------------------------------------
(* Liveness.                                                                *)

(* Every call ends, with an answer unless its caller left or the process    *)
(* exited, even if the Engine never returns: every wait of handler is       *)
(* bounded (matches.rs 20-86; biometric_engine.rs 169-189).                 *)
EveryCallEnds == \A r \in Call : pc[r] \notin Quiet ~> pc[r] \in Quiet

(* An overrun always ends in an exit, so the worker does not stay stuck     *)
(* behind an Engine that never returns (biometric_engine.rs 352-363).       *)
OverrunLeadsToExit == overran ~> ~up

-----------------------------------------------------------------------------
(* What the documentation says and the code does not keep.                  *)

(* state.rs 145: after an overrun "the enclave then serves nothing more".   *)
(* A call that passed the check before the overrun and waits in the queue   *)
(* starts its inference when the late one returns within the grace period.  *)
ServesNothingAfterOverrun == [][overran => runs' = runs \/ ~up']_vars

(* replay.rs 4-5: once full the enclave "refuses every request and reports  *)
(* not ready until it reboots".  A Busy release makes it ready again.       *)
FullUntilReboot == [][full /\ up' => full']_vars

(* matches.rs 81: "Every outcome after opening, errors included, leaves at  *)
(* a slot".  A response sealed after the last slot leaves at once.          *)
LeavesAtASlot == [][\A r \in Call : pc[r] # "sleeping" /\ pc'[r] = "sleeping" => leave'[r] >= age[r]]_vars

=============================================================================
