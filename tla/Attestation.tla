---------------------------- MODULE Attestation ----------------------------
(***************************************************************************)
(* The cached attestation documents of the boot keys and the tasks that    *)
(* refresh them (enclave/src/attestation.rs), with the supervision that    *)
(* ends the process (runtime.rs).  The Nitro module is external: a call    *)
(* signs at some moment, or fails, and returns within NsmMax.              *)
(*                                                                         *)
(* Time passes only while the process serves, and not past a timer that is *)
(* due or a task whose end was not yet noticed.                            *)
(***************************************************************************)
EXTENDS Integers, FiniteSets

CONSTANTS
  Key,          \* the attested boot keys: channel and signing key
  MaxAge,       \* MAX_CACHED_AGE
  MaxServable,  \* MAX_SERVABLE_AGE
  NsmMax        \* bound: the longest call of the Nitro module

ASSUME AttestationAssumption ==
  /\ MaxAge \in Nat \ {0} /\ MaxServable \in Nat \ {0} /\ NsmMax \in Nat
  /\ NsmMax < MaxServable

VARIABLES
  task,   \* what the refresh task of a key does
  timer,  \* for how long
  fresh,  \* age of the document signed in the current call
  age,    \* true age of the cached document
  since,  \* time since attested_at
  mode,   \* of the process
  job     \* an Engine job occupies the blocking pool

vars == <<task, timer, fresh, age, since, mode, job>>

\* What a reader can at worst be given.
Stalest == MaxServable + MaxAge + 2 * NsmMax

TypeOK ==
  /\ task \in [Key -> {"sleeping", "attesting", "signed", "stopped"}]
  /\ timer \in [Key -> Nat] /\ fresh \in [Key -> Nat]
  /\ age \in [Key -> Nat] /\ since \in [Key -> Nat]
  /\ mode \in {"serving", "draining", "down"}
  /\ job \in BOOLEAN

\* Both documents were signed before the tasks started.
Init ==
  /\ task = [k \in Key |-> "sleeping"]
  /\ timer = [k \in Key |-> 0] /\ fresh = [k \in Key |-> 0]
  /\ since \in [Key -> 0..NsmMax]
  /\ age \in {a \in [Key -> 0..2 * NsmMax] : \A k \in Key : a[k] - since[k] \in 0..NsmMax}
  /\ mode = "serving" /\ job = FALSE

-----------------------------------------------------------------------------
(* The refresh task of a key.                                               *)

Become(k, what) ==
  /\ mode = "serving"
  /\ task' = [task EXCEPT ![k] = what]
  /\ UNCHANGED <<mode, job>>

Wake(k) ==
  /\ task[k] = "sleeping" /\ timer[k] >= MaxAge
  /\ Become(k, "attesting")
  /\ timer' = [timer EXCEPT ![k] = 0]
  /\ UNCHANGED <<fresh, age, since>>

\* The module signs; its answer is still on the way.
Sign(k) ==
  /\ task[k] = "attesting"
  /\ Become(k, "signed")
  /\ fresh' = [fresh EXCEPT ![k] = 0]
  /\ UNCHANGED <<timer, age, since>>

Refreshed(k) ==
  /\ task[k] = "signed"
  /\ Become(k, "sleeping")
  /\ age' = [age EXCEPT ![k] = fresh[k]]
  /\ since' = [since EXCEPT ![k] = 0]
  /\ timer' = [timer EXCEPT ![k] = 0]
  /\ UNCHANGED fresh

\* Mutant: a failed attempt counts as an attestation.
RefreshFails_Stamps(k) ==
  /\ task[k] = "attesting"
  /\ Become(k, "sleeping")
  /\ timer' = [timer EXCEPT ![k] = 0]
  /\ since' = [since EXCEPT ![k] = 0]
  /\ UNCHANGED <<fresh, age>>

\* Mutant: the task is never given up.
RefreshFails_Forever(k) ==
  /\ task[k] = "attesting"
  /\ Become(k, "sleeping")
  /\ timer' = [timer EXCEPT ![k] = 0]
  /\ UNCHANGED <<fresh, age, since>>

\* Only a failure looks at the age, and only it gives up.
RefreshFails(k) ==
  /\ task[k] = "attesting"
  /\ IF since[k] >= MaxServable
       THEN Become(k, "stopped") /\ UNCHANGED timer
       ELSE Become(k, "sleeping") /\ timer' = [timer EXCEPT ![k] = 0]
  /\ UNCHANGED <<fresh, age, since>>

Panics(k) ==
  /\ task[k] = "attesting"
  /\ Become(k, "stopped")
  /\ UNCHANGED <<timer, fresh, age, since>>

-----------------------------------------------------------------------------
(* The process.                                                             *)

\* Serving ends and sleeping tasks are dropped; calls in the blocking pool
\* run on.
Drain ==
  /\ mode = "serving"
  /\ mode' = "draining"
  /\ task' = [k \in Key |-> IF task[k] = "sleeping" THEN "stopped" ELSE task[k]]
  /\ UNCHANGED <<timer, fresh, age, since, job>>

\* Mutant: only one of the two handles is supervised.
SelectEnds_OneHandle == (\A k \in Key : task[k] = "stopped") /\ Drain

\* One of the refresh tasks has ended.
SelectEnds == (\E k \in Key : task[k] = "stopped") /\ Drain

ServerStops == Drain

\* A call that nobody waits for any more returns.
CallEnds(k) ==
  /\ mode = "draining" /\ task[k] \in {"attesting", "signed"}
  /\ task' = [task EXCEPT ![k] = "stopped"]
  /\ UNCHANGED <<timer, fresh, age, since, mode, job>>

JobStarts ==
  /\ mode = "serving" /\ ~job
  /\ job' = TRUE
  /\ UNCHANGED <<task, timer, fresh, age, since, mode>>

JobEnds ==
  /\ mode # "down" /\ job
  /\ job' = FALSE
  /\ UNCHANGED <<task, timer, fresh, age, since, mode>>

\* Dropping the executor waits for the blocking pool.
Down ==
  /\ mode = "draining" /\ ~job
  /\ \A k \in Key : task[k] = "stopped"
  /\ mode' = "down"
  /\ UNCHANGED <<task, timer, fresh, age, since, job>>

Tick ==
  /\ mode = "serving"
  /\ \A k \in Key :
       CASE task[k] = "sleeping" -> timer[k] < MaxAge
         [] task[k] = "stopped" -> FALSE
         [] OTHER -> timer[k] < NsmMax
  /\ timer' = [k \in Key |-> timer[k] + 1]
  /\ fresh' = [k \in Key |-> IF task[k] = "signed" THEN fresh[k] + 1 ELSE 0]
  \* Bound: beyond what the properties tell apart, age and since stand.
  /\ age' = [k \in Key |-> IF age[k] > Stalest THEN age[k] ELSE age[k] + 1]
  /\ since' = [k \in Key |-> IF since[k] > Stalest THEN since[k] ELSE since[k] + 1]
  /\ UNCHANGED <<task, mode, job>>

Return(k) == Refreshed(k) \/ RefreshFails(k) \/ Panics(k)

Next ==
  \/ \E k \in Key : Wake(k) \/ Sign(k) \/ Return(k) \/ CallEnds(k)
  \/ SelectEnds \/ ServerStops \/ Down
  \/ JobStarts \/ JobEnds
  \/ Tick

Spec == Init /\ [][Next]_vars

\* Timers fire, the executor polls what ended, and calls into the blocking
\* pool return.
Fairness ==
  /\ \A k \in Key : WF_vars(Wake(k)) /\ WF_vars(Return(k)) /\ WF_vars(CallEnds(k))
  /\ WF_vars(SelectEnds) /\ WF_vars(JobEnds) /\ WF_vars(Down)
  /\ WF_vars(Tick)

FairSpec == Spec /\ Fairness

-----------------------------------------------------------------------------
(* Properties.                                                              *)

(* While the enclave serves, no reader is given a document older than       *)
(* MAX_SERVABLE_AGE plus one refresh period and two calls of the module,    *)
(* although a failed refresh only then looks at the age, and attested_at is *)
(* taken after the document was signed (attestation.rs 111-131).            *)
BoundedStaleness == mode = "serving" => \A k \in Key : age[k] < Stalest

(* A module that keeps failing on one key ends the service, even when the   *)
(* other key is refreshed (attestation.rs 120-131, runtime.rs 143-152).     *)
FailureEndsService ==
  \A k \in Key : <>[](task[k] # "signed") => <>(mode # "serving")

(* The end of one task takes the process down (attestation.rs 15-17,        *)
(* "the refresh task exits so main takes down the enclave"), once the calls *)
(* in the blocking pool have returned.                                      *)
StopTakesDown == \A k \in Key : task[k] = "stopped" ~> mode = "down"

=============================================================================
