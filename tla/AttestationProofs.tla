------------------------- MODULE AttestationProofs -------------------------
(***************************************************************************)
(* Theorems of Attestation, for every set of keys and all durations.       *)
(***************************************************************************)
EXTENDS Attestation, TLAPS

\* How long ago attested_at can be at each point of the task: a failure
\* below MAX_SERVABLE_AGE buys one more period and one more call.
Recent(k) ==
  /\ task[k] = "sleeping" => timer[k] <= MaxAge /\ since[k] < MaxServable + timer[k]
  /\ task[k] \in {"attesting", "signed"} =>
       timer[k] <= NsmMax /\ since[k] < MaxServable + MaxAge + timer[k]
  /\ task[k] = "stopped" => since[k] < MaxServable + MaxAge + NsmMax

\* attested_at is taken at most one call after the document was signed.
Stamped(k) ==
  /\ task[k] = "signed" => fresh[k] <= timer[k]
  /\ age[k] <= since[k] + NsmMax

IInv == TypeOK /\ (mode = "serving" => \A k \in Key : Recent(k) /\ Stamped(k))

(* The first documents are within the bounds.                               *)
LEMMA InitStep == Init => IInv
<1> SUFFICES ASSUME Init PROVE IInv
  OBVIOUS
<1>1. age \in [Key -> 0..2 * NsmMax] /\ since \in [Key -> 0..NsmMax]
  BY DEF Init
<1>2. age \in [Key -> Nat] /\ since \in [Key -> Nat]
  BY <1>1, AttestationAssumption
<1>3. TypeOK
  BY <1>2 DEF Init, TypeOK
<1>4. ASSUME NEW k \in Key PROVE Recent(k) /\ Stamped(k)
  <2>1. age[k] - since[k] \in 0..NsmMax /\ since[k] \in 0..NsmMax /\ age[k] \in Nat
    BY <1>2, AttestationAssumption DEF Init
  <2>2. task[k] = "sleeping" /\ timer[k] = 0
    BY DEF Init
  <2> QED  BY <2>1, <2>2, AttestationAssumption DEF Recent, Stamped
<1> QED  BY <1>3, <1>4 DEF IInv

(* Every step keeps the types.                                              *)
LEMMA TypeStep ==
  ASSUME TypeOK, [Next]_vars
  PROVE  TypeOK'
<1> USE AttestationAssumption DEF TypeOK, Become, Drain
<1>1. ASSUME NEW k \in Key, Wake(k) \/ Sign(k) \/ Return(k) \/ CallEnds(k) PROVE TypeOK'
  <2>1. CASE Wake(k)
    BY <2>1 DEF Wake
  <2>2. CASE Sign(k)
    BY <2>2 DEF Sign
  <2>3. CASE Refreshed(k)
    BY <2>3 DEF Refreshed
  <2>4. CASE RefreshFails(k)
    BY <2>4 DEF RefreshFails
  <2>5. CASE Panics(k)
    BY <2>5 DEF Panics
  <2>6. CASE CallEnds(k)
    BY <2>6 DEF CallEnds
  <2> QED  BY <1>1, <2>1, <2>2, <2>3, <2>4, <2>5, <2>6 DEF Return
<1>2. CASE SelectEnds \/ ServerStops
  BY <1>2 DEF SelectEnds, ServerStops
<1>3. CASE Down
  BY <1>3 DEF Down
<1>4. CASE JobStarts \/ JobEnds
  BY <1>4 DEF JobStarts, JobEnds
<1>5. CASE Tick
  BY <1>5 DEF Tick
<1>6. CASE UNCHANGED vars
  BY <1>6 DEF vars
<1> QED  BY <1>1, <1>2, <1>3, <1>4, <1>5, <1>6 DEF Next

(* Every step of a serving process keeps the bounds.                        *)
LEMMA AgeStep ==
  ASSUME IInv, [Next]_vars, mode' = "serving", NEW r \in Key
  PROVE  Recent(r)' /\ Stamped(r)'
<1> USE AttestationAssumption DEF TypeOK, Become, Recent, Stamped
<1>0. TypeOK /\ mode = "serving" /\ Recent(r) /\ Stamped(r)
  <2>1. mode = "serving"
    BY DEF IInv, Next, vars, Wake, Sign, Return, Refreshed, RefreshFails, Panics, CallEnds,
           SelectEnds, ServerStops, Drain, Down, JobStarts, JobEnds, Tick
  <2> QED  BY <2>1, Zenon DEF IInv
<1>1. ASSUME NEW k \in Key, Wake(k) \/ Sign(k) \/ Return(k) \/ CallEnds(k)
      PROVE  Recent(r)' /\ Stamped(r)'
  <2>1. CASE Wake(k)
    BY <1>0, <2>1 DEF Wake
  <2>2. CASE Sign(k)
    BY <1>0, <2>2 DEF Sign
  <2>3. CASE Refreshed(k)
    BY <1>0, <2>3 DEF Refreshed
  <2>4. CASE RefreshFails(k)
    BY <1>0, <2>4 DEF RefreshFails
  <2>5. CASE Panics(k)
    BY <1>0, <2>5 DEF Panics
  <2>6. CASE CallEnds(k)
    BY <1>0, <2>6 DEF CallEnds
  <2> QED  BY <1>1, <2>1, <2>2, <2>3, <2>4, <2>5, <2>6 DEF Return
<1>2. CASE SelectEnds \/ ServerStops
  BY <1>2 DEF SelectEnds, ServerStops, Drain
<1>3. CASE Down
  BY <1>3 DEF Down
<1>4. CASE JobStarts \/ JobEnds
  BY <1>0, <1>4 DEF JobStarts, JobEnds
<1>5. CASE Tick
  BY <1>0, <1>5 DEF Tick, Stalest
<1>6. CASE UNCHANGED vars
  BY <1>0, <1>6 DEF vars
<1> QED  BY <1>1, <1>2, <1>3, <1>4, <1>5, <1>6 DEF Next

(* The inductive invariant: the age of each cached document stays within    *)
(* what the phase of its refresh task allows.                               *)
THEOREM Invariance == Spec => []IInv
<1>1. IInv /\ [Next]_vars => IInv'
  <2> SUFFICES ASSUME IInv, [Next]_vars PROVE IInv'
    OBVIOUS
  <2>1. TypeOK'
    BY TypeStep DEF IInv
  <2>2. (mode = "serving")' => \A k \in Key : (Recent(k) /\ Stamped(k))'
    BY AgeStep
  <2> QED  BY <2>1, <2>2 DEF IInv
<1> QED  BY <1>1, InitStep, PTL DEF Spec

(* The variables of the refresh keep their types.                           *)
THEOREM TypeCorrect == Spec => []TypeOK
<1>1. IInv => TypeOK
  BY DEF IInv
<1> QED  BY <1>1, Invariance, PTL

(* No document served is older than one servable age, one refresh period    *)
(* and two calls of the module (attestation.rs 105-131).                    *)
THEOREM Fresh == Spec => []BoundedStaleness
<1>1. IInv => BoundedStaleness
  <2> SUFFICES ASSUME IInv, mode = "serving", NEW k \in Key PROVE age[k] < Stalest
    BY DEF BoundedStaleness
  <2>1. TypeOK /\ Recent(k) /\ Stamped(k)
    BY DEF IInv
  <2>2. /\ task[k] \in {"sleeping", "attesting", "signed", "stopped"}
        /\ timer[k] \in Nat /\ age[k] \in Nat /\ since[k] \in Nat
    BY <2>1 DEF TypeOK
  <2> QED  BY <2>1, <2>2, AttestationAssumption DEF Recent, Stamped, Stalest
<1> QED  BY <1>1, Invariance, PTL

=============================================================================
