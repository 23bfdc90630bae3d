------------------------- MODULE EnclaveMatchProofs -------------------------
(***************************************************************************)
(* Theorems of EnclaveMatch, for every set of calls and pairs, every       *)
(* release and every limit.                                                *)
(***************************************************************************)
EXTENDS EnclaveMatch, FiniteSetTheorems, WellFoundedInduction, TLAPS

-----------------------------------------------------------------------------
(* Slots: the least and the greatest element of a set of times.             *)

(* A set of natural numbers that is not empty has a least element.          *)
LEMMA MinNat ==
  ASSUME NEW S \in SUBSET Nat, S # {}
  PROVE  Min(S) \in S /\ \A t \in S : Min(S) <= t
<1>1. \E x \in S : \A y \in S : <<y, x>> \notin OpToRel(<, Nat)
  BY NatLessThanWellFounded, WFMin
<1>2. PICK x \in S : \A y \in S : <<y, x>> \notin OpToRel(<, Nat)
  BY <1>1
<1>3. \A y \in S : x <= y
  <2> TAKE y \in S
  <2>1. OpToRel(<, Nat) = {ss \in Nat \X Nat : ss[1] < ss[2]}
    BY DEF OpToRel
  <2>2. ~ (y < x)
    BY <1>2, <2>1
  <2> QED  BY <2>2
<1>4. QED  BY <1>3 DEF Min

(* A set of times before the horizon that is not empty has a greatest one.  *)
LEMMA MaxBelow ==
  ASSUME NEW h \in Nat, NEW S \in SUBSET (0..h), S # {}
  PROVE  Max(S) \in S /\ \A t \in S : Max(S) >= t
<1> DEFINE D == {h - s : s \in S}
<1>1. D \in SUBSET Nat /\ D # {}
  <2>1. \A s \in S : h - s \in Nat
    OBVIOUS
  <2>2. PICK s \in S : TRUE
    OBVIOUS
  <2>3. h - s \in D
    OBVIOUS
  <2> QED  BY <2>1, <2>3
<1>2. Min(D) \in D /\ \A t \in D : Min(D) <= t
  BY <1>1, MinNat
<1>3. PICK x \in S : Min(D) = h - x
  BY <1>2
<1>4. \A y \in S : x >= y
  <2> TAKE y \in S
  <2>1. h - x <= h - y
    BY <1>2, <1>3
  <2> QED  BY <2>1
<1>5. QED  BY <1>4 DEF Max

(* The slots of a pipeline, and of a rejection whose pipeline is unknown,    *)
(* are times below the horizon, at least one of them.                       *)
LEMMA SlotsBelow ==
  /\ \A pl \in Pipeline : ResponseSlots[pl] \in SUBSET (0..Horizon) /\ ResponseSlots[pl] # {}
  /\ Unresolved \in SUBSET (0..Horizon) /\ Unresolved # {}
<1>1. \A pl \in Pipeline : ResponseSlots[pl] \in SUBSET (0..Horizon) /\ ResponseSlots[pl] # {}
  <2> TAKE pl \in Pipeline
  <2>1. ResponseSlots[pl] \in SUBSET Nat /\ ResponseSlots[pl] # {}
    BY MatchAssumption
  <2>2. \A s \in ResponseSlots[pl] : s \in AllSlots
    BY DEF AllSlots
  <2>3. \A s \in ResponseSlots[pl] : s \in 0..Horizon
    BY <2>1, <2>2, MatchAssumption
  <2> QED  BY <2>1, <2>3
<1> DEFINE F == {Min(ResponseSlots[pl]) : pl \in Pipeline}
<1>2. F \in SUBSET (0..Horizon) /\ F # {}
  <2>1. \A pl \in Pipeline : Min(ResponseSlots[pl]) \in 0..Horizon
    <3> TAKE pl \in Pipeline
    <3>1. ResponseSlots[pl] \in SUBSET Nat /\ ResponseSlots[pl] # {}
      BY MatchAssumption
    <3>2. Min(ResponseSlots[pl]) \in ResponseSlots[pl]
      BY <3>1, MinNat
    <3> QED  BY <1>1, <3>2
  <2> QED  BY <2>1, MatchAssumption
<1>3. Max(F) \in 0..Horizon
  BY <1>2, MaxBelow, MatchAssumption
<1> QED  BY <1>1, <1>3 DEF Unresolved, LatestFirstSlot

(* release_at with its fallback picks one of the slots; never one that has  *)
(* passed while a later one is left (matches.rs 83).                        *)
LEMMA ReleaseAtSlot ==
  ASSUME NEW S \in SUBSET (0..Horizon), S # {}, NEW e \in Nat
  PROVE  /\ ReleaseAt(S, e) \in S
         /\ e <= LastSlot(S) => ReleaseAt(S, e) >= e
<1> DEFINE open == {s \in S : s >= e}
<1>1. Max(S) \in S /\ \A t \in S : Max(S) >= t
  BY MaxBelow, MatchAssumption
<1>2. open \in SUBSET Nat
  <2>1. Horizon \in Nat
    BY MatchAssumption
  <2>2. S \subseteq Nat
    BY <2>1
  <2> QED  BY <2>2
<1>3. open # {} => Min(open) \in open
  BY <1>2, MinNat
<1>4. e <= Max(S) => open # {}
  BY <1>1, MatchAssumption
<1> QED  BY <1>1, <1>3, <1>4 DEF ReleaseAt, LastSlot

-----------------------------------------------------------------------------
(* The replay guard.                                                        *)

GuardInv == GuardTypeOK /\ FullIffAtLimit

(* reserve keeps the guard consistent, accepts only a fresh pair and then   *)
(* adds exactly that pair; release removes exactly its own.                 *)
LEMMA ReserveStep ==
  ASSUME GuardInv, NEW p \in Pair, Reserve(p)
  PROVE  /\ GuardInv'
         /\ ReserveResult(p) = "ok" => p \notin processed /\ processed' = processed \union {p}
         /\ ReserveResult(p) # "ok" => processed' = processed
<1>1. Cardinality(processed) \in Nat /\ IsFiniteSet(processed)
  BY FS_CardinalityType DEF GuardInv, GuardTypeOK
<1>2. /\ IsFiniteSet(processed \union {p})
      /\ Cardinality(processed \union {p})
           = IF p \in processed THEN Cardinality(processed) ELSE Cardinality(processed) + 1
  BY <1>1, FS_AddElement
<1>3. CASE ReserveResult(p) = "ok"
  <2>1. p \notin processed /\ ~AtLimit(processed) /\ processed' = processed \union {p}
    BY <1>3 DEF Reserve, ReserveResult
  <2>2. full' = (full \/ AtLimit(processed'))
    BY <1>3 DEF Reserve
  <2>3. Cardinality(processed') <= Limit
    BY <1>1, <1>2, <2>1, ReplayAssumption DEF AtLimit
  <2>4. full' \in BOOLEAN /\ (full' <=> AtLimit(processed'))
    BY <2>1, <2>2, Zenon DEF GuardInv, GuardTypeOK, FullIffAtLimit
  <2>5. processed' \subseteq Pair /\ IsFiniteSet(processed')
    BY <1>2, <2>1 DEF GuardInv, GuardTypeOK
  <2> QED  BY <1>3, <2>1, <2>3, <2>4, <2>5 DEF GuardInv, GuardTypeOK, FullIffAtLimit
<1>4. CASE ReserveResult(p) = "replayed"
  <2>1. processed' = processed /\ full' = full
    BY <1>4 DEF Reserve
  <2> QED  BY <1>4, <2>1, Zenon DEF GuardInv, GuardTypeOK, FullIffAtLimit, AtLimit
<1>5. CASE ReserveResult(p) = "internal"
  <2>1. processed' = processed /\ AtLimit(processed)
    BY <1>5 DEF Reserve, ReserveResult
  <2>2. full' = (full \/ AtLimit(processed'))
    BY <1>5 DEF Reserve
  <2> QED  BY <1>5, <2>1, <2>2, Zenon DEF GuardInv, GuardTypeOK, FullIffAtLimit, AtLimit
<1> QED  BY <1>3, <1>4, <1>5 DEF ReserveResult

(* release removes the pair it is given and keeps the flag exact.           *)
LEMMA ReleaseStep ==
  ASSUME GuardInv, NEW p, ReleasePair(p)
  PROVE  GuardInv' /\ processed' = processed \ {p}
<1>1. Cardinality(processed) \in Nat /\ IsFiniteSet(processed)
  BY FS_CardinalityType DEF GuardInv, GuardTypeOK
<1>2. /\ IsFiniteSet(processed \ {p})
      /\ Cardinality(processed \ {p})
           = IF p \in processed THEN Cardinality(processed) - 1 ELSE Cardinality(processed)
  BY <1>1, FS_RemoveElement
<1>3. Cardinality(processed \ {p}) \in Nat
  BY <1>2, FS_CardinalityType
<1>4. processed' = processed \ {p} /\ full' = AtLimit(processed')
  BY DEF ReleasePair
<1>5. Cardinality(processed') <= Limit
  <2>1. Cardinality(processed) <= Limit
    BY Zenon DEF GuardInv, FullIffAtLimit
  <2> QED  BY <1>1, <1>2, <1>3, <1>4, <2>1, ReplayAssumption
<1>6. processed' \subseteq Pair /\ IsFiniteSet(processed')
  BY <1>2, <1>4 DEF GuardInv, GuardTypeOK
<1>7. full' \in BOOLEAN /\ (full' <=> AtLimit(processed'))
  <2>1. CASE AtLimit(processed')
    BY <1>4, <2>1, SMT
  <2>2. CASE ~AtLimit(processed')
    <3>1. Cardinality(processed') \in Nat /\ Limit \in Nat
      BY <1>3, <1>4, ReplayAssumption
    <3>2. (Cardinality(processed') >= Limit) = FALSE
      BY <2>2, <3>1 DEF AtLimit
    <3>3. full' = FALSE
      BY <1>4, <3>2, Zenon DEF AtLimit
    <3> QED  BY <2>2, <3>3
  <2> QED  BY <2>1, <2>2
<1> QED  BY <1>4, <1>5, <1>6, <1>7, Zenon DEF GuardInv, GuardTypeOK, FullIffAtLimit

(* A guard that a new boot starts with is consistent.                       *)
LEMMA GuardEmptied == processed' = {} /\ full' = FALSE => GuardInv'
<1> SUFFICES ASSUME processed' = {}, full' = FALSE PROVE GuardInv'
  OBVIOUS
<1>1. IsFiniteSet(processed') /\ Cardinality(processed') = 0
  BY FS_EmptySet
<1>2. ~AtLimit(processed') /\ Cardinality(processed') <= Limit
  BY <1>1, ReplayAssumption DEF AtLimit
<1>3. GuardTypeOK'
  BY <1>1 DEF GuardTypeOK
<1> QED  BY <1>2, <1>3, Zenon DEF GuardInv, FullIffAtLimit

(* The empty guard with the flag unset is consistent.                       *)
LEMMA GuardStart == processed = {} /\ full = FALSE => GuardInv
<1> SUFFICES ASSUME processed = {}, full = FALSE PROVE GuardInv
  OBVIOUS
<1>1. IsFiniteSet(processed) /\ Cardinality(processed) = 0
  BY FS_EmptySet
<1>2. ~AtLimit(processed) /\ Cardinality(processed) <= Limit
  BY <1>1, ReplayAssumption DEF AtLimit
<1>3. GuardTypeOK
  BY <1>1 DEF GuardTypeOK
<1> QED  BY <1>2, <1>3, Zenon DEF GuardInv, FullIffAtLimit

-----------------------------------------------------------------------------
(* Type correctness.                                                        *)

Slotted == {"queued", "inferring", "signing", "sealing", "sleeping"}

\* A call past prepare has slots to wait for; one past reserve has its pair.
CarriesInv ==
  \A r \in Call : /\ slots[r] \in SUBSET (0..Horizon)
                  /\ pc[r] \in Slotted => slots[r] # {}
                  /\ pc[r] \in {"queued", "inferring", "signing"} => pair[r] \in Pair

LocalInv == LocalTypeOK /\ CarriesInv

(* A call that starts to wait for a slot waits for a time it can reach.     *)
LEMMA AwaitSlotType ==
  ASSUME LocalInv, NEW r \in Call, slots[r] # {}, NEW o \in Outcome, AwaitSlot(r, slots[r], o)
  PROVE  /\ pc' \in [Call -> PC] /\ pc' = [pc EXCEPT ![r] = "sleeping"]
         /\ outcome' \in [Call -> Outcome] /\ leave' \in [Call -> Nat]
<1>1. slots[r] \in SUBSET (0..Horizon) /\ age[r] \in Nat /\ Horizon \in Nat
  BY MatchAssumption DEF LocalInv, LocalTypeOK, CarriesInv
<1>2. ReleaseAt(slots[r], age[r]) \in Nat
  BY <1>1, ReleaseAtSlot
<1> QED  BY <1>2 DEF AwaitSlot, LocalInv, LocalTypeOK, PC

(* A clock that moves stays within its bound.                               *)
LEMMA LaterType == \A t \in 0..Horizon : Later(t) \in 0..Horizon
<1>1. Horizon \in Nat
  BY MatchAssumption
<1> QED  BY <1>1 DEF Later

(* A clock that starts is within its bound.                                 *)
LEMMA ClockStart == 0 \in 0..Horizon
  BY MatchAssumption

(* Every step keeps the types of the process, the worker and the calls.     *)
LEMMA LocalStep ==
  ASSUME LocalInv, [Next]_vars
  PROVE  LocalInv'
<1> USE DEF LocalInv, LocalTypeOK, CarriesInv, PC, Quiet, Slotted, Outcome
<1>1. ASSUME NEW r \in Call, Arrive(r) PROVE LocalInv'
  BY <1>1, MatchAssumption DEF Arrive, bootVars, workerVars
<1>2. ASSUME NEW r \in Call, OpenFails(r) PROVE LocalInv'
  BY <1>2 DEF OpenFails, bootVars, workerVars, clockVars
<1>3. ASSUME NEW r \in Call, NEW S \in SUBSET (0..Horizon), S # {}, Reject(r, S) PROVE LocalInv'
  BY <1>3, MatchAssumption DEF Reject, ToSeal, bootVars, workerVars, clockVars
<1>4. ASSUME NEW r \in Call, NEW pl \in Pipeline, NEW p \in Pair, Prepare(r, pl, p) PROVE LocalInv'
  BY <1>4, SlotsBelow, MatchAssumption DEF Prepare, bootVars, workerVars, clockVars
<1>5. ASSUME NEW r \in Call, AbandonedPrepare(r) PROVE LocalInv'
  BY <1>5 DEF AbandonedPrepare, bootVars, workerVars, clockVars
<1>6. ASSUME NEW r \in Call, pc[r] = "queued", Busy(r) PROVE LocalInv'
  <2>1. AwaitSlot(r, slots[r], "not_ready") /\ slots[r] # {}
    BY <1>6 DEF Busy
  <2> QED  BY <1>6, <2>1, AwaitSlotType DEF Busy, bootVars, workerVars, clockVars
<1>7. ASSUME NEW r \in Call, StartInference(r) PROVE LocalInv'
  BY <1>7 DEF StartInference, bootVars, clockVars
<1>8. ASSUME NEW p \in Pair, EngineFinishes(p) PROVE LocalInv'
  BY <1>8 DEF EngineFinishes, bootVars, clockVars
<1>9. ASSUME NEW r \in Call, TakeResult(r) PROVE LocalInv'
  <2>1. CASE AwaitSlot(r, slots[r], "internal")
    BY <1>9, <2>1, AwaitSlotType DEF TakeResult, bootVars, workerVars, clockVars
  <2>2. CASE ~AwaitSlot(r, slots[r], "internal")
    BY <1>9, <2>2 DEF TakeResult, ToSeal, bootVars, workerVars, clockVars
  <2> QED  BY <2>1, <2>2
<1>10. ASSUME NEW r \in Call, EngineTimeout(r) PROVE LocalInv'
  BY <1>10 DEF EngineTimeout, ToSeal, workerVars, clockVars
<1>11. ASSUME NEW r \in Call, Sign(r) PROVE LocalInv'
  <2>1. CASE AwaitSlot(r, slots[r], "internal")
    BY <1>11, <2>1, AwaitSlotType DEF Sign, bootVars, workerVars, clockVars
  <2>2. CASE ToSeal(r, "success")
    BY <1>11, <2>2 DEF Sign, ToSeal, bootVars, workerVars, clockVars
  <2> QED  BY <1>11, <2>1, <2>2 DEF Sign
<1>12. ASSUME NEW r \in Call, Seal(r) PROVE LocalInv'
  <2>1. PICK o \in Outcome : AwaitSlot(r, slots[r], o)
    BY <1>12 DEF Seal
  <2> QED  BY <1>12, <2>1, AwaitSlotType DEF Seal, bootVars, workerVars, clockVars
<1>13. ASSUME NEW r \in Call, Answer(r) PROVE LocalInv'
  BY <1>13 DEF Answer, bootVars, workerVars, clockVars
<1>14. ASSUME NEW r \in Call, Disconnect(r) PROVE LocalInv'
  BY <1>14, MatchAssumption DEF Disconnect, bootVars, workerVars
<1>15. CASE Tick
  <2>1. age' \in [Call -> 0..Horizon]
    BY <1>15, LaterType DEF Tick
  <2>2. waited' \in [Call -> 0..Horizon]
    BY <1>15, LaterType DEF Tick
  <2>3. grace' \in 0..Horizon
    BY <1>15, LaterType DEF Tick
  <2> QED  BY <1>15, <2>1, <2>2, <2>3 DEF Tick, workerVars
<1>16. ASSUME Exit PROVE LocalInv'
  BY <1>16, ClockStart DEF Exit
<1>17. CASE LoadRelease \/ Boot
  BY <1>17 DEF LoadRelease, Boot, workerVars, callVars
<1>18. CASE UNCHANGED vars
  BY <1>18 DEF vars, bootVars, workerVars, callVars
<1>19. QED
  <2>1. ASSUME NEW r \in Call, Progress(r) PROVE LocalInv'
    <3>1. ASSUME Opened(r) PROVE LocalInv'
      BY <1>2, <1>3, <1>4, <3>1, SlotsBelow
         DEF Opened, RejectUnresolved, RejectResolved, ReserveFails
    <3>2. ASSUME LeaveQueue(r) PROVE LocalInv'
      BY <1>6, <1>7, <3>2 DEF LeaveQueue, ExpiredWithGuard, QueueExpires
    <3> QED  BY <1>9, <1>10, <1>11, <1>12, <1>13, <2>1, <3>1, <3>2 DEF Progress
  <2> HIDE DEF LocalInv
  <2> QED
    BY <1>1, <1>5, <1>8, <1>14, <1>15, <1>16, <1>17, <1>18, <2>1
       DEF Next, Crash, ExitAfterOverrun
(* Every step keeps the guard consistent, because it only changes it        *)
(* through reserve, through release, or by ending the process.              *)
LEMMA GuardStep ==
  ASSUME LocalInv, GuardInv, [Next]_vars
  PROVE  GuardInv'
<1>1. ASSUME UNCHANGED guardVars PROVE GuardInv'
  BY <1>1 DEF guardVars, GuardInv, GuardTypeOK, FullIffAtLimit, AtLimit
<1>2. ASSUME NEW p \in Pair, Reserve(p) PROVE GuardInv'
  BY <1>2, ReserveStep
<1>3. ASSUME NEW p, ReleasePair(p) PROVE GuardInv'
  BY <1>3, ReleaseStep
<1>4. ASSUME Exit PROVE GuardInv'
  <2>1. processed' = {} /\ full' = FALSE
    BY <1>4 DEF Exit
  <2> QED  BY <2>1, GuardEmptied
<1>5. QED
  BY <1>1, <1>2, <1>3, <1>4
     DEF Next, vars, Arrive, Progress, Opened, OpenFails, RejectUnresolved, RejectResolved,
         ReserveFails, Prepare, AbandonedPrepare, LeaveQueue, StartInference, ExpiredWithGuard,
         QueueExpires, Busy, EngineFinishes, TakeResult, EngineTimeout, Sign, Seal, Answer,
         Disconnect, Tick, Crash, ExitAfterOverrun, LoadRelease, Boot

-----------------------------------------------------------------------------
(* The inductive invariant behind replay rejection and worker exclusion.    *)

\* The calls whose pair the Engine has worked on for them.
Ran(r) == pc[r] \in {"inferring", "signing"} \/ outcome[r] = "success"

\* The Engine saw a pair at most once and what it saw stays reserved.
RunsInv == \A p \in Pair : runs[p] = 0 \/ (runs[p] = 1 /\ p \in processed)

\* A call that was refused as busy is on its way out, and only such a call
\* carries a pair that is no longer reserved.
RefusedInv ==
  \A r \in Call : /\ pc[r] = "opening" => outcome[r] = "none"
                  /\ outcome[r] = "not_ready" => pc[r] \in {"sleeping", "answered"}
                  /\ pair[r] # NoPair => outcome[r] = "not_ready" \/ pair[r] \in processed

\* A call that ran did so once, and no other call ran with its pair.
RanInv ==
  \A r \in Call : Ran(r) =>
    /\ pair[r] \in Pair /\ runs[pair[r]] = 1
    /\ \A q \in Call \ {r} : Ran(q) => pair[q] # pair[r]

\* A call that waits for the Engine has its inference on the worker.
JobInv ==
  /\ WorkerExclusive
  /\ \A r \in Call : pc[r] = "inferring" => pair[r] \in jobs \/ done[r]

LedgerInv == RunsInv /\ RefusedInv /\ ReservationOwned /\ RanInv

IInv == LocalInv /\ GuardInv /\ LedgerInv /\ JobInv

(* Every step keeps the worker exclusive: only the end of an inference, or  *)
(* of the process, frees the mutex.                                         *)
LEMMA JobStep ==
  ASSUME LocalInv, JobInv, [Next]_vars
  PROVE  JobInv'
<1> USE DEF JobInv, WorkerExclusive, LocalInv, LocalTypeOK, CarriesInv, PC, Quiet, ToSeal, AwaitSlot
<1>1. ASSUME NEW r \in Call, Arrive(r) PROVE JobInv'
  BY <1>1 DEF Arrive, workerVars
<1>2. ASSUME NEW r \in Call, Opened(r) PROVE JobInv'
  BY <1>2 DEF Opened, OpenFails, RejectUnresolved, RejectResolved, ReserveFails, Reject, Prepare, workerVars
<1>3. ASSUME NEW r \in Call, AbandonedPrepare(r) PROVE JobInv'
  BY <1>3 DEF AbandonedPrepare, workerVars
<1>4. ASSUME NEW r \in Call, StartInference(r) PROVE JobInv'
  BY <1>4 DEF StartInference
<1>5. ASSUME NEW r \in Call, pc[r] = "queued", Busy(r) PROVE JobInv'
  BY <1>5 DEF Busy, workerVars
<1>6. ASSUME NEW p \in Pair, EngineFinishes(p) PROVE JobInv'
  BY <1>6 DEF EngineFinishes
<1>7. ASSUME NEW r \in Call, TakeResult(r) \/ EngineTimeout(r) PROVE JobInv'
  BY <1>7 DEF TakeResult, EngineTimeout, workerVars
<1>8. ASSUME NEW r \in Call, Sign(r) \/ Seal(r) \/ Answer(r) PROVE JobInv'
  BY <1>8 DEF Sign, Seal, Answer, workerVars
<1>9. ASSUME NEW r \in Call, Disconnect(r) PROVE JobInv'
  BY <1>9 DEF Disconnect, workerVars
<1>10. ASSUME Exit PROVE JobInv'
  BY <1>10 DEF Exit
<1>11. CASE Tick \/ LoadRelease \/ Boot \/ UNCHANGED vars
  BY <1>11 DEF Tick, LoadRelease, Boot, vars, workerVars, callVars
<1>12. QED
  <2> HIDE DEF JobInv
  <2>1. ASSUME NEW r \in Call, Progress(r) PROVE JobInv'
    BY <1>2, <1>4, <1>5, <1>7, <1>8, <2>1 DEF Progress, LeaveQueue, ExpiredWithGuard, QueueExpires
  <2> QED
    BY <1>1, <1>3, <1>6, <1>9, <1>10, <1>11, <2>1 DEF Next, Crash, ExitAfterOverrun

(* Every step keeps the ledger of reservations and inferences: a pair is    *)
(* given back only by a call that waits, and such a call never ran.         *)
LEMMA LedgerStep ==
  ASSUME LocalInv, GuardInv, LedgerInv, [Next]_vars
  PROVE  LedgerInv'
<1> USE DEF LedgerInv, RunsInv, RefusedInv, ReservationOwned, RanInv, Ran,
            LocalInv, LocalTypeOK, CarriesInv, PC, Quiet
<1>1. ASSUME NEW r \in Call, Arrive(r) PROVE LedgerInv'
  BY <1>1, MatchAssumption DEF Arrive, workerVars, guardVars
<1>2. ASSUME NEW r \in Call, OpenFails(r) PROVE LedgerInv'
  BY <1>2 DEF OpenFails, workerVars, guardVars
<1>3. ASSUME NEW r \in Call, NEW S, Reject(r, S), processed' = processed PROVE LedgerInv'
  BY <1>3 DEF Reject, ToSeal, workerVars
<1>4. ASSUME NEW r \in Call, NEW pl \in Pipeline, NEW p \in Pair, Prepare(r, pl, p) PROVE LedgerInv'
  <2>1. p \notin processed /\ processed' = processed \union {p}
    BY <1>4, ReserveStep DEF Prepare
  <2>2. p # NoPair /\ runs[p] = 0 /\ \A q \in Call \ {r} : pair[q] = p => outcome[q] = "not_ready"
    BY <2>1, MatchAssumption
  <2>3. \A q \in Call \ {r} : pair'[q] = pair[q] /\ pc'[q] = pc[q]
    BY <1>4 DEF Prepare
  <2>4. /\ pc[r] = "opening" /\ outcome[r] = "none" /\ pair'[r] = p /\ pc'[r] = "queued"
        /\ outcome' = outcome /\ runs' = runs
    BY <1>4 DEF Prepare, workerVars
  <2>5. RunsInv' /\ RefusedInv'
    BY <2>1, <2>2, <2>3, <2>4
  <2>6. ReservationOwned'
    BY <2>1, <2>2, <2>3, <2>4
  <2>7. RanInv'
    BY <2>1, <2>2, <2>3, <2>4
  <2> QED  BY <2>5, <2>6, <2>7
<1>5. ASSUME NEW r \in Call, AbandonedPrepare(r) PROVE LedgerInv'
  <2>1. processed \subseteq processed'
    BY <1>5, ReserveStep DEF AbandonedPrepare, guardVars
  <2> QED  BY <1>5, <2>1 DEF AbandonedPrepare, workerVars
<1>6. ASSUME NEW r \in Call, pc[r] = "queued", Busy(r) PROVE LedgerInv'
  <2>1. processed' = processed \ {pair[r]}
    BY <1>6, ReleaseStep DEF Busy
  <2> QED  BY <1>6, <2>1 DEF Busy, AwaitSlot, workerVars
<1>7. ASSUME NEW r \in Call, StartInference(r) PROVE LedgerInv'
  BY <1>7 DEF StartInference, guardVars
<1>8. ASSUME NEW p \in Pair, EngineFinishes(p) PROVE LedgerInv'
  BY <1>8 DEF EngineFinishes, guardVars
<1>9. ASSUME NEW r \in Call, TakeResult(r) \/ EngineTimeout(r) PROVE LedgerInv'
  BY <1>9 DEF TakeResult, EngineTimeout, ToSeal, AwaitSlot, workerVars, guardVars
<1>10. ASSUME NEW r \in Call, Sign(r) \/ Seal(r) \/ Answer(r) PROVE LedgerInv'
  BY <1>10 DEF Sign, Seal, Answer, ToSeal, AwaitSlot, workerVars, guardVars
<1>11. ASSUME NEW r \in Call, Disconnect(r) PROVE LedgerInv'
  BY <1>11, MatchAssumption DEF Disconnect, workerVars, guardVars
<1>12. ASSUME Exit PROVE LedgerInv'
  BY <1>12, MatchAssumption DEF Exit
<1>13. CASE Tick \/ LoadRelease \/ Boot \/ UNCHANGED vars
  BY <1>13 DEF Tick, LoadRelease, Boot, vars, workerVars, callVars, guardVars
<1>14. QED
  <2> HIDE DEF LedgerInv, LocalInv
  <2>1. ASSUME NEW r \in Call, Opened(r) PROVE LedgerInv'
    <3>1. ASSUME NEW pl \in Pipeline, NEW p \in Pair, ReserveFails(r, pl, p) PROVE LedgerInv'
      BY <1>3, <3>1, ReserveStep DEF ReserveFails
    <3> QED  BY <1>2, <1>3, <1>4, <2>1, <3>1 DEF Opened, RejectUnresolved, RejectResolved, guardVars
  <2>2. ASSUME NEW r \in Call, Progress(r) PROVE LedgerInv'
    BY <1>6, <1>7, <1>9, <1>10, <2>1, <2>2 DEF Progress, LeaveQueue, ExpiredWithGuard, QueueExpires
  <2> QED
    BY <1>1, <1>5, <1>8, <1>11, <1>12, <1>13, <2>2 DEF Next, Crash, ExitAfterOverrun

(* The inductive invariant holds in the initial state.                      *)
LEMMA Start == Init => IInv
<1> SUFFICES ASSUME Init PROVE IInv
  OBVIOUS
<1>1. LocalInv
  BY ClockStart DEF Init, LocalInv, LocalTypeOK, CarriesInv, PC, Quiet, Slotted, Outcome
<1>2. GuardInv
  BY GuardStart DEF Init, GuardInit
<1>3. LedgerInv
  BY MatchAssumption DEF Init, LedgerInv, RunsInv, RefusedInv, ReservationOwned, RanInv, Ran
<1>4. JobInv
  BY DEF Init, JobInv, WorkerExclusive
<1> QED  BY <1>1, <1>2, <1>3, <1>4 DEF IInv

(* The inductive invariant holds in every reachable state.                  *)
THEOREM Invariance == Spec => []IInv
<1>1. IInv /\ [Next]_vars => IInv'
  BY LocalStep, GuardStep, LedgerStep, JobStep DEF IInv
<1> QED  BY Start, <1>1, PTL DEF Spec

-----------------------------------------------------------------------------
(* The theorems.                                                            *)

(* Every variable keeps its type.                                           *)
THEOREM TypeCorrect == Spec => []TypeOK
<1>1. IInv => TypeOK
  BY DEF IInv, LocalInv, GuardInv, TypeOK
<1> QED  BY <1>1, Invariance, PTL

(* The flag behind readiness always agrees with the set of processed pairs, *)
(* and the set never outgrows its limit.                                    *)
THEOREM GuardConsistent == Spec => []FullIffAtLimit
<1>1. IInv => FullIffAtLimit
  BY DEF IInv, GuardInv
<1> QED  BY <1>1, Invariance, PTL

(* Two inferences never share the worker, whatever times out or disconnects. *)
THEOREM Exclusive == Spec => []WorkerExclusive
<1>1. IInv => WorkerExclusive
  BY DEF IInv, JobInv
<1> QED  BY <1>1, Invariance, PTL

(* A waiting call owns its reservation, so release never frees another's.   *)
THEOREM OwnReservation == Spec => []ReservationOwned
<1>1. IInv => ReservationOwned
  BY DEF IInv, LedgerInv
<1> QED  BY <1>1, Invariance, PTL

(* At most one call in flight ends with a statement for a pair, and the     *)
(* Engine ran that pair exactly once.                                       *)
THEOREM OneStatement == Spec => []OneStatementPerPair
<1>1. IInv => OneStatementPerPair
  BY DEF IInv, LedgerInv, RanInv, Ran, RunsInv, OneStatementPerPair
<1> QED  BY <1>1, Invariance, PTL

\* The pairs whose inference this boot has started.
Inferred == {p \in Pair : runs[p] # 0}

BootIsBounded ==
  /\ \A p \in Inferred : runs[p] = 1
  /\ IsFiniteSet(Inferred) /\ Cardinality(Inferred) <= Limit
  /\ Cardinality(Inferred) = Limit => full /\ processed = Inferred

SpentBootIsDone == [][Cardinality(Inferred) = Limit /\ up' => full' /\ runs' = runs]_vars

(* What ran is reserved, so the limit of the set bounds what runs.          *)
LEMMA Bounded == IInv => BootIsBounded
<1>1. ASSUME IInv PROVE BootIsBounded
  <2>1. Inferred \subseteq processed /\ \A p \in Inferred : runs[p] = 1
    BY <1>1 DEF IInv, LedgerInv, RunsInv, Inferred
  <2>2. IsFiniteSet(processed) /\ Cardinality(processed) <= Limit /\ (full <=> Cardinality(processed) >= Limit)
    BY <1>1 DEF IInv, GuardInv, GuardTypeOK, FullIffAtLimit, AtLimit
  <2>3. /\ IsFiniteSet(Inferred) /\ Cardinality(Inferred) <= Cardinality(processed)
        /\ Cardinality(processed) = Cardinality(Inferred) => processed = Inferred
    BY <2>1, <2>2, FS_Subset
  <2>4. Cardinality(processed) \in Nat /\ Cardinality(Inferred) \in Nat /\ Limit \in Nat
    BY <2>2, <2>3, FS_CardinalityType, ReplayAssumption
  <2>5. Cardinality(Inferred) <= Limit
    BY <2>2, <2>3, <2>4
  <2>6. ASSUME Cardinality(Inferred) = Limit PROVE full /\ processed = Inferred
    <3>1. Cardinality(processed) = Limit
      BY <2>2, <2>3, <2>4, <2>6
    <3>2. Cardinality(processed) >= Limit
      BY <2>4, <3>1
    <3>3. processed = Inferred
      BY <2>3, <2>6, <3>1, Zenon
    <3> QED  BY <2>2, <3>2, <3>3, Zenon
  <2> QED  BY <2>1, <2>3, <2>5, <2>6, Zenon DEF BootIsBounded
<1> QED  BY <1>1

(* A boot runs at most Limit inferences, each for a pair of its own: no     *)
(* order of releases and overruns gets more out of the bounded set.  One    *)
(* that has run them all is full, each place taken by a pair that ran       *)
(* (replay.rs 17-18, 63-84).                                                *)
THEOREM BootRunsAtMostLimit == Spec => []BootIsBounded
<1> QED  BY Bounded, Invariance, PTL

(* Action: full until the reboot, which replay.rs 4-5 says of every full    *)
(* set, is true of a boot that has run Limit inferences: nothing releases a *)
(* place in it and no further inference starts (replay.rs 74-84).           *)
THEOREM SpentBootStaysFull == Spec => SpentBootIsDone
<1> DEFINE Done == Cardinality(Inferred) = Limit /\ up' => full' /\ runs' = runs
<1>1. ASSUME IInv, Next, Cardinality(Inferred) = Limit, up' PROVE runs' = runs
  <2>1. \A r \in Call : ~StartInference(r)
    <3> SUFFICES ASSUME NEW r \in Call, StartInference(r) PROVE FALSE
      OBVIOUS
    <3>1. pair[r] \in processed /\ runs[pair[r]] = 0
      BY <1>1 DEF StartInference, IInv, LedgerInv, ReservationOwned
    <3>2. processed = Inferred
      BY <1>1, Bounded DEF BootIsBounded
    <3> QED  BY <3>1, <3>2 DEF Inferred
  <2>2. ASSUME NEW r \in Call, Opened(r) \/ LeaveQueue(r) PROVE runs' = runs
    BY <2>1, <2>2 DEF Opened, OpenFails, RejectUnresolved, RejectResolved, Reject, ReserveFails, Prepare,
                      LeaveQueue, ExpiredWithGuard, QueueExpires, Busy, workerVars
  <2>3. ASSUME NEW r \in Call, TakeResult(r) \/ EngineTimeout(r) \/ Sign(r) \/ Seal(r) \/ Answer(r)
        PROVE  runs' = runs
    BY <2>3 DEF TakeResult, EngineTimeout, Sign, Seal, Answer, workerVars
  <2>4. ASSUME NEW r \in Call, Arrive(r) \/ AbandonedPrepare(r) \/ Disconnect(r) PROVE runs' = runs
    BY <2>4 DEF Arrive, AbandonedPrepare, Disconnect, workerVars
  <2>5. ASSUME NEW p \in Pair, EngineFinishes(p) PROVE runs' = runs
    BY <2>5 DEF EngineFinishes
  <2>6. LoadRelease \/ Boot \/ Tick => runs' = runs
    BY DEF LoadRelease, Boot, Tick, workerVars
  <2>7. ~(Crash \/ ExitAfterOverrun)
    BY <1>1 DEF Crash, ExitAfterOverrun, Exit
  <2> QED  BY <1>1, <2>2, <2>3, <2>4, <2>5, <2>6, <2>7, Zenon DEF Next, Progress
<1>2. IInv' => BootIsBounded'
  BY Bounded, PTL
<1>3. ASSUME IInv, IInv', Next PROVE Done
  <2>1. ASSUME Cardinality(Inferred) = Limit, up' PROVE full' /\ runs' = runs
    <3>1. runs' = runs
      BY <1>1, <1>3, <2>1
    <3>2. Inferred' = Inferred
      BY <3>1 DEF Inferred
    <3>3. BootIsBounded'
      BY <1>2, <1>3
    <3>4. full'
      BY <2>1, <3>2, <3>3, Zenon DEF BootIsBounded
    <3> QED  BY <3>1, <3>4
  <2> QED  BY <2>1
<1>4. IInv /\ IInv' /\ [Next]_vars => [Done]_vars
  BY <1>3
<1> QED  BY <1>4, Invariance, PTL DEF Spec, SpentBootIsDone

(* Only an inference that still holds the worker past its last slot makes   *)
(* the enclave reset itself.                                                *)
THEOREM GenuineOverrun == Spec => OverrunIsGenuine
<1>1. IInv /\ [Next]_vars =>
        [~overran /\ overran' =>
           \E r \in Call :
             /\ pc[r] = "inferring" /\ Expired(r) /\ runs[pair[r]] = 1
             /\ (pair[r] \in jobs /\ locked) \/ done[r]]_vars
  <2> SUFFICES ASSUME IInv, Next, ~overran, overran'
               PROVE  \E r \in Call :
                        /\ pc[r] = "inferring" /\ Expired(r) /\ runs[pair[r]] = 1
                        /\ (pair[r] \in jobs /\ locked) \/ done[r]
    OBVIOUS
  <2>1. PICK r \in Call : EngineTimeout(r)
    <3>1. ASSUME NEW r \in Call, Opened(r) \/ LeaveQueue(r) PROVE overran' = overran
      BY <3>1 DEF Opened, OpenFails, RejectUnresolved, RejectResolved, Reject, ReserveFails, Prepare,
                  LeaveQueue, StartInference, ExpiredWithGuard, QueueExpires, Busy, bootVars
    <3>2. ASSUME NEW r \in Call, TakeResult(r) \/ Sign(r) \/ Seal(r) \/ Answer(r) PROVE overran' = overran
      BY <3>2 DEF TakeResult, Sign, Seal, Answer, bootVars
    <3>3. ASSUME NEW r \in Call, Arrive(r) \/ AbandonedPrepare(r) \/ Disconnect(r) PROVE overran' = overran
      BY <3>3 DEF Arrive, AbandonedPrepare, Disconnect, bootVars
    <3>4. ASSUME NEW p \in Pair, EngineFinishes(p) PROVE overran' = overran
      BY <3>4 DEF EngineFinishes, bootVars
    <3>5. LoadRelease \/ Boot \/ Tick => overran' = overran
      BY DEF LoadRelease, Boot, Tick
    <3>6. Crash \/ ExitAfterOverrun => ~overran'
      BY DEF Crash, ExitAfterOverrun, Exit
    <3> QED  BY <3>1, <3>2, <3>3, <3>4, <3>5, <3>6, Zenon DEF Next, Progress
  <2> QED  BY <2>1 DEF EngineTimeout, IInv, JobInv, WorkerExclusive, LedgerInv, RanInv, Ran
<1> QED  BY <1>1, Invariance, PTL DEF Spec, OverrunIsGenuine

(* A call refused as busy can be sent again with the same pair.             *)
THEOREM RetryableBusy == Spec => BusyIsRetryable
<1> DEFINE Retry == \A r \in Call : pc[r] = "queued" /\ outcome'[r] = "not_ready" =>
                      pair[r] \notin processed' /\ runs'[pair[r]] = 0 /\ ~full'
<1>1. ASSUME IInv, Next, NEW r \in Call, pc[r] = "queued", outcome'[r] = "not_ready"
      PROVE  Busy(r)
  <2>1. outcome[r] # "not_ready" /\ outcome \in [Call -> Outcome]
    BY <1>1 DEF IInv, LedgerInv, RefusedInv, LocalInv, LocalTypeOK
  <2>2. ASSUME Exit PROVE FALSE
    BY <1>1, <2>2 DEF Exit
  <2>3. PICK q \in Call : Arrive(q) \/ Progress(q) \/ Disconnect(q)
    BY <1>1, <2>1, <2>2 DEF Next, AbandonedPrepare, EngineFinishes, LoadRelease, Boot, Tick,
                            Crash, ExitAfterOverrun, callVars
  <2>4. q = r
    BY <1>1, <2>1, <2>3
       DEF Arrive, Progress, Opened, OpenFails, RejectUnresolved, RejectResolved, ReserveFails, Reject,
           Prepare, LeaveQueue, StartInference, ExpiredWithGuard, QueueExpires, Busy, TakeResult,
           EngineTimeout, Sign, Seal, Answer, Disconnect, ToSeal, AwaitSlot
  <2> QED
    BY <1>1, <2>1, <2>3, <2>4
       DEF Arrive, Progress, Opened, OpenFails, RejectUnresolved, RejectResolved, ReserveFails, Reject,
           Prepare, LeaveQueue, StartInference, ExpiredWithGuard, QueueExpires, TakeResult,
           EngineTimeout, Sign, Seal, Answer, Disconnect, Quiet
<1>2. ASSUME IInv, NEW r \in Call, pc[r] = "queued", Busy(r)
      PROVE  pair[r] \notin processed' /\ runs'[pair[r]] = 0 /\ ~full'
  <2>1. pair[r] \in processed /\ runs[pair[r]] = 0
    BY <1>2 DEF IInv, LedgerInv, ReservationOwned
  <2>2. processed' = processed \ {pair[r]} /\ runs' = runs /\ GuardInv'
    BY <1>2, ReleaseStep DEF Busy, IInv, workerVars
  <2>3. IsFiniteSet(processed) /\ Cardinality(processed) \in Nat /\ Cardinality(processed) <= Limit
    <3>1. IsFiniteSet(processed)
      BY <1>2 DEF IInv, GuardInv, GuardTypeOK
    <3>2. Cardinality(processed) <= Limit
      BY <1>2, Zenon DEF IInv, GuardInv, FullIffAtLimit
    <3> QED  BY <3>1, <3>2, FS_CardinalityType
  <2>4. Cardinality(processed') = Cardinality(processed) - 1
    BY <2>1, <2>2, <2>3, FS_RemoveElement
  <2>5. ~AtLimit(processed')
    BY <2>3, <2>4, ReplayAssumption DEF AtLimit
  <2>6. ~full'
    BY <2>2, <2>5, Zenon DEF GuardInv, FullIffAtLimit
  <2> QED  BY <2>1, <2>2, <2>6
<1>3. IInv /\ [Next]_vars => [Retry]_vars
  BY <1>1, <1>2
<1> QED  BY <1>3, Invariance, PTL DEF Spec, BusyIsRetryable

-----------------------------------------------------------------------------
(* Slots.                                                                   *)

\* The slots of a request: those of a pipeline, or those of a request whose
\* pipeline was not known.
SlotSets == {ResponseSlots[pl] : pl \in Pipeline} \union {Unresolved}

\* A call has slots from prepare on; it waits for one of them and has reached it
\* when it is answered, and only a call past its last one has timed out.
SlotInv ==
  \A r \in Call :
    /\ pc[r] \in {"idle", "opening", "abandoned"} => slots[r] = {}
    /\ slots[r] # {} => slots[r] \in SlotSets
    /\ pc[r] = "sleeping" => leave[r] \in slots[r]
    /\ pc[r] = "answered" /\ slots[r] # {} => leave[r] \in slots[r] /\ age[r] >= leave[r]
    /\ outcome[r] = "engine_timeout" => slots[r] # {} /\ Expired(r)

(* A call that starts to wait for a slot waits for one of its own.          *)
LEMMA AwaitOwnSlot ==
  ASSUME LocalInv, NEW r \in Call, slots[r] # {}, NEW o \in Outcome, AwaitSlot(r, slots[r], o)
  PROVE  leave'[r] \in slots[r] /\ leave' = [leave EXCEPT ![r] = leave'[r]]
<1>1. slots[r] \in SUBSET (0..Horizon) /\ age[r] \in Nat
  BY MatchAssumption DEF LocalInv, LocalTypeOK, CarriesInv
<1>2. ReleaseAt(slots[r], age[r]) \in slots[r]
  BY <1>1, ReleaseAtSlot
<1> QED  BY <1>2 DEF AwaitSlot, LocalInv, LocalTypeOK

(* What r does to itself alone keeps the invariant of the others.           *)
LEMMA SlotStep ==
  ASSUME LocalInv, SlotInv, [Next]_vars
  PROVE  SlotInv'
<1> USE DEF LocalInv, LocalTypeOK, CarriesInv, SlotInv, Slotted, Expired
<1>1. ASSUME NEW r \in Call, Arrive(r) PROVE SlotInv'
  BY <1>1 DEF Arrive
<1>2. ASSUME NEW r \in Call, OpenFails(r) PROVE SlotInv'
  BY <1>2 DEF OpenFails, clockVars
<1>3. ASSUME NEW r \in Call, NEW S \in SlotSets, S # {}, Reject(r, S) PROVE SlotInv'
  BY <1>3 DEF Reject, ToSeal, clockVars
<1>4. ASSUME NEW r \in Call, NEW pl \in Pipeline, NEW p \in Pair, Prepare(r, pl, p) PROVE SlotInv'
  BY <1>4, SlotsBelow DEF Prepare, clockVars, SlotSets
<1>5. ASSUME NEW r \in Call, AbandonedPrepare(r) PROVE SlotInv'
  BY <1>5 DEF AbandonedPrepare, clockVars
<1>6. ASSUME NEW r \in Call, NEW o \in Outcome, pc[r] \in Slotted, AwaitSlot(r, slots[r], o),
             o = "engine_timeout" => Expired(r), UNCHANGED <<pair, slots, clockVars, done>>
      PROVE  SlotInv'
  <2>1. slots[r] # {}
    BY <1>6
  <2>2. leave'[r] \in slots[r] /\ leave' = [leave EXCEPT ![r] = leave'[r]]
    BY <1>6, <2>1, AwaitOwnSlot
  <2> QED  BY <1>6, <2>1, <2>2 DEF AwaitSlot, clockVars
<1>7. ASSUME NEW r \in Call, NEW o \in Outcome, pc[r] \in Slotted, ToSeal(r, o),
             o = "engine_timeout" => Expired(r), UNCHANGED <<pair, slots, clockVars, done>>
      PROVE  SlotInv'
  BY <1>7 DEF ToSeal, clockVars
<1>8. ASSUME NEW r \in Call, pc[r] = "queued", Busy(r) PROVE SlotInv'
  BY <1>6, <1>8 DEF Busy, Outcome
<1>9. ASSUME NEW r \in Call, StartInference(r) PROVE SlotInv'
  BY <1>9 DEF StartInference, clockVars
<1>10. ASSUME NEW p \in Pair, EngineFinishes(p) PROVE SlotInv'
  BY <1>10 DEF EngineFinishes, clockVars
<1>11. ASSUME NEW r \in Call, TakeResult(r) PROVE SlotInv'
  <2>1. CASE pc' = [pc EXCEPT ![r] = "signing"] /\ UNCHANGED <<outcome, leave>>
    BY <1>11, <2>1 DEF TakeResult, clockVars
  <2>2. CASE ToSeal(r, "failed")
    BY <1>7, <1>11, <2>2 DEF TakeResult, Outcome
  <2>3. CASE AwaitSlot(r, slots[r], "internal")
    BY <1>6, <1>11, <2>3 DEF TakeResult, Outcome
  <2> QED  BY <1>11, <2>1, <2>2, <2>3 DEF TakeResult
<1>12. ASSUME NEW r \in Call, EngineTimeout(r) PROVE SlotInv'
  BY <1>7, <1>12 DEF EngineTimeout, Outcome
<1>13. ASSUME NEW r \in Call, Sign(r) PROVE SlotInv'
  BY <1>6, <1>7, <1>13 DEF Sign, Outcome
<1>14. ASSUME NEW r \in Call, Seal(r) PROVE SlotInv'
  <2>1. PICK o \in {outcome[r], "internal"} : AwaitSlot(r, slots[r], o)
    BY <1>14 DEF Seal
  <2>2. o \in Outcome /\ (o = "engine_timeout" => Expired(r))
    BY <1>14, <2>1 DEF Outcome
  <2> QED  BY <1>6, <1>14, <2>1, <2>2 DEF Seal
<1>15. ASSUME NEW r \in Call, Answer(r) PROVE SlotInv'
  BY <1>15 DEF Answer, clockVars
<1>16. ASSUME NEW r \in Call, Disconnect(r) PROVE SlotInv'
  BY <1>16 DEF Disconnect
<1>17. CASE Tick
  <2>1. \A r \in Call : age'[r] \in 0..Horizon /\ age'[r] >= age[r]
    BY <1>17, MatchAssumption DEF Tick, Later
  <2>2. \A r \in Call : pc[r] = "answered" => age'[r] = age[r]
    BY <1>17 DEF Tick, Quiet
  <2>3. \A r \in Call : slots[r] # {} => LastSlot(slots[r]) \in Nat
    BY MaxBelow, MatchAssumption DEF LastSlot
  <2>4. UNCHANGED <<pc, slots, outcome, leave>>
    BY <1>17 DEF Tick
  <2> QED  BY <2>1, <2>2, <2>3, <2>4, MatchAssumption
<1>18. ASSUME Exit PROVE SlotInv'
  BY <1>18 DEF Exit
<1>19. CASE LoadRelease \/ Boot \/ UNCHANGED vars
  BY <1>19 DEF LoadRelease, Boot, vars, callVars, clockVars
<1> HIDE DEF LocalInv, SlotInv
<1>20. ASSUME NEW r \in Call, Progress(r) PROVE SlotInv'
  <2>1. \A S \in SlotSets : S # {}
    BY SlotsBelow DEF SlotSets
  <2>2. ASSUME Opened(r) PROVE SlotInv'
    BY <1>2, <1>3, <1>4, <2>1, <2>2
       DEF Opened, RejectUnresolved, RejectResolved, ReserveFails, SlotSets
  <2>3. ASSUME LeaveQueue(r) PROVE SlotInv'
    BY <1>8, <1>9, <2>3 DEF LeaveQueue, ExpiredWithGuard, QueueExpires
  <2> QED  BY <1>11, <1>12, <1>13, <1>14, <1>15, <1>20, <2>2, <2>3 DEF Progress
<1> QED
  BY <1>1, <1>5, <1>10, <1>16, <1>17, <1>18, <1>19, <1>20
     DEF Next, Crash, ExitAfterOverrun

(* No opened request is answered before a slot of its own, a timed out one  *)
(* not before its last, and one whose pipeline is not known not before a    *)
(* completed run of any pipeline could be (matches.rs 81-84, 98-100).       *)
THEOREM NoneEarly == Spec => []NoEarlyAnswer
<1>1. Init => SlotInv
  BY DEF Init, SlotInv
<1>2. LocalInv /\ SlotInv => NoEarlyAnswer
  <2> SUFFICES ASSUME LocalInv, SlotInv, NEW r \in Call, pc[r] = "answered", slots[r] # {}
               PROVE  /\ age[r] >= Min(slots[r])
                      /\ outcome[r] = "engine_timeout" => age[r] >= LastSlot(slots[r])
                      /\ (\A pl \in Pipeline : slots[r] # ResponseSlots[pl]) =>
                           \A pl \in Pipeline : age[r] >= Min(ResponseSlots[pl])
    BY DEF NoEarlyAnswer
  <2>1. slots[r] \in SUBSET Nat /\ slots[r] \in SUBSET (0..Horizon) /\ age[r] \in Nat
    BY MatchAssumption DEF LocalInv, LocalTypeOK, CarriesInv
  <2>2. leave[r] \in slots[r] /\ age[r] >= leave[r]
    BY DEF SlotInv
  <2>3. Min(slots[r]) \in slots[r] /\ Min(slots[r]) <= leave[r]
    BY <2>1, <2>2, MinNat
  <2>4. ASSUME \A pl \in Pipeline : slots[r] # ResponseSlots[pl], NEW pl \in Pipeline
        PROVE  age[r] >= Min(ResponseSlots[pl])
    <3> DEFINE F == {Min(ResponseSlots[q]) : q \in Pipeline}
    <3>1. slots[r] = {Max(F)}
      BY <2>4 DEF SlotInv, SlotSets, Unresolved, LatestFirstSlot
    <3>2. \A q \in Pipeline : Min(ResponseSlots[q]) \in 0..Horizon
      BY SlotsBelow, MinNat, MatchAssumption
    <3>3. Max(F) >= Min(ResponseSlots[pl])
      <4>1. F \in SUBSET (0..Horizon) /\ F # {} /\ Min(ResponseSlots[pl]) \in F
        BY <3>2, <2>4
      <4> QED  BY <4>1, MaxBelow, MatchAssumption
    <3>4. leave[r] = Max(F)
      BY <2>2, <3>1
    <3> QED  BY <2>1, <2>2, <3>1, <3>2, <3>3, <3>4, MatchAssumption
  <2> QED  BY <2>1, <2>2, <2>3, <2>4 DEF SlotInv, Expired
<1>3. IInv /\ SlotInv /\ [Next]_vars => SlotInv'
  BY SlotStep DEF IInv
<1>4. IInv => LocalInv
  BY DEF IInv
<1> QED  BY Invariance, <1>1, <1>2, <1>3, <1>4, PTL DEF Spec

-----------------------------------------------------------------------------
(* The enclave implements the replay contract.                              *)

Status == [p \in Pair |-> StatusOf(p)]

(* The status of a pair depends on the guard and the inferences alone.      *)
LEMMA SameLedger == UNCHANGED <<processed, runs>> => UNCHANGED Status
  BY DEF Status, StatusOf

(* One pair changes its status and every other keeps what it is judged by.  *)
LEMMA OneMoves ==
  ASSUME NEW p \in Pair, NEW from, NEW to, StatusOf(p) = from, StatusOf(p)' = to,
         \A q \in Pair \ {p} : runs'[q] = runs[q] /\ (q \in processed' <=> q \in processed)
  PROVE  Contract!Move(p, from, to)
<1>1. \A q \in Pair \ {p} : StatusOf(q)' = StatusOf(q)
  BY DEF StatusOf
<1>2. Status' = [Status EXCEPT ![p] = to]
  BY <1>1 DEF Status
<1> QED  BY <1>2 DEF Contract!Move, Status

(* A successful reserve is an Accept of the contract.                       *)
LEMMA ReserveMoves ==
  ASSUME IInv, NEW p \in Pair, Reserve(p), runs' = runs
  PROVE  Contract!Accept(p) \/ UNCHANGED Status
<1>1. CASE ReserveResult(p) = "ok"
  <2>1. p \notin processed /\ processed' = processed \union {p}
    BY <1>1, ReserveStep DEF IInv
  <2>2. runs[p] = 0
    BY <2>1 DEF IInv, LedgerInv, RunsInv
  <2>3. StatusOf(p) = "fresh" /\ StatusOf(p)' = "reserved"
    BY <2>1, <2>2 DEF StatusOf
  <2> QED  BY <2>1, <2>3, OneMoves DEF Contract!Accept
<1>2. CASE ReserveResult(p) # "ok"
  BY <1>2, ReserveStep, SameLedger DEF IInv
<1> QED  BY <1>1, <1>2

(* A release after Busy is a Withdraw of the contract.                      *)
LEMMA WithdrawMoves ==
  ASSUME IInv, NEW r \in Call, pc[r] = "queued", Busy(r)
  PROVE  Contract!Withdraw(pair[r]) /\ pair[r] \in Pair
<1>1. PICK p \in Pair : p = pair[r]
  BY DEF IInv, LocalInv, CarriesInv
<1>2. p \in processed /\ runs[p] = 0
  BY <1>1 DEF IInv, LedgerInv, ReservationOwned
<1>3. processed' = processed \ {p} /\ runs' = runs
  BY <1>1, ReleaseStep DEF Busy, IInv, workerVars
<1>4. StatusOf(p) = "reserved" /\ StatusOf(p)' = "fresh"
  BY <1>2, <1>3 DEF StatusOf
<1>5. Contract!Move(p, "reserved", "fresh")
  BY <1>3, <1>4, OneMoves
<1> QED  BY <1>1, <1>5 DEF Contract!Withdraw

(* The start of an inference is an Infer of the contract.                   *)
LEMMA InferMoves ==
  ASSUME IInv, NEW r \in Call, StartInference(r)
  PROVE  Contract!Infer(pair[r]) /\ pair[r] \in Pair
<1>1. pair[r] \in Pair /\ pair[r] \in processed /\ runs[pair[r]] = 0 /\ runs \in [Pair -> Nat]
  BY DEF IInv, LedgerInv, ReservationOwned, LocalInv, LocalTypeOK, CarriesInv, StartInference
<1>2. processed' = processed /\ runs' = [runs EXCEPT ![pair[r]] = 1] /\ pair' = pair
  BY <1>1 DEF StartInference, guardVars
<1>3. StatusOf(pair[r]) = "reserved" /\ StatusOf(pair[r])' = "ran"
  BY <1>1, <1>2 DEF StatusOf
<1> QED  BY <1>1, <1>2, <1>3, OneMoves DEF Contract!Infer

(* The end of the process is a NewKey of the contract.                      *)
LEMMA ExitMoves == ASSUME Exit PROVE Contract!NewKey
  BY DEF Exit, Contract!NewKey, Status, StatusOf

(* Every step is a step of the contract or leaves every status alone.       *)
LEMMA ContractStep ==
  ASSUME IInv, [Next]_vars
  PROVE  [Contract!Next]_Status
<1>1. ASSUME NEW r \in Call, Arrive(r) \/ Disconnect(r) \/ OpenFails(r) \/ RejectUnresolved(r)
      PROVE  UNCHANGED Status
  BY <1>1, SameLedger DEF Arrive, Disconnect, OpenFails, RejectUnresolved, Reject, guardVars, workerVars
<1>2. ASSUME NEW r \in Call, NEW pl \in Pipeline, RejectResolved(r, pl)
      PROVE  UNCHANGED Status
  BY <1>2, SameLedger DEF RejectResolved, Reject, guardVars, workerVars
<1>3. ASSUME NEW r \in Call, NEW pl \in Pipeline, NEW p \in Pair,
             ReserveFails(r, pl, p) \/ Prepare(r, pl, p)
      PROVE  Contract!Accept(p) \/ UNCHANGED Status
  BY <1>3, ReserveMoves DEF ReserveFails, Prepare, Reject, workerVars
<1>4. ASSUME NEW r \in Call, AbandonedPrepare(r)
      PROVE  UNCHANGED Status \/ \E p \in Pair : Contract!Accept(p)
  BY <1>4, ReserveMoves, SameLedger DEF AbandonedPrepare, guardVars, workerVars
<1>5. ASSUME NEW r \in Call, LeaveQueue(r)
      PROVE  \E p \in Pair : Contract!Withdraw(p) \/ Contract!Infer(p)
  BY <1>5, WithdrawMoves, InferMoves DEF LeaveQueue, ExpiredWithGuard, QueueExpires
<1>6. ASSUME NEW r \in Call, TakeResult(r) \/ EngineTimeout(r) \/ Sign(r) \/ Seal(r) \/ Answer(r)
      PROVE  UNCHANGED Status
  BY <1>6, SameLedger DEF TakeResult, EngineTimeout, Sign, Seal, Answer, guardVars, workerVars
<1>7. ASSUME NEW p \in Pair, EngineFinishes(p) PROVE UNCHANGED Status
  BY <1>7, SameLedger DEF EngineFinishes, guardVars
<1>8. CASE Tick \/ LoadRelease \/ Boot \/ UNCHANGED vars
  BY <1>8, SameLedger DEF Tick, LoadRelease, Boot, vars, guardVars, workerVars
<1>9. QED
  BY <1>1, <1>2, <1>3, <1>4, <1>5, <1>6, <1>7, <1>8, ExitMoves
     DEF Next, Progress, Opened, Crash, ExitAfterOverrun, Contract!Next

(* The match operation implements the replay contract: under one channel    *)
(* key no pair is inferred twice, and only unstarted ones are given back.   *)
THEOREM ImplementsContract == Spec => RefinesAtMostOnce
<1>1. Init => Contract!Init
  BY DEF Init, GuardInit, Contract!Init, StatusOf
<1>2. IInv /\ [Next]_vars => [Contract!Next]_Status
  BY ContractStep
<1> QED  BY <1>1, <1>2, Invariance, PTL DEF Spec, RefinesAtMostOnce, Contract!Spec, Status
=============================================================================
