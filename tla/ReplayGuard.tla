---------------------------- MODULE ReplayGuard ----------------------------
(***************************************************************************)
(* The replay guard of one enclave boot (enclave/src/replay.rs): the set   *)
(* of (aud, nonce) pairs accepted under the boot's channel key and the     *)
(* flag that says the set has no capacity left.                            *)
(*                                                                         *)
(* Every operation holds the mutex of `processed` from its first read to   *)
(* its last write, and `full` is only written under that mutex, so each    *)
(* operation is one step.                                                  *)
(***************************************************************************)
EXTENDS Integers, FiniteSets

CONSTANTS
  Pair,   \* the (aud, nonce) pairs a request can carry
  Limit   \* pairs one boot accepts; MAX_PROCESSED_REQUESTS in the code

\* The code's limit is 262,144.  A guard of limit zero would be at its limit
\* from the start with the flag unset.
ASSUME ReplayAssumption == Limit \in Nat \ {0}

VARIABLES
  processed,   \* the pairs reserved and not released since the boot
  full         \* the AtomicBool read by is_full

guardVars == <<processed, full>>

GuardTypeOK ==
  /\ processed \subseteq Pair
  /\ IsFiniteSet(processed)
  /\ full \in BOOLEAN

GuardInit == processed = {} /\ full = FALSE

-----------------------------------------------------------------------------

AtLimit(S) == Cardinality(S) >= Limit

\* Mutant: the membership check is missing.
ReserveResult_NoReplayCheck(p) == IF AtLimit(processed) THEN "internal" ELSE "ok"

\* What reserve returns: Ok, FailureReason::Replayed or FailureReason::Internal.
ReserveResult(p) ==
  IF p \in processed THEN "replayed"
  ELSE IF AtLimit(processed) THEN "internal" ELSE "ok"

\* A replayed pair leaves the flag alone; the other two outcomes raise it when
\* the set is, or has just become, as large as the limit.
Reserve(p) ==
  /\ processed' = IF ReserveResult(p) = "ok" THEN processed \union {p} ELSE processed
  /\ full' = IF ReserveResult(p) = "replayed" THEN full ELSE full \/ AtLimit(processed')

\* Mutant: the flag is not computed again.
ReleasePair_KeepsFlag(p) == processed' = processed \ {p} /\ UNCHANGED full

\* The caller gives back the pair it reserved; the flag is computed afresh.
ReleasePair(p) ==
  /\ processed' = processed \ {p}
  /\ full' = AtLimit(processed')

-----------------------------------------------------------------------------

(* The flag that readiness reads agrees with the set it summarises, although *)
(* three code paths write it and one of them leaves it untouched; and the    *)
(* memory the untrusted host can make the enclave hold stays bounded         *)
(* (replay.rs: the limit check of reserve, the recomputation of release).    *)
FullIffAtLimit ==
  /\ full <=> AtLimit(processed)
  /\ Cardinality(processed) <= Limit

=============================================================================
