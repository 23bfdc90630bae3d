------------------------------ MODULE KeyRoute ------------------------------
(***************************************************************************)
(* The control routes of the enclave beside the refresh of Attestation:    *)
(* loading the release (enclave/src/state.rs, routes/release.rs) and the   *)
(* answer about the channel key (routes/encryption_key.rs), which is put   *)
(* together from three reads while loads may run.                          *)
(***************************************************************************)
EXTENDS Attestation

CONSTANTS
  Manifest,  \* manifests that hosts submit
  Valid,     \* those that parse and keep the rules of WIP-201
  Bundle,    \* those that name the Engine bundle of this boot
  None

\* A manifest stands for its release_hash: one differs where the other does.
ASSUME RouteAssumption ==
  /\ Valid \subseteq Manifest /\ Bundle \subseteq Manifest
  /\ None \notin Manifest

VARIABLES
  release,  \* the OnceLock
  acked,    \* history: manifests whose load was acknowledged
  read,     \* of an answer: "idle", "document", "one" or "done"
  listed,   \* its release_hashes
  timed,    \* the release whose latest slot it tells, or None
  before    \* history: what was acknowledged when it was asked for

releaseVars == <<release, acked>>
readVars == <<read, listed, timed, before>>
routeVars == <<releaseVars, readVars>>

RouteTypeOK ==
  /\ TypeOK
  /\ release \in Manifest \union {None} /\ acked \subseteq Manifest
  /\ read \in {"idle", "document", "one", "done"}
  /\ listed \subseteq Manifest /\ timed \in Manifest \union {None}
  /\ before \subseteq Manifest

RouteInit ==
  /\ Init
  /\ release = None /\ acked = {}
  /\ read = "idle" /\ listed = {} /\ timed = None /\ before = {}

-----------------------------------------------------------------------------

\* Mutant: the last one wins.
Loaded_Replaces(m) == m

\* get_or_init
Loaded(m) == IF release = None THEN m ELSE release

\* Mutant: what is loaded already is fine.
Accepts_Any(m, loaded) == TRUE
Accepts(m, loaded) == loaded = m

\* load_release.  Any other manifest is rejected, and changes nothing.
LoadRelease(m) ==
  /\ mode = "serving"
  /\ m \in Valid /\ m \in Bundle
  /\ release' = Loaded(m)
  /\ acked' = IF Accepts(m, Loaded(m)) THEN acked \union {m} ELSE acked
  /\ UNCHANGED <<vars, readVars>>

Releases == IF release = None THEN {} ELSE {release}

\* The cached document, at the age it has.
ReadDocument ==
  /\ mode = "serving" /\ read = "idle"
  /\ read' = "document" /\ before' = acked
  /\ UNCHANGED <<vars, releaseVars, listed, timed>>

\* Mutant: the slot is looked up first.
Order_SlotFirst == [document |-> "slot", one |-> "hashes"]

\* Which field is read next: release_hashes, then max_response_slot_millis.
Order == [document |-> "hashes", one |-> "slot"]

ReadRelease ==
  /\ read \in DOMAIN Order
  /\ read' = IF read = "document" THEN "one" ELSE "done"
  /\ listed' = IF Order[read] = "hashes" THEN Releases ELSE listed
  /\ timed' = IF Order[read] = "slot" THEN release ELSE timed
  /\ UNCHANGED <<vars, releaseVars, before>>

\* The next answer.
ReadAgain ==
  /\ read = "done"
  /\ read' = "idle" /\ listed' = {} /\ timed' = None /\ before' = {}
  /\ UNCHANGED <<vars, releaseVars>>

RouteStep ==
  (\E m \in Manifest : LoadRelease(m)) \/ ReadDocument \/ ReadRelease \/ ReadAgain

RouteNext == (Next /\ UNCHANGED routeVars) \/ RouteStep

RouteSpec == RouteInit /\ [][RouteNext]_<<vars, routeVars>> /\ Fairness

-----------------------------------------------------------------------------

(* However loads race, one manifest is acknowledged: it is valid, of this   *)
(* boot's bundle, and the one that is used (state.rs 101-121).              *)
LoadsAgree == acked \subseteq {release} /\ acked \subseteq Valid \cap Bundle

(* An answer about the key that lists a release tells the latest slot of    *)
(* the same release, although the two are read apart from each other        *)
(* (encryption_key.rs 14-26); the other way round a load may come between.  *)
ListedIsTimed == read = "done" => listed \subseteq {timed}

(* Who was told that its release is loaded finds it in every answer about   *)
(* the key that it asks for afterwards.                                     *)
AckedIsListed == read = "done" => before \subseteq listed

=============================================================================
