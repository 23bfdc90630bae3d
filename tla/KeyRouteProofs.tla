--------------------------- MODULE KeyRouteProofs ---------------------------
(***************************************************************************)
(* Theorems of KeyRoute, for every set of manifests.                       *)
(***************************************************************************)
EXTENDS KeyRoute, AttestationProofs

\* An answer knows a release only once it is loaded, and a release stays.
RouteInv ==
  /\ release \in Manifest \union {None} /\ acked \subseteq Manifest
  /\ read \in {"idle", "document", "one", "done"}
  /\ listed \subseteq Manifest /\ timed \in Manifest \union {None} /\ before \subseteq Manifest
  /\ LoadsAgree
  /\ before \subseteq acked
  /\ listed \subseteq Releases
  /\ read \in {"idle", "document"} => listed = {}
  /\ read \in {"one", "done"} => before \subseteq listed
  /\ ListedIsTimed

(* Routes do not interfere with the refresh of the documents: every step is *)
(* one of Attestation, or leaves its variables alone (the caches are only   *)
(* read, attestation.rs 146-148).                                           *)
THEOREM RoutesOnlyRead == RouteSpec => Spec
<1>1. RouteInit => Init
  BY DEF RouteInit
<1>2. [RouteNext]_<<vars, routeVars>> => [Next]_vars
  BY DEF RouteNext, RouteStep, LoadRelease, ReadDocument, ReadRelease, ReadAgain
<1> QED  BY <1>1, <1>2, PTL DEF RouteSpec, Spec

(* The release is loaded, at most once, and what it is does not change.     *)
LEMMA LoadStep ==
  ASSUME RouteInv, NEW m \in Manifest, LoadRelease(m)
  PROVE  RouteInv'
<1>1. release' \in Manifest /\ (release # None => release' = release)
  BY RouteAssumption DEF LoadRelease, Loaded, RouteInv
<1>2. acked' \subseteq {release'}
  <2>1. acked \subseteq {release'}
    BY <1>1, RouteAssumption DEF RouteInv, LoadsAgree
  <2> QED  BY <2>1 DEF LoadRelease, Accepts
<1>3. acked' \subseteq Valid \cap Bundle /\ acked' \subseteq Manifest /\ acked \subseteq acked'
  BY DEF LoadRelease, RouteInv, LoadsAgree
<1>4. listed' \subseteq Releases'
  BY <1>1, RouteAssumption DEF LoadRelease, readVars, RouteInv, Releases
<1>5. read' = read /\ listed' = listed /\ timed' = timed /\ before' = before
  BY DEF LoadRelease, readVars
<1> QED  BY <1>1, <1>2, <1>3, <1>4, <1>5 DEF RouteInv, LoadsAgree, ListedIsTimed

LEMMA ReadStep ==
  ASSUME RouteInv, ReadRelease
  PROVE  RouteInv'
<1>1. release' = release /\ acked' = acked /\ before' = before
  BY DEF ReadRelease, releaseVars
<1>2. CASE read = "document"
  <2>1. Order[read] = "hashes"
    BY <1>2 DEF Order
  <2>2. read' = "one" /\ listed' = Releases /\ timed' = timed
    BY <1>2, <2>1 DEF ReadRelease
  <2>3. before \subseteq Releases /\ Releases \subseteq Manifest
    BY RouteAssumption DEF RouteInv, LoadsAgree, Releases
  <2> QED  BY <1>1, <2>2, <2>3 DEF RouteInv, LoadsAgree, ListedIsTimed, Releases
<1>3. CASE read = "one"
  <2>1. Order[read] = "slot"
    BY <1>3 DEF Order
  <2>2. read' = "done" /\ listed' = listed /\ timed' = release
    BY <1>3, <2>1 DEF ReadRelease
  <2>3. listed \subseteq {release}
    BY DEF RouteInv, Releases
  <2> QED  BY <1>1, <1>3, <2>2, <2>3 DEF RouteInv, LoadsAgree, ListedIsTimed, Releases
<1> QED  BY <1>2, <1>3 DEF ReadRelease, Order

THEOREM RouteInvariance == RouteSpec => []RouteInv
<1>1. RouteInit => RouteInv
  BY RouteAssumption DEF RouteInit, RouteInv, LoadsAgree, ListedIsTimed, Releases
<1>2. ASSUME RouteInv, [RouteNext]_<<vars, routeVars>> PROVE RouteInv'
  <2>1. CASE \E m \in Manifest : LoadRelease(m)
    BY <1>2, <2>1, LoadStep
  <2>2. CASE ReadDocument
    BY <1>2, <2>2 DEF ReadDocument, RouteInv, releaseVars, LoadsAgree, ListedIsTimed, Releases
  <2>3. CASE ReadRelease
    BY <1>2, <2>3, ReadStep
  <2>4. CASE ReadAgain
    BY <1>2, <2>4 DEF ReadAgain, RouteInv, releaseVars, LoadsAgree, ListedIsTimed, Releases
  <2>5. CASE UNCHANGED routeVars
    BY <1>2, <2>5 DEF routeVars, releaseVars, readVars, RouteInv, LoadsAgree, ListedIsTimed, Releases
  <2> QED  BY <1>2, <2>1, <2>2, <2>3, <2>4, <2>5 DEF RouteNext, RouteStep
<1> QED  BY <1>1, <1>2, PTL DEF RouteSpec

(* The types of the routes hold with those of the refresh.                  *)
THEOREM RouteTypes == RouteSpec => []RouteTypeOK
<1>1. RouteInv /\ TypeOK => RouteTypeOK
  BY DEF RouteInv, RouteTypeOK
<1> QED  BY <1>1, RouteInvariance, RoutesOnlyRead, TypeCorrect, PTL

(* However loads race, at most one manifest is acknowledged, a valid one of *)
(* the bundle of this boot, and it is the one in use (state.rs 101-121).    *)
THEOREM OneRelease == RouteSpec => []LoadsAgree
<1>1. RouteInv => LoadsAgree
  BY DEF RouteInv
<1> QED  BY <1>1, RouteInvariance, PTL

(* An answer about the key that lists a release tells its latest slot       *)
(* (encryption_key.rs 14-26).                                               *)
THEOREM ListedAreTimed == RouteSpec => []ListedIsTimed
<1>1. RouteInv => ListedIsTimed
  BY DEF RouteInv
<1> QED  BY <1>1, RouteInvariance, PTL

(* A load that was acknowledged is in every answer asked for afterwards.    *)
THEOREM AckedAreListed == RouteSpec => []AckedIsListed
<1>1. RouteInv => AckedIsListed
  BY DEF RouteInv, AckedIsListed
<1> QED  BY <1>1, RouteInvariance, PTL
=============================================================================
