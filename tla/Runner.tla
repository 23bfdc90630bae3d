------------------------------- MODULE Runner -------------------------------
(***************************************************************************)
(* The request that the end-to-end runner (e2e/src/main.rs) makes of its   *)
(* environment, and what Inference makes of that.  A file stands for its   *)
(* role.                                                                   *)
(***************************************************************************)
EXTENDS Inference

CONSTANT Strictness  \* the values MATCH_STRICTNESS is given

\* MATCH_OPERATION, LIGHT_GUARD_UNILLUMINATED_IMAGE and _MATCHING_FRAME, the
\* number of paths, MATCH_STRICTNESS; "absent" is an unset variable.
Environment ==
  [operation : {"absent", "deep_face", "gray_badge", "other"}, unilluminated : BOOLEAN,
   frame : {"absent", "illuminated", "unilluminated", "other"}, paths : 0..4, strictness : Strictness]

Badge(env) == env.operation = "gray_badge"
Paths(env) == IF Badge(env) THEN 2 ELSE 3

\* The runner goes on to connect.
Runs(env) ==
  /\ env.operation # "other" /\ env.paths = Paths(env)
  /\ env.unilluminated \/ env.frame = "absent"
  /\ env.frame # "other"

Image(role, meta) == [role |-> role, meta |-> meta]
LivePlain == Image("live", "")
Lit == Image("live", "illuminated")
Dark == Image("unilluminated", "unilluminated")

\* The frame that is compared, and its partner.
LiveImage(env) ==
  IF ~env.unilluminated THEN LivePlain ELSE IF env.frame = "unilluminated" THEN Dark ELSE Lit

\* Mutant: the frame that is given first is the illuminated one.
Partner_Fixed(env) == IF env.unilluminated THEN <<Dark>> ELSE <<>>
Partner(env) ==
  IF ~env.unilluminated THEN <<>> ELSE IF env.frame = "unilluminated" THEN <<Lit>> ELSE <<Dark>>

ComparedImages(env) ==
  (IF Badge(env) THEN <<>> ELSE <<Image("credential", "")>>)
    \o <<LiveImage(env), Image("challenge", "")>>

\* Compared entries in role order, then the partner.
RunnerImages(env) == ComparedImages(env) \o Partner(env)

\* size: that of the images, which the runner takes as they are.
RunnerPayload(env, size) ==
  [pipeline |-> IF Badge(env) THEN GrayBadge ELSE DeepFace,
   match_strictness |-> env.strictness, hints |-> FALSE,
   entries |-> [i \in DOMAIN RunnerImages(env) |->
                  [meta |-> RunnerImages(env)[i].meta, size |-> size]],
   compare |-> [i \in DOMAIN ComparedImages(env) |-> i - 1]]

-----------------------------------------------------------------------------

ASSUME RunnerAssumption ==
  /\ Strictness \subseteq Nat
  /\ \A env \in Environment, size \in 1..MaxImage : RunnerPayload(env, size) # None

\* The operation o compares the files under the roles the environment gave them.
Understood(env, o) ==
  LET role(i) == RunnerImages(env)[i].role
  IN /\ o.kind = (IF Badge(env) THEN "graybadge" ELSE "deepface")
     /\ o.kind = "deepface" => role(o.credential) = "credential"
     /\ role(o.challenge) = "challenge" /\ role(o.live.illuminated) = "live"
     /\ role(o.live.unilluminated) = (IF env.unilluminated THEN "unilluminated" ELSE "live")
     /\ o.live.matching = (IF env.frame = "unilluminated" THEN "unilluminated" ELSE "illuminated")

(* Whatever environment the runner accepts, its request is none that the    *)
(* adapter refuses, and the engine compares each file under the role the    *)
(* environment gave it (e2e/src/main.rs 16-95 against pipeline.rs 55-150).  *)
RunnerIsUnderstood ==
  \A env \in Environment, size \in 1..MaxImage :
    Runs(env) /\ asked = RunnerPayload(env, size) => Understood(env, op)

=============================================================================
