------------------------------ MODULE Pipeline ------------------------------
(***************************************************************************)
(* The adapter between a match request and the face engine                 *)
(* (enclave/src/pipeline.rs) and the normalisation of its scores           *)
(* (biometric_engine.rs `normalized`).  An image is the position of its    *)
(* entry.                                                                  *)
(*                                                                         *)
(* Similarities are integers: the worker's scores lie in -One..One on the  *)
(* grid of f64, and normalised scores and thresholds in 0..2*One stand for *)
(* 0 to 1.  f32 keeps a fixed number of digits, so the distance of its     *)
(* numbers doubles with their size: it is Grain up to One, above One \div 2 *)
(* (in f32, One is 2^24 grains and Grain a power of two).                  *)
(***************************************************************************)
EXTENDS Integers, Sequences, FiniteSetsExt

CONSTANTS
  One,        \* similarity of an image with itself
  Grain,      \* distance of neighbouring f32 scores next to One
  Threshold   \* MATCH_THRESHOLDS: match_strictness -> minimum similarity

\* One is representable in f32, at every distance its numbers can have here.
ASSUME ScoreAssumption ==
  /\ One \in Nat \ {0} /\ Grain \in Nat \ {0}
  /\ One % (4 * Grain) = 0
  /\ Threshold \in [DOMAIN Threshold -> 0..2*One]

DeepFace == 1    \* PIPELINE_DEEPFACE
GrayBadge == 2   \* PIPELINE_GRAYBADGE

Meta == {"", "illuminated", "unilluminated", "other"}
Entry == [meta : Meta, size : Nat]

\* A decoded payload; hints says whether there are any.  Positions start at 0.
PayloadShape ==
  [pipeline : Nat, match_strictness : Nat, hints : BOOLEAN, entries : Seq(Entry), compare : Seq(Nat)]

-----------------------------------------------------------------------------
(* Layouts.                                                                 *)

Unsupported == [kind |-> "unsupported"]

Vanilla(image) == [source |-> "vanilla", illuminated |-> image, unilluminated |-> image, matching |-> "illuminated"]
LightGuard(lit, dark, frame) ==
  [source |-> "light_guard", illuminated |-> lit, unilluminated |-> dark, matching |-> frame]

\* Mutant: any meta will do for the partner.
LiveCapture_AnyPartner(e, live, rest) ==
  IF rest = {} THEN IF e[live].meta = "" THEN {Vanilla(live)} ELSE {}
  ELSE {LightGuard(live, i, "illuminated") : i \in {j \in rest : e[live].meta = "illuminated"}}
       \union {LightGuard(i, live, "unilluminated") : i \in {j \in rest : e[live].meta = "unilluminated"}}

\* live_capture: the capture that live forms with the entries not compared, as
\* a set that is empty where the code returns an error.
LiveCapture(e, live, rest) ==
  IF rest = {} THEN IF e[live].meta = "" THEN {Vanilla(live)} ELSE {}
  ELSE {LightGuard(live, i, "illuminated") :
          i \in {j \in rest : e[live].meta = "illuminated" /\ e[j].meta = "unilluminated"}}
       \union
       {LightGuard(i, live, "unilluminated") :
          i \in {j \in rest : e[live].meta = "unilluminated" /\ e[j].meta = "illuminated"}}

\* Where compare names the live capture, counted from 0, before the challenge.
LivePosition(p) == IF p.pipeline = DeepFace THEN 1 ELSE 0

At(p, k) == p.compare[k] + 1
Plain(p, k) == p.entries[At(p, k)].meta = ""

\* Entries that compare does not name, which `take` leaves behind.
Rest(p) == {i \in DOMAIN p.entries : \A k \in DOMAIN p.compare : At(p, k) # i}

\* Every take succeeds: the entry exists and no earlier position took it.
AllTaken(p) ==
  \A k \in DOMAIN p.compare :
    At(p, k) \in DOMAIN p.entries /\ \A j \in 1..(k - 1) : At(p, j) # At(p, k)

Captures(p) == LiveCapture(p.entries, At(p, LivePosition(p) + 1), Rest(p))

\* operation finds no reason to refuse the payload.
Fits(p) ==
  /\ p.pipeline \in {DeepFace, GrayBadge}
  /\ Len(p.compare) = LivePosition(p) + 2 /\ ~p.hints
  /\ AllTaken(p)
  /\ \A i, j \in Rest(p) : i = j
  /\ Captures(p) # {}
  /\ Plain(p, LivePosition(p) + 2)
  /\ p.pipeline = DeepFace => Plain(p, 1)

\* operation: the engine call of a payload, with its inputs by role.
Operation(p) ==
  LET live == CHOOSE c \in Captures(p) : TRUE
  IN IF ~Fits(p) THEN Unsupported
     ELSE IF p.pipeline = DeepFace
     THEN [kind |-> "deepface", credential |-> At(p, 1), live |-> live, challenge |-> At(p, 3)]
     ELSE [kind |-> "graybadge", live |-> live, challenge |-> At(p, 2)]

-----------------------------------------------------------------------------
(* Scores.                                                                  *)

\* Distance of the numbers of f32 that are as large as v.
Digits == One \div Grain
Spacings(v) == {u \in 1..(4 * Grain) : (4 * Grain) % u = 0 /\ v \in -(Digits * u)..(Digits * u)}
Spacing(v) == Min(Spacings(v))

\* The multiple of u nearest to v; of two as near, the even one.
RoundEven(v, u) ==
  LET q == v \div u
      r == v % u
  IN IF 2 * r < u \/ (2 * r = u /\ q % 2 = 0) THEN q * u ELSE (q + 1) * u

ToF32(v) == RoundEven(v, Spacing(v))

\* normalized: the score as f32, then half way between it and One, in f32 again.
Normalized(s) == ToF32(One + ToF32(s))

\* check_score: a score outside 0..1 is a fault of the engine.
CheckScore(s, t) ==
  IF s \notin 0..2*One THEN "internal" ELSE IF s < t THEN "below" ELSE "ok"

=============================================================================
