---------------------------- MODULE RunnerProofs ----------------------------
(***************************************************************************)
(* Theorem of Runner, for every strictness and every size of the images.   *)
(***************************************************************************)
EXTENDS Runner, TLAPS

-----------------------------------------------------------------------------
(* The images of a request.                                                 *)

LEMMA ImageFacts ==
  /\ \A role, meta : Image(role, meta).role = role /\ Image(role, meta).meta = meta
  /\ LivePlain.role = "live" /\ LivePlain.meta = ""
  /\ Lit.role = "live" /\ Lit.meta = "illuminated"
  /\ Dark.role = "unilluminated" /\ Dark.meta = "unilluminated"
BY DEF Image, LivePlain, Lit, Dark

LEMMA Join12 ==
  ASSUME NEW a, NEW b, NEW c
  PROVE  <<a>> \o <<b, c>> = <<a, b, c>>
<1> DEFINE u == <<a>> \o <<b, c>>
<1>1. u \in Seq({a, b, c})
  OBVIOUS
<1>2. Len(u) = 3
  OBVIOUS
<1>3. u[1] = a /\ u[2] = b /\ u[3] = c
  OBVIOUS
<1> HIDE DEF u
<1>4. u = <<u[1], u[2], u[3]>>
  BY <1>1, <1>2
<1> QED  BY <1>3, <1>4 DEF u

\* How many images are compared, the last two of them the live one and the challenge.
Many(env) == IF Badge(env) THEN 2 ELSE 3

(* The images stand in the order the runner puts them (main.rs 56-58).      *)
LEMMA ImageOrder ==
  ASSUME NEW env
  PROVE  /\ DOMAIN ComparedImages(env) = 1..Many(env)
         /\ RunnerImages(env)[Many(env) - 1] = LiveImage(env)
         /\ RunnerImages(env)[Many(env)] = Image("challenge", "")
         /\ ~Badge(env) => RunnerImages(env)[1] = Image("credential", "")
         /\ ~env.unilluminated => DOMAIN RunnerImages(env) = 1..Many(env)
         /\ env.unilluminated =>
              /\ DOMAIN RunnerImages(env) = 1..Many(env) + 1
              /\ RunnerImages(env)[Many(env) + 1] = IF env.frame = "unilluminated" THEN Lit ELSE Dark
<1> DEFINE live == LiveImage(env)
           credential == Image("credential", "")
           challenge == Image("challenge", "")
           partner == IF env.frame = "unilluminated" THEN Lit ELSE Dark
<1>1. Badge(env) => ComparedImages(env) = <<live, challenge>>
  <2>1. <<>> \o <<live, challenge>> = <<live, challenge>>
    OBVIOUS
  <2> QED  BY <2>1 DEF ComparedImages
<1>2. ~Badge(env) => ComparedImages(env) = <<credential, live, challenge>>
  <2>1. <<credential>> \o <<live, challenge>> = <<credential, live, challenge>>
    BY Join12, Zenon
  <2> QED  BY <2>1 DEF ComparedImages
<1>3. Partner(env) = IF env.unilluminated THEN <<partner>> ELSE <<>>
  BY DEF Partner
<1> HIDE DEF live, credential, challenge, partner
<1>4. CASE Badge(env) /\ ~env.unilluminated
  <2>1. RunnerImages(env) = <<live, challenge>> \o <<>>
    BY <1>1, <1>3, <1>4 DEF RunnerImages
  <2>2. RunnerImages(env) = <<live, challenge>>
    BY <2>1
  <2>3. Many(env) = 2 /\ Many(env) - 1 = 1 /\ Many(env) + 1 = 3
    BY <1>4 DEF Many
  <2>4. DOMAIN ComparedImages(env) = 1..2
    BY <1>1, <1>4
  <2>5. /\ RunnerImages(env)[1] = live /\ RunnerImages(env)[2] = challenge
        /\ DOMAIN RunnerImages(env) = 1..2
    BY <2>2
  <2> QED  BY <1>4, <2>5, <2>3, <2>4, Zenon DEF live, challenge
<1>5. CASE Badge(env) /\ env.unilluminated
  <2>1. RunnerImages(env) = <<live, challenge>> \o <<partner>>
    BY <1>1, <1>3, <1>5 DEF RunnerImages
  <2>2. /\ RunnerImages(env)[1] = live /\ RunnerImages(env)[2] = challenge
        /\ RunnerImages(env)[3] = partner /\ DOMAIN RunnerImages(env) = 1..3
    BY <2>1
  <2>3. Many(env) = 2 /\ Many(env) - 1 = 1 /\ Many(env) + 1 = 3
    BY <1>5 DEF Many
  <2>4. DOMAIN ComparedImages(env) = 1..2
    BY <1>1, <1>5
  <2> QED  BY <1>5, <2>2, <2>3, <2>4, Zenon DEF live, challenge, partner
<1>6. CASE ~Badge(env) /\ ~env.unilluminated
  <2>1. RunnerImages(env) = <<credential, live, challenge>> \o <<>>
    BY <1>2, <1>3, <1>6 DEF RunnerImages
  <2>2. RunnerImages(env) = <<credential, live, challenge>>
    BY <2>1
  <2>3. Many(env) = 3 /\ Many(env) - 1 = 2 /\ Many(env) + 1 = 4
    BY <1>6 DEF Many
  <2>4. DOMAIN ComparedImages(env) = 1..3
    BY <1>2, <1>6
  <2>5. /\ RunnerImages(env)[1] = credential /\ RunnerImages(env)[2] = live /\ RunnerImages(env)[3] = challenge
        /\ DOMAIN RunnerImages(env) = 1..3
    BY <2>2
  <2> QED  BY <1>6, <2>5, <2>3, <2>4, Zenon DEF live, credential, challenge
<1>7. CASE ~Badge(env) /\ env.unilluminated
  <2>1. RunnerImages(env) = <<credential, live, challenge>> \o <<partner>>
    BY <1>2, <1>3, <1>7 DEF RunnerImages
  <2>2. /\ RunnerImages(env)[1] = credential /\ RunnerImages(env)[2] = live
        /\ RunnerImages(env)[3] = challenge /\ RunnerImages(env)[4] = partner
        /\ DOMAIN RunnerImages(env) = 1..4
    BY <2>1
  <2>3. Many(env) = 3 /\ Many(env) - 1 = 2 /\ Many(env) + 1 = 4
    BY <1>7 DEF Many
  <2>4. DOMAIN ComparedImages(env) = 1..3
    BY <1>2, <1>7
  <2> QED  BY <1>7, <2>2, <2>3, <2>4, Zenon DEF live, credential, challenge, partner
<1> QED  BY <1>4, <1>5, <1>6, <1>7

-----------------------------------------------------------------------------
(* The operation of a request.                                              *)

\* What the adapter reads of a request: each position names its own place.
LEMMA PayloadFacts ==
  ASSUME NEW env, NEW size
  PROVE  LET p == RunnerPayload(env, size)
         IN /\ p.pipeline = (IF Badge(env) THEN GrayBadge ELSE DeepFace) /\ ~p.hints
            /\ DOMAIN p.entries = DOMAIN RunnerImages(env)
            /\ \A i \in DOMAIN RunnerImages(env) : p.entries[i].meta = RunnerImages(env)[i].meta
            /\ DOMAIN p.compare = 1..Many(env) /\ Len(p.compare) = Many(env)
            /\ \A k \in 1..Many(env) : At(p, k) = k
            /\ LivePosition(p) = Many(env) - 2
<1> DEFINE p == RunnerPayload(env, size)
           images == RunnerImages(env)
           n == Many(env)
<1>1. /\ p.pipeline = (IF Badge(env) THEN GrayBadge ELSE DeepFace) /\ ~p.hints
      /\ p.entries = [i \in DOMAIN images |-> [meta |-> images[i].meta, size |-> size]]
      /\ p.compare = [i \in DOMAIN ComparedImages(env) |-> i - 1]
  BY DEF RunnerPayload
<1>2. DOMAIN ComparedImages(env) = 1..n /\ n \in {2, 3}
  BY ImageOrder DEF Many
<1>3. LivePosition(p) = n - 2
  BY <1>1 DEF LivePosition, Many, DeepFace, GrayBadge
<1> HIDE DEF p, images, n
<1>4. p.compare = [i \in 1..n |-> i - 1]
  BY <1>1, <1>2
<1>5. DOMAIN p.compare = 1..n /\ Len(p.compare) = n
  <2>1. p.compare \in Seq(Int)
    BY <1>2, <1>4
  <2> QED  BY <1>2, <1>4, <2>1
<1>6. \A k \in 1..n : At(p, k) = k
  BY <1>2, <1>4 DEF At
<1>7. DOMAIN p.entries = DOMAIN images /\ \A i \in DOMAIN images : p.entries[i].meta = images[i].meta
  BY <1>1
<1> QED  BY <1>1, <1>3, <1>5, <1>6, <1>7 DEF p, images, n

\* The live capture of a request, and of nothing else.
CaptureOf(env) ==
  LET live == Many(env) - 1
      partner == Many(env) + 1
  IN IF ~env.unilluminated THEN Vanilla(live)
     ELSE IF env.frame = "unilluminated" THEN LightGuard(partner, live, "unilluminated")
     ELSE LightGuard(live, partner, "illuminated")

LEMMA OneCapture ==
  ASSUME NEW env, NEW size
  PROVE  LET p == RunnerPayload(env, size)
         IN /\ Captures(p) = {CaptureOf(env)}
            /\ Rest(p) = (IF env.unilluminated THEN {Many(env) + 1} ELSE {})
<1> DEFINE p == RunnerPayload(env, size)
           images == RunnerImages(env)
           n == Many(env)
           e == p.entries
<1>1. /\ DOMAIN e = DOMAIN images /\ \A i \in DOMAIN images : e[i].meta = images[i].meta
      /\ DOMAIN p.compare = 1..n /\ \A k \in 1..n : At(p, k) = k
      /\ LivePosition(p) = n - 2
  BY PayloadFacts
<1>2. n \in {2, 3}
  BY DEF Many
<1>3. DOMAIN images = IF env.unilluminated THEN 1..n + 1 ELSE 1..n
  BY ImageOrder
<1>4. images[n - 1] = LiveImage(env)
  BY ImageOrder
<1>5. env.unilluminated => images[n + 1] = IF env.frame = "unilluminated" THEN Lit ELSE Dark
  BY ImageOrder
<1> HIDE DEF p, images, n, e
<1>6. Rest(p) = {i \in DOMAIN e : i \notin 1..n}
  BY <1>1 DEF Rest, e
<1>7. Rest(p) = IF env.unilluminated THEN {n + 1} ELSE {}
  BY <1>1, <1>2, <1>3, <1>6
<1>8. Captures(p) = LiveCapture(e, n - 1, Rest(p))
  <2>1. LivePosition(p) + 1 = n - 1 /\ n - 1 \in 1..n
    BY <1>1, <1>2
  <2> QED  BY <1>1, <2>1 DEF Captures, e
<1>9. n - 1 \in DOMAIN images /\ (env.unilluminated => n + 1 \in DOMAIN images)
  BY <1>2, <1>3
<1>10. CASE ~env.unilluminated
  <2>0. images[n - 1].meta = ""
    BY <1>4, <1>10, ImageFacts DEF LiveImage
  <2>1. e[n - 1].meta = ""
    BY <1>1, <1>9, <2>0
  <2>2. Captures(p) = {Vanilla(n - 1)}
    BY <1>7, <1>8, <1>10, <2>1 DEF LiveCapture
  <2> QED  BY <1>7, <1>10, <2>2 DEF CaptureOf, p, n
<1>11. CASE env.unilluminated /\ env.frame = "unilluminated"
  <2>1. e[n - 1].meta = "unilluminated" /\ e[n + 1].meta = "illuminated"
    BY <1>1, <1>4, <1>5, <1>9, <1>11, ImageFacts DEF LiveImage
  <2>2. Captures(p) = {LightGuard(n + 1, n - 1, "unilluminated")}
    BY <1>7, <1>8, <1>11, <2>1 DEF LiveCapture
  <2> QED  BY <1>7, <1>11, <2>2 DEF CaptureOf, p, n
<1>12. CASE env.unilluminated /\ env.frame # "unilluminated"
  <2>1. e[n - 1].meta = "illuminated" /\ e[n + 1].meta = "unilluminated"
    BY <1>1, <1>4, <1>5, <1>9, <1>12, ImageFacts DEF LiveImage
  <2>2. Captures(p) = {LightGuard(n - 1, n + 1, "illuminated")}
    BY <1>7, <1>8, <1>12, <2>1 DEF LiveCapture
  <2> QED  BY <1>7, <1>12, <2>2 DEF CaptureOf, p, n
<1> QED  BY <1>10, <1>11, <1>12

(* The adapter refuses no request of the runner, and reads it as it is      *)
(* meant (main.rs 16-95, pipeline.rs 55-150).                               *)
LEMMA RequestUnderstood ==
  ASSUME NEW env, NEW size, Runs(env)
  PROVE  Understood(env, Operation(RunnerPayload(env, size)))
<1> DEFINE p == RunnerPayload(env, size)
           images == RunnerImages(env)
           n == Many(env)
           live == CaptureOf(env)
           o == Operation(p)
<1>1. /\ p.pipeline = (IF Badge(env) THEN GrayBadge ELSE DeepFace) /\ ~p.hints
      /\ DOMAIN p.entries = DOMAIN images /\ \A i \in DOMAIN images : p.entries[i].meta = images[i].meta
      /\ DOMAIN p.compare = 1..n /\ Len(p.compare) = n /\ \A k \in 1..n : At(p, k) = k
      /\ LivePosition(p) = n - 2
  BY PayloadFacts
<1>2. n = (IF Badge(env) THEN 2 ELSE 3) /\ n \in {2, 3}
  BY DEF Many
<1>3. /\ images[n - 1] = LiveImage(env) /\ images[n] = Image("challenge", "")
      /\ ~Badge(env) => images[1] = Image("credential", "")
      /\ env.unilluminated => images[n + 1] = IF env.frame = "unilluminated" THEN Lit ELSE Dark
  BY ImageOrder
<1>4. images[n].role = "challenge" /\ images[n].meta = ""
      /\ (~Badge(env) => images[1].role = "credential" /\ images[1].meta = "")
  <2> HIDE DEF images, n
  <2>0. /\ Image("challenge", "").role = "challenge" /\ Image("challenge", "").meta = ""
        /\ Image("credential", "").role = "credential" /\ Image("credential", "").meta = ""
    BY ImageFacts DEF Image
  <2>1. images[n].role = "challenge" /\ images[n].meta = ""
    <3>1. images[n] = Image("challenge", "")
      BY <1>3
    <3> QED  BY <2>0, <3>1
  <2>2. ~Badge(env) => images[1].role = "credential" /\ images[1].meta = ""
    <3>1. ~Badge(env) => images[1] = Image("credential", "")
      BY <1>3
    <3> QED  BY <2>0, <3>1
  <2> QED  BY <2>1, <2>2
<1>5. Captures(p) = {live} /\ Rest(p) = IF env.unilluminated THEN {n + 1} ELSE {}
  BY OneCapture
<1> HIDE DEF p, images, n, live
<1>6. 1..n \subseteq DOMAIN images /\ 1 \in 1..n /\ n \in 1..n
  <2>1. DOMAIN images = (IF env.unilluminated THEN 1..n + 1 ELSE 1..n)
    BY ImageOrder DEF images, n
  <2>2. 1..n \subseteq 1..n + 1
    BY <1>2
  <2> QED  BY <1>2, <2>1, <2>2
<1>7. Fits(p)
  <2>1. p.pipeline \in {DeepFace, GrayBadge} /\ Len(p.compare) = LivePosition(p) + 2
    BY <1>1, <1>2
  <2>2. AllTaken(p)
    <3>1. 1..n \subseteq DOMAIN p.entries
      BY <1>1, <1>6
    <3> SUFFICES ASSUME NEW k \in 1..n  PROVE At(p, k) \in DOMAIN p.entries /\ \A j \in 1..(k - 1) : At(p, j) # At(p, k)
      BY <1>1 DEF AllTaken
    <3>2. \A j \in 1..(k - 1) : j \in 1..n /\ j # k
      BY <1>2
    <3> QED  BY <1>1, <3>1, <3>2
  <2>3. (\A i, j \in Rest(p) : i = j) /\ Captures(p) # {}
    BY <1>5
  <2>4. Plain(p, LivePosition(p) + 2)
    <3>1. LivePosition(p) + 2 = n /\ n \in DOMAIN images
      BY <1>1, <1>2, <1>6
    <3> QED  BY <1>4, <1>1, <1>6, <3>1 DEF Plain
  <2>5. p.pipeline = DeepFace => Plain(p, 1)
    <3> SUFFICES ASSUME p.pipeline = DeepFace  PROVE Plain(p, 1)
      OBVIOUS
    <3>1. ~Badge(env)
      BY <1>1 DEF DeepFace, GrayBadge
    <3>2. 1 \in 1..n /\ 1 \in DOMAIN images
      BY <1>6
    <3> QED  BY <1>4, <1>1, <3>1, <3>2 DEF Plain
  <2> QED  BY <1>1, <2>1, <2>2, <2>3, <2>4, <2>5 DEF Fits
<1>8. (CHOOSE c \in Captures(p) : TRUE) = live
  BY <1>5
<1>9. /\ ~Badge(env) => o = [kind |-> "deepface", credential |-> 1, live |-> live, challenge |-> n]
      /\ Badge(env) => o = [kind |-> "graybadge", live |-> live, challenge |-> n]
  <2>1. CASE ~Badge(env)
    <3>1. At(p, 1) = 1 /\ At(p, 3) = n /\ p.pipeline = DeepFace
      BY <1>1, <1>2, <2>1
    <3> QED  BY <1>7, <1>8, <2>1, <3>1 DEF Operation
  <2>2. CASE Badge(env)
    <3>1. At(p, 2) = n /\ p.pipeline # DeepFace
      BY <1>1, <1>2, <2>2 DEF DeepFace, GrayBadge
    <3> QED  BY <1>7, <1>8, <2>2, <3>1 DEF Operation
  <2> QED  BY <2>1, <2>2
<1> HIDE DEF o
<1>10. o.live = live /\ o.challenge = n
  BY <1>9
<1>11. /\ images[live.illuminated].role = "live"
      /\ images[live.unilluminated].role = (IF env.unilluminated THEN "unilluminated" ELSE "live")
      /\ live.matching = (IF env.frame = "unilluminated" THEN "unilluminated" ELSE "illuminated")
  <2> USE DEF Vanilla, LightGuard
  <2>1. CASE ~env.unilluminated
    <3>1. live = Vanilla(n - 1) /\ images[n - 1].role = "live"
      <4>1. live = Vanilla(n - 1)
        BY <2>1 DEF live, n, CaptureOf
      <4>2. images[n - 1] = LivePlain
        BY <1>3, <2>1 DEF LiveImage
      <4> QED  BY <4>1, <4>2, ImageFacts
    <3>2. env.frame # "unilluminated"
      BY <2>1 DEF Runs
    <3> QED  BY <2>1, <3>1, <3>2
  <2>2. CASE env.unilluminated /\ env.frame = "unilluminated"
    <3>1. live = LightGuard(n + 1, n - 1, "unilluminated")
      BY <2>2 DEF live, n, CaptureOf
    <3>2. images[n - 1].role = "unilluminated" /\ images[n + 1].role = "live"
      BY <1>3, <2>2, ImageFacts, Zenon DEF LiveImage
    <3> QED  BY <2>2, <3>1, <3>2
  <2>3. CASE env.unilluminated /\ env.frame # "unilluminated"
    <3>1. live = LightGuard(n - 1, n + 1, "illuminated")
      BY <2>3 DEF live, n, CaptureOf
    <3>2. images[n - 1].role = "live" /\ images[n + 1].role = "unilluminated"
      BY <1>3, <2>3, ImageFacts, Zenon DEF LiveImage
    <3> QED  BY <2>3, <3>1, <3>2
  <2> QED  BY <2>1, <2>2, <2>3
<1>12. /\ o.kind = (IF Badge(env) THEN "graybadge" ELSE "deepface")
       /\ o.kind = "deepface" => images[o.credential].role = "credential"
  <2>1. CASE Badge(env)
    <3>1. o.kind = "graybadge"
      BY <1>9, <2>1
    <3> QED  BY <2>1, <3>1
  <2>2. CASE ~Badge(env)
    <3>1. o.kind = "deepface" /\ o.credential = 1
      BY <1>9, <2>2
    <3> QED  BY <1>4, <2>2, <3>1
  <2> QED  BY <2>1, <2>2
<1>13. /\ images[o.challenge].role = "challenge" /\ images[o.live.illuminated].role = "live"
       /\ images[o.live.unilluminated].role = (IF env.unilluminated THEN "unilluminated" ELSE "live")
       /\ o.live.matching = (IF env.frame = "unilluminated" THEN "unilluminated" ELSE "illuminated")
  BY <1>4, <1>10, <1>11
<1> QED  BY <1>12, <1>13 DEF Understood, images, p, o

-----------------------------------------------------------------------------
(* The theorem.                                                             *)

\* While a payload is there, the operation is the one the adapter made of it,
\* whether the request goes on or has ended.
Adapted == asked # None => op = Operation(asked)

LEMMA AdaptedStep ==
  ASSUME Adapted, [Next]_vars
  PROVE  Adapted'
<1> USE DEF Adapted, requestVars
<1>1. ASSUME NEW p \in Payload, Prepare(p)  PROVE Adapted'
  BY <1>1 DEF Prepare
<1>2. ASSUME Stop  PROVE Adapted'
  BY <1>2 DEF Stop
<1>3. ASSUME UNCHANGED requestVars  PROVE Adapted'
  BY <1>3
<1>4. CASE Evaluate
  BY <1>2, <1>3, <1>4 DEF Evaluate, Fail
<1>5. CASE Work \/ Repeat \/ Corrupt \/ Boot
  BY <1>3, <1>5 DEF Work, Repeat, Corrupt, Boot
<1>6. CASE Read
  BY <1>2, <1>3, <1>6 DEF Read, Fail
<1>7. CASE Crash
  BY <1>2, <1>7 DEF Crash
<1>8. CASE UNCHANGED vars
  BY <1>3, <1>8 DEF vars
<1> QED  BY <1>1, <1>4, <1>5, <1>6, <1>7, <1>8 DEF Next

(* Whatever environment the runner accepts, whatever the strictness and the *)
(* size of the images: no adapter refuses its request, and each file is     *)
(* compared under the role the environment gave it (main.rs 16-95).         *)
THEOREM RunnersAreUnderstood == Spec => []RunnerIsUnderstood
<1>1. Init => Adapted
  BY DEF Init, Adapted
<1>2. Adapted /\ [Next]_vars => Adapted'
  BY AdaptedStep
<1>3. Adapted => RunnerIsUnderstood
  <2> SUFFICES ASSUME Adapted, NEW env \in Environment, NEW size \in 1..MaxImage,
                      Runs(env), asked = RunnerPayload(env, size)
               PROVE  Understood(env, op)
    BY DEF RunnerIsUnderstood
  <2>1. asked # None
    BY RunnerAssumption
  <2>2. op = Operation(RunnerPayload(env, size))
    BY <2>1 DEF Adapted
  <2> QED  BY <2>2, RequestUnderstood
<1> QED  BY <1>1, <1>2, <1>3, PTL DEF Spec

=============================================================================
