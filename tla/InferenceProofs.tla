-------------------------- MODULE InferenceProofs --------------------------
(***************************************************************************)
(* Theorems of Inference, for every set of payloads and failures, every    *)
(* table of thresholds and every resolution of the scores.                 *)
(***************************************************************************)
EXTENDS Inference, FiniteSetTheorems, SequenceTheorems, WellFoundedInduction, TLAPS

-----------------------------------------------------------------------------
(* Scores.                                                                  *)

LEMMA Division ==
  ASSUME NEW a \in Int, NEW g \in Nat \ {0}
  PROVE  /\ a \div g \in Int
         /\ (a \div g) * g <= a /\ a < (a \div g) * g + g
OBVIOUS

LEMMA NoMultipleBetween ==
  ASSUME NEW q \in Int, NEW k \in Int, NEW g \in Nat \ {0}, q * g < k * g + g
  PROVE  q <= k
OBVIOUS

LEMMA MultiplesGrow ==
  ASSUME NEW q \in Int, NEW k \in Int, NEW g \in Nat \ {0}, q <= k
  PROVE  q * g <= k * g
OBVIOUS

LEMMA Halves ==
  ASSUME NEW g \in Nat \ {0}
  PROVE  g \div 2 \in Nat /\ 2 * (g \div 2) <= g /\ g <= 2 * (g \div 2) + 1
OBVIOUS

\* A set of naturals that is not empty has a least element.
LEMMA LeastOfNaturals ==
  ASSUME NEW S \in SUBSET Nat, S # {}
  PROVE  Min(S) \in S /\ \A y \in S : Min(S) <= y
<1>1. PICK x \in S : \A y \in S : <<y, x>> \notin OpToRel(<, Nat)
  BY NatLessThanWellFounded, WFMin
<1>2. \A y \in S : x <= y
  <2> SUFFICES ASSUME NEW y \in S  PROVE x <= y
    OBVIOUS
  <2>1. ~(y < x)
    BY <1>1 DEF OpToRel
  <2> QED  BY <2>1
<1> QED  BY <1>2 DEF Min

(* The distance of the f32 numbers next to a score, or to the sum of One    *)
(* and a score: at most Grain and at most twice as much, and a divisor of   *)
(* One, which is therefore a number of f32 itself.                          *)
LEMMA SpacingFacts ==
  ASSUME NEW v \in -(2 * One)..(2 * One)
  PROVE  /\ Spacing(v) \in Nat \ {0} /\ Spacing(v) <= 2 * Grain
         /\ v \in -One..One => Spacing(v) <= Grain
         /\ \E k \in Int : One = k * Spacing(v)
<1> USE ScoreAssumption
<1> DEFINE n == One \div (4 * Grain)
<1>1. n \in Int /\ One = n * (4 * Grain)
  <2>1. 4 * Grain \in Nat \ {0}
    OBVIOUS
  <2> QED  BY <2>1
<1> HIDE DEF n
<1>2. Digits = 4 * n
  <2>1. One = (4 * n) * Grain /\ 4 * n \in Int
    BY <1>1
  <2>2. (One \div Grain) * Grain <= One /\ One < (One \div Grain) * Grain + Grain /\ One \div Grain \in Int
    BY Division
  <2>3. One \div Grain <= 4 * n /\ 4 * n <= One \div Grain
    BY <2>1, <2>2, NoMultipleBetween
  <2> QED  BY <2>1, <2>2, <2>3 DEF Digits
<1>3. Digits * Grain = One /\ Digits * (2 * Grain) = 2 * One
  BY <1>1, <1>2
<1>4. (4 * Grain) % (2 * Grain) = 0 /\ (4 * Grain) % Grain = 0
  OBVIOUS
<1>5. 2 * Grain \in Spacings(v) /\ (v \in -One..One => Grain \in Spacings(v))
  BY <1>3, <1>4 DEF Spacings
<1>6. /\ Spacing(v) \in Spacings(v) /\ Spacing(v) <= 2 * Grain
      /\ v \in -One..One => Spacing(v) <= Grain
  <2>1. Spacings(v) \in SUBSET Nat
    BY DEF Spacings
  <2> QED  BY <1>5, <2>1, LeastOfNaturals DEF Spacing
<1>7. Spacing(v) \in Nat \ {0} /\ (4 * Grain) % Spacing(v) = 0
  BY <1>6 DEF Spacings
<1> DEFINE u == Spacing(v)
           j == (4 * Grain) \div u
<1>8. j \in Int /\ 4 * Grain = j * u
  <2>1. 4 * Grain \in Int
    OBVIOUS
  <2> HIDE DEF u
  <2> QED  BY <1>7, <2>1 DEF u
<1> HIDE DEF j, u
<1>9. One = (n * j) * u /\ n * j \in Int
  BY <1>1, <1>7, <1>8 DEF u
<1> QED  BY <1>6, <1>7, <1>9 DEF u

(* Rounding gives a multiple of the distance, no further away than half of  *)
(* it.                                                                      *)
LEMMA RoundEvenFacts ==
  ASSUME NEW v \in Int, NEW u \in Nat \ {0}
  PROVE  \E m \in Int : /\ RoundEven(v, u) = m * u
                        /\ 2 * (m * u) <= 2 * v + u /\ 2 * v <= 2 * (m * u) + u
<1> DEFINE q == v \div u
           r == v % u
<1>1. q \in Int /\ r \in 0..(u - 1) /\ v = q * u + r
  OBVIOUS
<1>2. RoundEven(v, u) = IF 2 * r < u \/ (2 * r = u /\ q % 2 = 0) THEN q * u ELSE (q + 1) * u
  BY DEF RoundEven
<1> HIDE DEF q, r
<1>3. q * u \in Int /\ (q + 1) * u = q * u + u
  BY <1>1
<1>4. CASE 2 * r < u \/ (2 * r = u /\ q % 2 = 0)
  <2>1. 2 * (q * u) <= 2 * v + u /\ 2 * v <= 2 * (q * u) + u
    BY <1>1, <1>3, <1>4
  <2> QED  BY <1>1, <1>2, <1>4, <2>1
<1>5. CASE ~(2 * r < u \/ (2 * r = u /\ q % 2 = 0))
  <2>1. 2 * r >= u
    BY <1>1, <1>5
  <2>2. 2 * ((q + 1) * u) <= 2 * v + u /\ 2 * v <= 2 * ((q + 1) * u) + u
    BY <1>1, <1>3, <2>1
  <2>3. q + 1 \in Int
    BY <1>1
  <2> QED  BY <1>2, <1>5, <2>2, <2>3
<1> QED  BY <1>4, <1>5

(* A conversion to f32 does not pass a multiple of the distance, so it      *)
(* stays within bounds that are numbers of f32.                             *)
LEMMA RoundsWithin ==
  ASSUME NEW m \in Int, NEW k \in Int, NEW u \in Nat \ {0}, NEW v \in Int
  PROVE  /\ v <= k * u /\ 2 * (m * u) <= 2 * v + u => m * u <= k * u
         /\ k * u <= v /\ 2 * v <= 2 * (m * u) + u => k * u <= m * u
<1>1. m * u \in Int /\ k * u \in Int
  OBVIOUS
<1>2. ASSUME v <= k * u, 2 * (m * u) <= 2 * v + u  PROVE m * u <= k * u
  <2>1. m * u < k * u + u
    BY <1>1, <1>2
  <2> QED  BY <2>1, NoMultipleBetween, MultiplesGrow
<1>3. ASSUME k * u <= v, 2 * v <= 2 * (m * u) + u  PROVE k * u <= m * u
  <2>1. k * u < m * u + u
    BY <1>1, <1>3
  <2> QED  BY <2>1, NoMultipleBetween, MultiplesGrow
<1> QED  BY <1>2, <1>3

(* The conversions of a score and of the sum of One and a score.            *)
LEMMA ToF32OfScore ==
  ASSUME NEW v \in -One..One
  PROVE  ToF32(v) \in -One..One /\ 2 * ToF32(v) <= 2 * v + Grain /\ 2 * v <= 2 * ToF32(v) + Grain
<1> USE ScoreAssumption
<1> DEFINE u == Spacing(v)
<1>1. v \in Int /\ v \in -(2 * One)..(2 * One)
  OBVIOUS
<1>2. u \in Nat \ {0} /\ u <= Grain /\ \E k \in Int : One = k * u
  BY <1>1, SpacingFacts
<1> HIDE DEF u
<1>3. PICK k \in Int : One = k * u
  BY <1>2
<1>4. PICK m \in Int : /\ RoundEven(v, u) = m * u
                       /\ 2 * (m * u) <= 2 * v + u /\ 2 * v <= 2 * (m * u) + u
  BY <1>1, <1>2, RoundEvenFacts
<1>5. m * u <= k * u
  BY <1>1, <1>2, <1>3, <1>4, RoundsWithin
<1>6. (-k) * u = -One /\ -k \in Int
  BY <1>2, <1>3
<1>7. (-k) * u <= m * u
  <2>1. (-k) * u <= v
    BY <1>6
  <2> QED  BY <1>1, <1>2, <1>4, <1>6, <2>1, RoundsWithin
<1>8. ToF32(v) = m * u /\ m * u \in Int
  BY <1>2, <1>4 DEF ToF32, u
<1> HIDE DEF ToF32
<1> QED  BY <1>2, <1>3, <1>4, <1>5, <1>6, <1>7, <1>8

LEMMA ToF32OfSum ==
  ASSUME NEW v \in 0..2*One
  PROVE  ToF32(v) \in 0..2*One /\ ToF32(v) <= v + Grain /\ v <= ToF32(v) + Grain
<1> USE ScoreAssumption
<1> DEFINE u == Spacing(v)
<1>1. v \in Int /\ v \in -(2 * One)..(2 * One)
  OBVIOUS
<1>2. u \in Nat \ {0} /\ u <= 2 * Grain /\ \E k \in Int : One = k * u
  BY <1>1, SpacingFacts
<1> HIDE DEF u
<1>3. PICK k \in Int : One = k * u
  BY <1>2
<1>4. PICK m \in Int : /\ RoundEven(v, u) = m * u
                       /\ 2 * (m * u) <= 2 * v + u /\ 2 * v <= 2 * (m * u) + u
  BY <1>1, <1>2, RoundEvenFacts
<1>5. (2 * k) * u = 2 * One /\ 2 * k \in Int /\ 0 * u = 0
  BY <1>2, <1>3
<1>6. m * u <= (2 * k) * u
  <2>1. v <= (2 * k) * u
    BY <1>5
  <2> QED  BY <1>1, <1>2, <1>4, <1>5, <2>1, RoundsWithin
<1>7. 0 * u <= m * u
  <2>1. PICK z \in Int : z = 0
    OBVIOUS
  <2>2. z * u = 0 /\ z * u <= v
    BY <1>2, <2>1
  <2>3. z * u <= m * u
    BY <1>1, <1>2, <1>4, <2>2, RoundsWithin
  <2> QED  BY <1>5, <2>2, <2>3
<1>8. ToF32(v) = m * u /\ m * u \in Int
  BY <1>2, <1>4 DEF ToF32, u
<1> HIDE DEF ToF32
<1> QED  BY <1>2, <1>4, <1>5, <1>6, <1>7, <1>8

(* Normalising a score the client lets through stays within 0..1 and moves  *)
(* it by at most three quarters of 2 * Grain, the distance of normalised    *)
(* scores in f32: a quarter when the score is converted, half when the      *)
(* midpoint is (biometric_engine.rs 193-199).                               *)
LEMMA NormalizedScore ==
  ASSUME NEW s \in -One..One
  PROVE  /\ Normalized(s) \in 0..2*One
         /\ Normalized(s) <= One + s + RoundingError
         /\ One + s <= Normalized(s) + RoundingError
<1> USE ScoreAssumption
<1> DEFINE a == ToF32(s)
           b == ToF32(One + a)
           h == Grain \div 2
<1>1. a \in -One..One /\ 2 * a <= 2 * s + Grain /\ 2 * s <= 2 * a + Grain
  BY ToF32OfScore
<1>2. h \in Nat /\ Grain <= 2 * h + 1
  BY Halves
<1> HIDE DEF a, h
<1>3. One + a \in 0..2*One
  BY <1>1
<1>4. b \in 0..2*One /\ b <= One + a + Grain /\ One + a <= b + Grain
  BY <1>3, ToF32OfSum
<1> HIDE DEF b
<1>5. a <= s + h /\ s <= a + h
  BY <1>1, <1>2
<1>6. Normalized(s) = b /\ RoundingError = Grain + h
  BY DEF Normalized, RoundingError, a, b, h
<1> HIDE DEF Normalized
<1> QED  BY <1>1, <1>2, <1>4, <1>5, <1>6

-----------------------------------------------------------------------------
(* Layouts.                                                                 *)

LiveOf(p) == CHOOSE c \in Captures(p) : TRUE

LEMMA OperationCases ==
  ASSUME NEW p
  PROVE  /\ ~Fits(p) => Operation(p) = Unsupported
         /\ Fits(p) /\ p.pipeline = DeepFace =>
              Operation(p) = [kind |-> "deepface", credential |-> At(p, 1), live |-> LiveOf(p), challenge |-> At(p, 3)]
         /\ Fits(p) /\ p.pipeline # DeepFace =>
              Operation(p) = [kind |-> "graybadge", live |-> LiveOf(p), challenge |-> At(p, 2)]
BY DEF Operation, LiveOf

(* The frame compared of a capture is the entry that compare names, and its *)
(* frames carry the metadata they are told apart by.                        *)
LEMMA CaptureFrames ==
  ASSUME NEW e, NEW live, NEW rest, NEW c \in LiveCapture(e, live, rest)
  PROVE  /\ Compared(c) = live
         /\ c.source = "light_guard" =>
              e[c.illuminated].meta = "illuminated" /\ e[c.unilluminated].meta = "unilluminated"
<1> DEFINE Lit(i) == LightGuard(live, i, "illuminated")
           Dark(i) == LightGuard(i, live, "unilluminated")
<1>1. \/ c = Vanilla(live)
      \/ \E i \in rest : c = Lit(i) /\ e[live].meta = "illuminated" /\ e[i].meta = "unilluminated"
      \/ \E i \in rest : c = Dark(i) /\ e[live].meta = "unilluminated" /\ e[i].meta = "illuminated"
  <2> HIDE DEF Lit, Dark
  <2> QED  BY Zenon DEF LiveCapture, Lit, Dark
<1>2. CASE c = Vanilla(live)
  BY <1>2 DEF Compared, Vanilla
<1>3. ASSUME NEW i \in rest, c = Lit(i), e[live].meta = "illuminated", e[i].meta = "unilluminated"
      PROVE  /\ Compared(c) = live /\ c.illuminated = live /\ c.unilluminated = i
  BY <1>3 DEF Compared, LightGuard
<1>4. ASSUME NEW i \in rest, c = Dark(i), e[live].meta = "unilluminated", e[i].meta = "illuminated"
      PROVE  /\ Compared(c) = live /\ c.illuminated = i /\ c.unilluminated = live
  BY <1>4 DEF Compared, LightGuard
<1> HIDE DEF Lit, Dark
<1> QED  BY <1>1, <1>2, <1>3, <1>4

(* The operation of a payload compares the entries its positions name, in   *)
(* the documented roles (pipeline.rs 11-14, 81-127).                        *)
LEMMA OperationFacts ==
  ASSUME NEW p \in Payload, Operation(p) # Unsupported
  PROVE  /\ Fits(p)
         /\ Operation(p).kind \in {"deepface", "graybadge"}
         /\ Pairs(Operation(p)) = Wanted(p)
         /\ Operation(p).live.source = "light_guard" =>
              /\ p.entries[Operation(p).live.illuminated].meta = "illuminated"
              /\ p.entries[Operation(p).live.unilluminated].meta = "unilluminated"
<1>1. Fits(p) /\ p.pipeline \in {DeepFace, GrayBadge}
  BY OperationCases DEF Fits
<1>2. LiveOf(p) \in LiveCapture(p.entries, At(p, LivePosition(p) + 1), Rest(p))
  BY <1>1 DEF LiveOf, Fits, Captures
<1>3. Compared(LiveOf(p)) = At(p, LivePosition(p) + 1)
  BY <1>2, CaptureFrames
<1>4. LiveOf(p).source = "light_guard" =>
        /\ p.entries[LiveOf(p).illuminated].meta = "illuminated"
        /\ p.entries[LiveOf(p).unilluminated].meta = "unilluminated"
  BY <1>2, CaptureFrames
<1>5. CASE p.pipeline = DeepFace
  <2>1. Operation(p) = [kind |-> "deepface", credential |-> At(p, 1), live |-> LiveOf(p), challenge |-> At(p, 3)]
    BY <1>1, <1>5, OperationCases
  <2>2. Compared(LiveOf(p)) = At(p, 2)
    BY <1>3, <1>5 DEF LivePosition
  <2>3. Pairs(Operation(p)) = Wanted(p)
    BY <1>5, <2>1, <2>2 DEF Pairs, Wanted
  <2> QED  BY <1>1, <1>4, <2>1, <2>3
<1>6. CASE p.pipeline # DeepFace
  <2>1. Operation(p) = [kind |-> "graybadge", live |-> LiveOf(p), challenge |-> At(p, 2)]
    BY <1>1, <1>6, OperationCases
  <2>2. Compared(LiveOf(p)) = At(p, 1)
    BY <1>3, <1>6 DEF LivePosition
  <2>3. Pairs(Operation(p)) = Wanted(p)
    BY <1>6, <2>1, <2>2 DEF Pairs, Wanted
  <2> QED  BY <1>1, <1>4, <2>1, <2>3
<1> QED  BY <1>5, <1>6

LEMMA TwoElements ==
  ASSUME NEW a, NEW b
  PROVE  IsFiniteSet({a, b}) /\ (Cardinality({a, b}) = 2 <=> a # b) /\ Cardinality({a, b}) <= 2
<1>1. IsFiniteSet({a}) /\ Cardinality({a}) = 1
  BY FS_Singleton
<1>2. {a, b} = {a} \union {b} /\ (b \in {a} <=> a = b)
  OBVIOUS
<1>3. Cardinality({a} \union {b}) = (IF b \in {a} THEN Cardinality({a}) ELSE Cardinality({a}) + 1)
      /\ IsFiniteSet({a} \union {b})
  BY <1>1, FS_AddElement
<1> QED  BY <1>1, <1>2, <1>3

LEMMA ThreeElements ==
  ASSUME NEW a, NEW b, NEW c
  PROVE  Cardinality({a, b, c}) = 3 <=> a # b /\ a # c /\ b # c
<1>1. IsFiniteSet({a, b}) /\ (Cardinality({a, b}) = 2 <=> a # b) /\ Cardinality({a, b}) <= 2
  BY TwoElements
<1>2. {a, b, c} = {a, b} \union {c} /\ (c \in {a, b} <=> a = c \/ b = c)
  OBVIOUS
<1>3. Cardinality({a, b} \union {c}) =
        (IF c \in {a, b} THEN Cardinality({a, b}) ELSE Cardinality({a, b}) + 1)
  BY <1>1, FS_AddElement
<1>4. Cardinality({a, b}) \in Nat
  BY <1>1, FS_CardinalityType
<1> QED  BY <1>1, <1>2, <1>3, <1>4

\* What both sides say of the entries that are left over.
OneCapture(e, live, rest) ==
  \/ rest = {} /\ e[live].meta = ""
  \/ \E i \in rest : rest = {i} /\ {e[live].meta, e[i].meta} = {"illuminated", "unilluminated"}

LEMMA CaptureExists ==
  ASSUME NEW e, NEW live, NEW rest
  PROVE  (\A i, j \in rest : i = j) /\ LiveCapture(e, live, rest) # {} <=> OneCapture(e, live, rest)
<1>1. CASE rest = {}
  BY <1>1 DEF LiveCapture, OneCapture
<1>2. ASSUME NEW i \in rest, rest # {i}
      PROVE  ~(\A j, k \in rest : j = k) /\ ~OneCapture(e, live, rest)
  BY <1>2 DEF OneCapture
<1>3. ASSUME NEW i \in rest, rest = {i}
      PROVE  LiveCapture(e, live, rest) # {} <=> OneCapture(e, live, rest)
  <2> DEFINE lit == e[live].meta = "illuminated" /\ e[i].meta = "unilluminated"
             dark == e[live].meta = "unilluminated" /\ e[i].meta = "illuminated"
  <2>1. LiveCapture(e, live, rest) # {} <=> lit \/ dark
    <3>1. LiveCapture(e, live, rest) =
            {LightGuard(live, j, "illuminated") :
               j \in {k \in rest : e[live].meta = "illuminated" /\ e[k].meta = "unilluminated"}}
            \union
            {LightGuard(j, live, "unilluminated") :
               j \in {k \in rest : e[live].meta = "unilluminated" /\ e[k].meta = "illuminated"}}
      BY <1>3 DEF LiveCapture
    <3>2. CASE lit
      <4>1. LightGuard(live, i, "illuminated") \in LiveCapture(e, live, rest)
        BY <3>1, <3>2, Zenon
      <4> QED  BY <4>1, <3>2
    <3>3. CASE dark
      <4>1. LightGuard(i, live, "unilluminated") \in LiveCapture(e, live, rest)
        BY <3>1, <3>3, Zenon
      <4> QED  BY <4>1, <3>3
    <3>4. CASE ~lit /\ ~dark
      BY <1>3, <3>1, <3>4, Zenon
    <3> QED  BY <3>2, <3>3, <3>4
  <2>2. OneCapture(e, live, rest) <=> {e[live].meta, e[i].meta} = {"illuminated", "unilluminated"}
    BY <1>3 DEF OneCapture
  <2>3. {e[live].meta, e[i].meta} = {"illuminated", "unilluminated"} <=> lit \/ dark
    OBVIOUS
  <2> QED  BY <2>1, <2>2, <2>3
<1> QED  BY <1>1, <1>2, <1>3

(* The adapter accepts exactly the documented layouts (pipeline.rs 75-127). *)
LEMMA LayoutsAgree ==
  ASSUME NEW p \in Payload
  PROVE  Fits(p) <=> ValidLayout(p)
<1> DEFINE n == Len(p.compare)
           at == {At(p, k) : k \in DOMAIN p.compare}
           live == At(p, n - 1)
<1>1. p.compare \in Seq(Nat) /\ n \in Nat /\ DOMAIN p.compare = 1..n
  BY InferenceAssumption DEF PayloadShape
<1>2. Rest(p) = DOMAIN p.entries \ at
  BY Zenon DEF Rest
<1>3. CASE p.pipeline = DeepFace /\ n = 3
  <2>1. at = {At(p, 1), At(p, 2), At(p, 3)} /\ live = At(p, 2)
    <3>1. 1..3 = {1, 2, 3}
      OBVIOUS
    <3> QED  BY <1>1, <1>3, <3>1
  <2>2. AllTaken(p) <=> at \subseteq DOMAIN p.entries
          /\ At(p, 1) # At(p, 2) /\ At(p, 1) # At(p, 3) /\ At(p, 2) # At(p, 3)
    <3>1. DOMAIN p.compare = {1, 2, 3} /\ 1..(1 - 1) = {} /\ 1..(2 - 1) = {1} /\ 1..(3 - 1) = {1, 2}
      BY <1>1, <1>3
    <3> HIDE DEF n, at
    <3> QED  BY <2>1, <3>1 DEF AllTaken
  <2>3. Cardinality(at) = 3 <=> At(p, 1) # At(p, 2) /\ At(p, 1) # At(p, 3) /\ At(p, 2) # At(p, 3)
    <3>1. \A a, b, c : Cardinality({a, b, c}) = 3 <=> a # b /\ a # c /\ b # c
      BY ThreeElements, Zenon
    <3>2. Cardinality({At(p, 1), At(p, 2), At(p, 3)}) = 3 <=>
            At(p, 1) # At(p, 2) /\ At(p, 1) # At(p, 3) /\ At(p, 2) # At(p, 3)
      BY <3>1
    <3> HIDE DEF at
    <3> QED  BY <2>1, <3>2
  <2>4. (\A i, j \in Rest(p) : i = j) /\ Captures(p) # {} <=> OneCapture(p.entries, live, Rest(p))
    BY <1>3, <2>1, CaptureExists DEF Captures, LivePosition
  <2>5. Fits(p) <=> /\ ~p.hints /\ AllTaken(p)
                    /\ OneCapture(p.entries, live, Rest(p)) /\ Plain(p, 3) /\ Plain(p, 1)
    BY <1>3, <2>4 DEF Fits, LivePosition
  <2>6. ValidLayout(p) <=>
          /\ ~p.hints /\ at \subseteq DOMAIN p.entries /\ Cardinality(at) = 3
          /\ \A i \in at \ {live} : p.entries[i].meta = ""
          /\ OneCapture(p.entries, live, DOMAIN p.entries \ at)
    BY <1>3 DEF ValidLayout, OneCapture
  <2>7. Cardinality(at) = 3 => ((\A i \in at \ {live} : p.entries[i].meta = "") <=> Plain(p, 3) /\ Plain(p, 1))
    <3> HIDE DEF at, live
    <3> QED  BY <2>1, <2>3 DEF Plain
  <2> HIDE DEF at, live, n
  <2> QED  BY <1>2, <2>2, <2>3, <2>5, <2>6, <2>7
<1>4. CASE p.pipeline = GrayBadge /\ n = 2
  <2>0. p.pipeline # DeepFace
    BY <1>4 DEF DeepFace, GrayBadge
  <2>1. at = {At(p, 1), At(p, 2)} /\ live = At(p, 1)
    <3>1. 1..2 = {1, 2}
      OBVIOUS
    <3> QED  BY <1>1, <1>4, <3>1
  <2>2. AllTaken(p) <=> at \subseteq DOMAIN p.entries /\ At(p, 1) # At(p, 2)
    <3>1. DOMAIN p.compare = {1, 2} /\ 1..(1 - 1) = {} /\ 1..(2 - 1) = {1}
      BY <1>1, <1>4
    <3> HIDE DEF n, at
    <3> QED  BY <2>1, <3>1 DEF AllTaken
  <2>3. Cardinality(at) = 2 <=> At(p, 1) # At(p, 2)
    <3> HIDE DEF at
    <3> QED  BY <2>1, TwoElements, Zenon
  <2>4. (\A i, j \in Rest(p) : i = j) /\ Captures(p) # {} <=> OneCapture(p.entries, live, Rest(p))
    BY <2>0, <2>1, CaptureExists DEF Captures, LivePosition
  <2>5. Fits(p) <=> /\ ~p.hints /\ AllTaken(p)
                    /\ OneCapture(p.entries, live, Rest(p)) /\ Plain(p, 2)
    BY <1>4, <2>0, <2>4 DEF Fits, LivePosition
  <2>6. ValidLayout(p) <=>
          /\ ~p.hints /\ at \subseteq DOMAIN p.entries /\ Cardinality(at) = 2
          /\ \A i \in at \ {live} : p.entries[i].meta = ""
          /\ OneCapture(p.entries, live, DOMAIN p.entries \ at)
    BY <1>4, <2>0 DEF ValidLayout, OneCapture
  <2>7. Cardinality(at) = 2 => ((\A i \in at \ {live} : p.entries[i].meta = "") <=> Plain(p, 2))
    <3> HIDE DEF at, live
    <3> QED  BY <2>1, <2>3 DEF Plain
  <2> HIDE DEF at, live, n
  <2> QED  BY <1>2, <2>2, <2>3, <2>5, <2>6, <2>7
<1>5. CASE ~(p.pipeline = DeepFace /\ n = 3) /\ ~(p.pipeline = GrayBadge /\ n = 2)
  <2>1. Fits(p) => FALSE
    BY <1>5 DEF Fits, LivePosition, DeepFace, GrayBadge
  <2>2. ValidLayout(p) => FALSE
    BY <1>5 DEF ValidLayout, DeepFace, GrayBadge
  <2> QED  BY <2>1, <2>2
<1> QED  BY <1>3, <1>4, <1>5

-----------------------------------------------------------------------------
(* The inductive invariant.                                                 *)

Kind == {"deepface", "graybadge", "failure", "protocol", "none", "garbage"}
AnyScores == {<<>>} \union [1..1 -> Int] \union [1..3 -> Int]
FrameSet == [id : 1..MaxId, kind : Kind, scores : AnyScores, failure : Failure \union {None}]

\* A request on its way is one the adapter accepted.
AskedOK ==
  pc # "idle" =>
    /\ asked \in Payload /\ asked.match_strictness \in DOMAIN Threshold
    /\ op = Operation(asked) /\ op # Unsupported
    /\ verdict = NoVerdict

\* No frame is numbered like a request still to come.
WireOK ==
  /\ wire \in Seq(FrameSet) /\ Len(wire) <= MaxWire
  /\ \A i \in DOMAIN wire : wire[i].id < next_id

\* A frame that passes decode for request n is what the worker found out, a.
Trusted(f, n, o, a) ==
  /\ Decode(f, n, o.kind) = "result" =>
       f.scores \in [DOMAIN Roles(o.kind) -> -One..One] /\ a = Answer(o, f.scores, None)
  /\ Decode(f, n, o.kind) = "rejection" =>
       f.failure \in Failure /\ a = Answer(o, <<>>, f.failure)

Waiting ==
  pc = "waiting" =>
    id = next_id - 1 /\ id # 0 /\ \A i \in DOMAIN wire : Trusted(wire[i], id, op, answer)

\* An honest worker answers once, and its answer passes decode.
Sound ==
  ~faulty =>
    /\ pc # "waiting" => wire = <<>>
    /\ pc = "waiting" =>
         /\ Len(wire) <= 1
         /\ answer = NoAnswer => wire = <<>>
         /\ \A i \in DOMAIN wire : Decode(wire[i], id, op.kind) # "violation"

Down == ~up => pc = "idle" /\ wire = <<>>

Control == TypeOK /\ AskedOK /\ WireOK /\ Waiting /\ Sound /\ Down
IInv == Control /\ VerdictIsEarned /\ LayoutExact /\ PromisesKept /\ HonestWorkerSurvives

-----------------------------------------------------------------------------
(* Verdicts.                                                                *)

LEMMA RolesFacts ==
  ASSUME NEW kind
  PROVE  /\ kind = "deepface" => DOMAIN Roles(kind) = 1..3
         /\ kind # "deepface" => DOMAIN Roles(kind) = 1..1
         /\ \A k \in DOMAIN Roles(kind) : Roles(kind)[k] \in RoleName
BY DEF Roles, RoleName

LEMMA PairsFacts ==
  ASSUME NEW o
  PROVE  DOMAIN Pairs(o) = DOMAIN Roles(o.kind) /\ Pairs(o) # <<>>
BY DEF Pairs, Roles

LEMMA AnswerFacts ==
  ASSUME NEW o, NEW scores, NEW failure
  PROVE  /\ Answer(o, scores, failure) # NoAnswer
         /\ Answer(o, scores, failure).pairs = Pairs(o)
         /\ Answer(o, scores, failure).scores = scores
         /\ Answer(o, scores, failure).failure = failure
BY PairsFacts DEF Answer, NoAnswer

LEMMA LeastExists ==
  ASSUME NEW S, S \subseteq 1..3, S # {}
  PROVE  Min(S) \in S
<1>1. \A x \in S : x = 1 \/ x = 2 \/ x = 3
  OBVIOUS
<1>2. \E x \in S : \A y \in S : x <= y
  <2>1. CASE 1 \in S
    BY <1>1, <2>1
  <2>2. CASE 1 \notin S /\ 2 \in S
    BY <1>1, <2>2
  <2>3. CASE 1 \notin S /\ 2 \notin S
    <3>1. PICK x \in S : TRUE
      OBVIOUS
    <3>2. \A y \in S : y = 3
      BY <1>1, <2>3
    <3> QED  BY <3>1, <3>2
  <2> QED  BY <2>1, <2>2, <2>3
<1> QED  BY <1>2 DEF Min

(* The scores of a result decide as they should, to within the rounding,    *)
(* and nothing the code rules out can happen to them.                       *)
LEMMA JudgeFacts ==
  ASSUME NEW f, NEW t \in Int, f.kind = op.kind,
         f.scores \in [DOMAIN Roles(op.kind) -> -One..One]
  PROVE  \/ /\ Judge(f, t) = Verdict("success", "none")
            /\ \A k \in DOMAIN f.scores : One + f.scores[k] >= t - RoundingError
         \/ \E k \in DOMAIN f.scores :
              /\ Judge(f, t) = Verdict("below_threshold", Roles(op.kind)[k])
              /\ One + f.scores[k] < t + RoundingError
<1> USE ScoreAssumption
<1>0. RoundingError \in Nat /\ One \in Int
  BY Halves DEF RoundingError
<1>1. ~ \E k \in DOMAIN f.scores : f.scores[k] = Missing
  BY DEF Missing
<1>2. ASSUME NEW k \in DOMAIN f.scores
      PROVE  /\ Check(f, k, t) = "ok" => One + f.scores[k] >= t - RoundingError
             /\ Check(f, k, t) # "ok" => Check(f, k, t) = "below" /\ One + f.scores[k] < t + RoundingError
  <2>1. f.scores[k] \in -One..One
    OBVIOUS
  <2>2. /\ Normalized(f.scores[k]) \in 0..2*One
        /\ Normalized(f.scores[k]) <= One + f.scores[k] + RoundingError
        /\ One + f.scores[k] <= Normalized(f.scores[k]) + RoundingError
    BY <2>1, NormalizedScore
  <2> QED  BY <1>0, <2>1, <2>2 DEF CheckScore, Check
<1>3. CASE Failing(f, t) = {}
  <2>1. Judge(f, t) = Verdict("success", "none")
    BY <1>1, <1>3 DEF Judge
  <2>2. \A k \in DOMAIN f.scores : Check(f, k, t) = "ok"
    BY <1>3 DEF Failing
  <2> QED  BY <1>2, <2>1, <2>2
<1>4. CASE Failing(f, t) # {}
  <2>1. Failing(f, t) \subseteq 1..3
    BY RolesFacts DEF Failing
  <2>2. Min(Failing(f, t)) \in Failing(f, t)
    BY <1>4, <2>1, LeastExists
  <2>3. Min(Failing(f, t)) \in DOMAIN f.scores /\ Check(f, Min(Failing(f, t)), t) # "ok"
    BY <2>2 DEF Failing
  <2>4. /\ Check(f, Min(Failing(f, t)), t) = "below"
        /\ One + f.scores[Min(Failing(f, t))] < t + RoundingError
    BY <1>2, <2>3
  <2>5. Judge(f, t) = Verdict("below_threshold", Roles(f.kind)[Min(Failing(f, t))])
    BY <1>1, <1>4, <2>4 DEF Judge
  <2> QED  BY <2>3, <2>4, <2>5
<1> QED  BY <1>3, <1>4

LEMMA FailureVerdict ==
  ASSUME NEW f \in Failure
  PROVE  /\ WorkerFailure(f).reason \in {"internal", "input_rejected", "image_rejected", "matching_failed"}
         /\ WorkerFailure(f) \in [reason : Reason, role : RoleName \union ImageRole \union {"none"}]
<1>1. f.role \in RoleName \union ImageRole \union {"other"}
  BY InferenceAssumption DEF FailureShape
<1> QED  BY <1>1 DEF WorkerFailure, Complete, Verdict, KnownImage, Reason

LEMMA DecodeFacts ==
  ASSUME NEW f, NEW n, NEW kind, kind # "failure"
  PROVE  /\ Decode(f, n, kind) \in {"violation", "rejection", "result"}
         /\ Decode(f, n, kind) = "result" <=>
              f.id = n /\ f.kind = kind /\ \A k \in DOMAIN f.scores : f.scores[k] \in -One..One
         /\ Decode(f, n, kind) = "rejection" <=>
              f.id = n /\ f.kind = "failure" /\ f.failure.code # "internal"
<1> DEFINE fine == \A k \in DOMAIN f.scores : f.scores[k] \in -One..One
<1>1. Decode(f, n, kind) =
        CASE f.id # n -> "violation"
          [] f.id = n /\ f.kind = "failure" -> IF f.failure.code = "internal" THEN "violation" ELSE "rejection"
          [] f.id = n /\ f.kind = kind /\ fine -> "result"
          [] OTHER -> "violation"
  BY Zenon DEF Decode
<1> HIDE DEF fine
<1>2. /\ Decode(f, n, kind) \in {"violation", "rejection", "result"}
      /\ Decode(f, n, kind) = "result" <=> f.id = n /\ f.kind = kind /\ fine
      /\ Decode(f, n, kind) = "rejection" <=> f.id = n /\ f.kind = "failure" /\ f.failure.code # "internal"
  BY <1>1
<1> QED  BY <1>2 DEF fine

-----------------------------------------------------------------------------
(* What the operation of a request on its way is like.                      *)

LEMMA OnItsWay ==
  ASSUME IInv, pc # "idle"
  PROVE  /\ up /\ op.kind \in {"deepface", "graybadge"}
         /\ op.kind # "failure" /\ asked.match_strictness \in DOMAIN Threshold
         /\ Threshold[asked.match_strictness] \in Int
         /\ Pairs(op) = Wanted(asked) /\ verdict = NoVerdict
<1>1. asked \in Payload /\ op = Operation(asked) /\ op # Unsupported
  BY DEF IInv, Control, AskedOK
<1>2. op.kind \in {"deepface", "graybadge"} /\ Pairs(op) = Wanted(asked)
  BY <1>1, OperationFacts
<1>3. asked.match_strictness \in DOMAIN Threshold /\ verdict = NoVerdict
  BY DEF IInv, Control, AskedOK
<1>4. Threshold[asked.match_strictness] \in Int
  BY <1>3, ScoreAssumption
<1>5. up
  BY DEF IInv, Control, Down, TypeOK
<1> QED  BY <1>2, <1>3, <1>4, <1>5

LEMMA SomeScores ==
  ASSUME NEW kind, NEW s \in Int
  PROVE  [k \in DOMAIN Roles(kind) |-> s] \in AnyScores
BY RolesFacts DEF AnyScores

-----------------------------------------------------------------------------
(* The initial state.                                                       *)

LEMMA Bounds == 1 \in 1..MaxId /\ 0 \in 0..MaxId /\ Len(<<>>) <= MaxWire
BY InferenceAssumption

LEMMA InitIInv == Init => IInv
<1> SUFFICES ASSUME Init  PROVE IInv
  OBVIOUS
<1> USE DEF Init
<1>1. TypeOK
  BY Bounds DEF TypeOK, NoVerdict, Verdict, Reason
<1>2. AskedOK /\ WireOK /\ Waiting /\ Sound /\ Down
  BY InferenceAssumption DEF AskedOK, WireOK, Waiting, Sound, Down
<1>3. VerdictIsEarned /\ PromisesKept
  BY DEF VerdictIsEarned, PromisesKept, NoVerdict, Verdict
<1>4. LayoutExact /\ HonestWorkerSurvives
  BY DEF LayoutExact, HonestWorkerSurvives, NoVerdict, Verdict
<1> QED  BY <1>1, <1>2, <1>3, <1>4 DEF IInv, Control

-----------------------------------------------------------------------------
(* One lemma per action.                                                    *)

LEMMA PrepareStep == IInv /\ (\E p \in Payload : Prepare(p)) => IInv'
<1> SUFFICES ASSUME IInv, NEW p \in Payload, Prepare(p)  PROVE IInv'
  OBVIOUS
<1>1. /\ up /\ pc = "idle" /\ asked' = p /\ op' = Operation(p)
      /\ UNCHANGED <<up, next_id, id, wire, faulty>>
  BY DEF Prepare
<1>2. \/ /\ pc' = "idle" /\ verdict' = Verdict("unsupported_strictness", "none")
      \/ /\ pc' = "idle" /\ verdict' = Verdict("unsupported_pipeline", "none") /\ op' = Unsupported
      \/ /\ pc' = "prepared" /\ verdict' = NoVerdict /\ op' # Unsupported
         /\ p.match_strictness \in DOMAIN Threshold
  BY DEF Prepare, End
<1>3. TypeOK'
  BY <1>1, <1>2 DEF IInv, Control, TypeOK, NoVerdict, Verdict, Reason
<1>4. AskedOK'
  BY <1>1, <1>2 DEF AskedOK
<1>5. WireOK' /\ Waiting' /\ Down'
  BY <1>1, <1>2 DEF IInv, Control, WireOK, Waiting, Down
<1>6. Sound'
  BY <1>1, <1>2 DEF IInv, Control, Sound
<1>7. VerdictIsEarned' /\ PromisesKept'
  BY <1>2 DEF VerdictIsEarned, PromisesKept, NoVerdict, Verdict
<1>8. LayoutExact'
  <2>1. op' # Unsupported => ValidLayout(p)
    BY <1>1, OperationFacts, LayoutsAgree
  <2>2. op' = Unsupported => ~ValidLayout(p)
    <3>1. Fits(p) => Operation(p).kind \in {"deepface", "graybadge"}
      BY OperationCases
    <3>2. Unsupported.kind = "unsupported"
      BY DEF Unsupported
    <3> QED  BY <1>1, <3>1, <3>2, LayoutsAgree
  <2>3. op' # Unsupported /\ op'.live.source = "light_guard" =>
          /\ p.entries[op'.live.illuminated].meta = "illuminated"
          /\ p.entries[op'.live.unilluminated].meta = "unilluminated"
    BY <1>1, OperationFacts
  <2> QED  BY <1>1, <1>2, <2>1, <2>2, <2>3 DEF LayoutExact, NoVerdict, Verdict
<1>9. HonestWorkerSurvives'
  BY <1>1 DEF HonestWorkerSurvives
<1> QED  BY <1>3, <1>4, <1>5, <1>6, <1>7, <1>8, <1>9 DEF IInv, Control

\* Every way out of the process leaves the same state behind.
LEMMA StopStep ==
  ASSUME IInv, Stop, faulty' \in BOOLEAN, faulty' \/ next_id = MaxId
  PROVE  IInv'
<1> USE DEF Stop
<1>1. TypeOK'
  BY Bounds DEF IInv, Control, TypeOK, NoVerdict, Verdict, Reason
<1>2. AskedOK' /\ WireOK' /\ Waiting' /\ Sound' /\ Down'
  BY InferenceAssumption DEF AskedOK, WireOK, Waiting, Sound, Down
<1>3. VerdictIsEarned' /\ PromisesKept' /\ LayoutExact'
  BY DEF VerdictIsEarned, PromisesKept, LayoutExact, NoVerdict, Verdict
<1>4. HonestWorkerSurvives'
  BY DEF HonestWorkerSurvives
<1> QED  BY <1>1, <1>2, <1>3, <1>4 DEF IInv, Control

LEMMA FailStep ==
  ASSUME IInv, Fail, faulty \/ next_id = MaxId
  PROVE  IInv'
BY StopStep DEF Fail, IInv, Control, TypeOK

LEMMA CrashStep == IInv /\ Crash => IInv'
BY StopStep DEF Crash

LEMMA BootStep == IInv /\ Boot => IInv'
<1> SUFFICES ASSUME IInv, Boot  PROVE IInv'
  OBVIOUS
<1> USE DEF Boot, requestVars
<1>1. pc = "idle" /\ wire = <<>>
  BY DEF IInv, Control, Down
<1>2. TypeOK'
  BY Bounds DEF IInv, Control, TypeOK
<1>3. AskedOK' /\ WireOK' /\ Waiting' /\ Sound' /\ Down'
  BY <1>1, InferenceAssumption DEF AskedOK, WireOK, Waiting, Sound, Down
<1>4. VerdictIsEarned' /\ PromisesKept' /\ LayoutExact'
  BY <1>1 DEF IInv, VerdictIsEarned, PromisesKept, LayoutExact
<1>5. HonestWorkerSurvives'
  BY DEF HonestWorkerSurvives
<1> QED  BY <1>2, <1>3, <1>4, <1>5 DEF IInv, Control

LEMMA EvaluateStep == IInv /\ Evaluate => IInv'
<1> SUFFICES ASSUME IInv, Evaluate  PROVE IInv'
  OBVIOUS
<1>1. pc = "prepared"
  BY DEF Evaluate
<1>2. up /\ verdict = NoVerdict
  BY <1>1, OnItsWay
<1>3. CASE next_id = MaxId /\ Fail
  BY <1>3, FailStep
<1>4. CASE /\ UNCHANGED <<up, asked, op, wire, answer, faulty>>
           /\ \/ pc' = "idle" /\ verdict' = Verdict("malformed_inputs", "none") /\ UNCHANGED <<next_id, id>>
              \/ /\ next_id # MaxId /\ next_id' = next_id + 1 /\ id' = next_id
                 /\ \/ pc' = "idle" /\ verdict' = Verdict("malformed_inputs", "none")
                    \/ pc' = "waiting" /\ UNCHANGED verdict
  <2>1. next_id \in 1..MaxId /\ MaxId \in Nat
    BY InferenceAssumption DEF IInv, Control, TypeOK
  <2>2. TypeOK'
    BY <1>4, <2>1 DEF IInv, Control, TypeOK, Verdict, Reason
  <2>3. AskedOK' /\ Down'
    BY <1>1, <1>2, <1>4 DEF IInv, Control, AskedOK, Down
  <2>4. WireOK'
    <3>1. next_id' >= next_id /\ wire' = wire /\ next_id' \in Int
      BY <1>4, <2>1
    <3>2. \A i \in DOMAIN wire : wire[i] \in FrameSet
      BY DEF IInv, Control, WireOK
    <3>3. \A i \in DOMAIN wire : wire[i].id \in Int
      BY <3>2 DEF FrameSet
    <3> QED  BY <2>1, <3>1, <3>3 DEF IInv, Control, WireOK
  <2>5. Waiting' /\ Sound'
    <3>1. CASE pc' = "idle"
      BY <1>1, <1>4, <3>1 DEF IInv, Control, Waiting, Sound
    <3>2. CASE pc' = "waiting"
      <4>1. id' = next_id' - 1 /\ wire' = wire /\ op' = op /\ answer' = answer /\ faulty' = faulty /\ id' = next_id
        BY <1>4, <2>1, <3>2
      <4>2. ASSUME NEW i \in DOMAIN wire  PROVE Decode(wire[i], next_id, op.kind) = "violation"
        <5>1. wire[i].id < next_id /\ wire[i] \in FrameSet
          BY DEF IInv, Control, WireOK
        <5>2. wire[i].id # next_id
          BY <2>1, <5>1 DEF FrameSet
        <5> QED  BY <1>1, <5>2, OnItsWay, DecodeFacts
      <4>3. Waiting'
        BY <2>1, <4>1, <4>2 DEF Waiting, Trusted
      <4>4. Sound'
        BY <1>1, <3>2, <4>1 DEF IInv, Control, Sound
      <4> QED  BY <4>3, <4>4
    <3> QED  BY <1>4, <3>1, <3>2
  <2>6. VerdictIsEarned' /\ PromisesKept'
    BY <1>2, <1>4 DEF VerdictIsEarned, PromisesKept, NoVerdict, Verdict
  <2>7. LayoutExact'
    BY <1>1, <1>2, <1>4 DEF IInv, LayoutExact, NoVerdict, Verdict
  <2>8. HonestWorkerSurvives'
    BY <1>2, <1>4 DEF HonestWorkerSurvives
  <2> QED  BY <2>2, <2>3, <2>4, <2>5, <2>6, <2>7, <2>8 DEF IInv, Control
<1> QED  BY <1>3, <1>4 DEF Evaluate, End, requestVars, workerVars

-----------------------------------------------------------------------------
(* What the worker sends.                                                   *)

LEMMA Appended ==
  ASSUME NEW S, NEW s \in Seq(S), NEW e \in S
  PROVE  /\ Append(s, e) \in Seq(S) /\ Len(Append(s, e)) = Len(s) + 1
         /\ \A i \in DOMAIN Append(s, e) :
              Append(s, e)[i] = e \/ (i \in DOMAIN s /\ Append(s, e)[i] = s[i])
<1>1. /\ Append(s, e) \in Seq(S) /\ Len(Append(s, e)) = Len(s) + 1
      /\ \A i \in 1..Len(s) : Append(s, e)[i] = s[i]
      /\ Append(s, e)[Len(s) + 1] = e
  BY AppendProperties
<1>2. DOMAIN s = 1..Len(s) /\ Len(s) \in Nat /\ DOMAIN Append(s, e) = 1..(Len(s) + 1)
  BY <1>1
<1>3. ASSUME NEW i \in DOMAIN Append(s, e)
      PROVE  Append(s, e)[i] = e \/ (i \in DOMAIN s /\ Append(s, e)[i] = s[i])
  <2>1. i = Len(s) + 1 \/ i \in 1..Len(s)
    BY <1>2
  <2> QED  BY <1>1, <1>2, <2>1
<1> QED  BY <1>1, <1>3

LEMMA Sent ==
  ASSUME IInv, pc = "waiting", NEW f \in FrameSet, f.id \in 1..id, Send(f), UNCHANGED next_id
  PROVE  /\ WireOK' /\ Len(wire') = Len(wire) + 1
         /\ \A i \in DOMAIN wire' : wire'[i] = f \/ (i \in DOMAIN wire /\ wire'[i] = wire[i])
<1>1. wire \in Seq(FrameSet) /\ Len(wire) < MaxWire /\ wire' = Append(wire, f)
  BY DEF IInv, Control, WireOK, Send
<1>2. f.id < next_id
  BY DEF IInv, Control, Waiting, TypeOK
<1>3. /\ wire' \in Seq(FrameSet) /\ Len(wire') = Len(wire) + 1
      /\ \A i \in DOMAIN wire' : wire'[i] = f \/ (i \in DOMAIN wire /\ wire'[i] = wire[i])
  BY <1>1, Appended
<1>4. Len(wire') <= MaxWire
  BY <1>1, <1>3, InferenceAssumption
<1>5. \A i \in DOMAIN wire' : wire'[i].id < next_id'
  BY <1>2, <1>3 DEF IInv, Control, WireOK
<1> QED  BY <1>3, <1>4, <1>5 DEF WireOK

\* A step of the worker disturbs the stream and its own answer alone.
LEMMA WorkerKeeps ==
  ASSUME IInv, pc = "waiting", WireOK', faulty' \in BOOLEAN, faulty => faulty',
         UNCHANGED <<up, next_id, pc, asked, op, id, verdict>>
  PROVE  /\ TypeOK' /\ AskedOK' /\ Down'
         /\ VerdictIsEarned' /\ LayoutExact' /\ PromisesKept' /\ HonestWorkerSurvives'
<1>1. verdict = NoVerdict /\ up
  BY OnItsWay
<1>2. TypeOK'
  BY DEF IInv, Control, TypeOK, WireOK
<1>3. AskedOK' /\ Down'
  BY <1>1 DEF IInv, Control, AskedOK, Down
<1>4. VerdictIsEarned' /\ PromisesKept'
  BY <1>1 DEF VerdictIsEarned, PromisesKept, NoVerdict, Verdict
<1>5. LayoutExact' /\ HonestWorkerSurvives'
  BY <1>1 DEF IInv, LayoutExact, HonestWorkerSurvives
<1> QED  BY <1>2, <1>3, <1>4, <1>5

LEMMA WorkStep == IInv /\ Work => IInv'
<1> SUFFICES ASSUME IInv, Work  PROVE IInv'
  OBVIOUS
<1> DEFINE known == UNCHANGED <<up, next_id, pc, asked, op, id, verdict>>
<1>1. pc = "waiting" /\ answer = NoAnswer /\ known
  BY DEF Work, requestVars
<1>2. /\ op.kind \in {"deepface", "graybadge"} /\ op.kind # "failure"
      /\ id \in 1..MaxId /\ id \in 1..id
  <2>1. id \in 0..MaxId /\ id # 0 /\ MaxId \in Nat
    BY <1>1, InferenceAssumption DEF IInv, Control, Waiting, TypeOK
  <2> QED  BY <1>1, <2>1, OnItsWay
<1>3. ASSUME NEW f \in FrameSet, f.id = id, Send(f), faulty' \in BOOLEAN, faulty => faulty',
             Trusted(f, id, op, answer'), answer' # NoAnswer,
             ~faulty' => Decode(f, id, op.kind) # "violation"
      PROVE  IInv'
  <2>1. /\ WireOK' /\ Len(wire') = Len(wire) + 1
        /\ \A i \in DOMAIN wire' : wire'[i] = f \/ (i \in DOMAIN wire /\ wire'[i] = wire[i])
    BY <1>1, <1>2, <1>3, Sent
  <2>2. ASSUME NEW i \in DOMAIN wire  PROVE Decode(wire[i], id, op.kind) = "violation"
    <3>1. Trusted(wire[i], id, op, answer)
      BY <1>1 DEF IInv, Control, Waiting
    <3>2. Decode(wire[i], id, op.kind) \notin {"result", "rejection"}
      BY <1>1, <3>1, AnswerFacts DEF Trusted
    <3> QED  BY <1>2, <3>2, DecodeFacts
  <2>3. Waiting'
    <3>1. \A i \in DOMAIN wire' : Trusted(wire'[i], id, op, answer')
      BY <1>1, <1>3, <2>1, <2>2 DEF Trusted
    <3> QED  BY <1>1, <3>1 DEF IInv, Control, Waiting
  <2>4. Sound'
    <3> SUFFICES ASSUME ~faulty'  PROVE Sound'
      BY DEF Sound
    <3>1. ~faulty /\ wire = <<>>
      BY <1>1, <1>3 DEF IInv, Control, Sound
    <3>2. Len(wire') <= 1 /\ \A i \in DOMAIN wire' : wire'[i] = f
      BY <2>1, <3>1
    <3> QED  BY <1>1, <1>3, <3>2 DEF Sound
  <2> QED  BY <1>1, <1>3, <2>1, <2>3, <2>4, WorkerKeeps DEF IInv, Control
<1>4. ASSUME NEW s \in Scores(op.kind, Raw), Send(Frame(id, op.kind, s, None)),
             answer' = Answer(op, s, None), UNCHANGED faulty
      PROVE  IInv'
  <2> DEFINE f == Frame(id, op.kind, s, None)
  <2>1. s \in [DOMAIN Roles(op.kind) -> -One..One]
    BY <1>2, InferenceAssumption DEF Scores
  <2>2. s \in AnyScores
    BY <2>1, RolesFacts, ScoreAssumption DEF AnyScores
  <2>3. f \in FrameSet /\ f.id = id /\ f.kind = op.kind /\ f.scores = s
    BY <1>2, <2>2 DEF Frame, FrameSet, Kind
  <2>4. Decode(f, id, op.kind) = "result"
    BY <1>2, <2>1, <2>3, DecodeFacts
  <2>5. Trusted(f, id, op, answer')
    BY <1>1, <1>4, <2>1, <2>3, <2>4 DEF Trusted
  <2> QED  BY <1>1, <1>3, <1>4, <2>3, <2>4, <2>5, AnswerFacts DEF IInv, Control, TypeOK
<1>5. ASSUME NEW g \in Failure, Send(Frame(id, "failure", <<>>, g)),
             answer' = Answer(op, <<>>, g), faulty' = (faulty \/ g.code = "internal")
      PROVE  IInv'
  <2> DEFINE f == Frame(id, "failure", <<>>, g)
  <2>1. f \in FrameSet /\ f.id = id /\ f.kind = "failure" /\ f.failure = g
    BY <1>2 DEF Frame, FrameSet, Kind, AnyScores
  <2>2. /\ Decode(f, id, op.kind) # "result"
        /\ g.code # "internal" => Decode(f, id, op.kind) = "rejection"
    BY <1>2, <2>1, DecodeFacts
  <2>3. Trusted(f, id, op, answer')
    BY <1>1, <1>5, <2>1, <2>2 DEF Trusted
  <2>4. faulty' \in BOOLEAN /\ (faulty => faulty') /\ (~faulty' => g.code # "internal")
    BY <1>5, Zenon DEF IInv, Control, TypeOK
  <2>5. answer' # NoAnswer
    BY <1>5, AnswerFacts
  <2>6. ~faulty' => Decode(f, id, op.kind) # "violation"
    BY <2>2, <2>4
  <2> HIDE DEF f
  <2> QED  BY <1>3, <1>5, <2>1, <2>3, <2>4, <2>5, <2>6 DEF f
<1> QED  BY <1>4, <1>5 DEF Work

\* A frame that decode refuses adds nothing but the fault.
LEMMA Misbehaves ==
  ASSUME IInv, pc = "waiting", NEW f \in FrameSet, f.id \in 1..id, Send(f), faulty' = TRUE,
         UNCHANGED <<up, next_id, pc, asked, op, id, verdict, answer>>,
         Trusted(f, id, op, answer)
  PROVE  IInv'
<1>1. WireOK' /\ \A i \in DOMAIN wire' : wire'[i] = f \/ (i \in DOMAIN wire /\ wire'[i] = wire[i])
  BY Sent
<1>2. Waiting'
  BY <1>1 DEF IInv, Control, Waiting
<1>3. Sound'
  BY DEF Sound
<1> QED  BY <1>1, <1>2, <1>3, WorkerKeeps DEF IInv, Control

LEMMA RefusedIsTrusted ==
  ASSUME NEW f, f.id # id \/ (f.kind # "failure" /\ f.kind # op.kind)
                  \/ (f.kind # "failure" /\ \E k \in DOMAIN f.scores : f.scores[k] \notin -One..One),
         op.kind # "failure"
  PROVE  Trusted(f, id, op, answer)
<1>1. Decode(f, id, op.kind) \notin {"result", "rejection"}
  BY DecodeFacts
<1> QED  BY <1>1 DEF Trusted

LEMMA RepeatStep == IInv /\ Repeat => IInv'
<1> SUFFICES ASSUME IInv, Repeat  PROVE IInv'
  OBVIOUS
<1>1. /\ pc = "waiting" /\ faulty' = TRUE
      /\ UNCHANGED <<up, next_id, pc, asked, op, id, verdict, answer>>
  BY DEF Repeat, requestVars
<1>2. op.kind # "failure" /\ id \in 0..MaxId /\ MaxId \in Nat
  BY <1>1, OnItsWay, InferenceAssumption DEF IInv, Control, TypeOK
<1>3. ASSUME NEW i \in DOMAIN wire, wire[i].id = id, Send(wire[i])  PROVE IInv'
  <2>1. wire[i] \in FrameSet /\ Trusted(wire[i], id, op, answer) /\ id # 0
    BY <1>1 DEF IInv, Control, WireOK, Waiting
  <2> QED  BY <1>1, <1>2, <1>3, <2>1, Misbehaves
<1>4. ASSUME NEW f \in FrameSet, f.id \in 1..id, f.id # id, Send(f)  PROVE IInv'
  BY <1>1, <1>2, <1>4, RefusedIsTrusted, Misbehaves
<1>5. ASSUME NEW n \in 1..id, n # id, NEW kind \in {"deepface", "graybadge"}, NEW s \in Raw,
             Send(Frame(n, kind, [k \in DOMAIN Roles(kind) |-> s], None))
      PROVE  IInv'
  <2>1. [k \in DOMAIN Roles(kind) |-> s] \in AnyScores /\ n \in 1..MaxId
    <3>1. s \in Int
      BY InferenceAssumption, ScoreAssumption
    <3>2. n \in 1..MaxId
      BY <1>2
    <3> QED  BY <3>1, <3>2, SomeScores
  <2>2. Frame(n, kind, [k \in DOMAIN Roles(kind) |-> s], None) \in FrameSet
        /\ Frame(n, kind, [k \in DOMAIN Roles(kind) |-> s], None).id = n
    BY <2>1 DEF Frame, FrameSet, Kind
  <2> QED  BY <1>4, <1>5, <2>2
<1>6. ASSUME NEW n \in 1..id, n # id, NEW g \in Failure, Send(Frame(n, "failure", <<>>, g))  PROVE IInv'
  <2>1. Frame(n, "failure", <<>>, g) \in FrameSet /\ Frame(n, "failure", <<>>, g).id = n
    BY <1>2 DEF Frame, FrameSet, Kind, AnyScores
  <2> QED  BY <1>4, <1>6, <2>1
<1> QED  BY <1>3, <1>5, <1>6 DEF Repeat

LEMMA CorruptStep == IInv /\ Corrupt => IInv'
<1> SUFFICES ASSUME IInv, Corrupt  PROVE IInv'
  OBVIOUS
<1>1. /\ pc = "waiting" /\ faulty' = TRUE
      /\ UNCHANGED <<up, next_id, pc, asked, op, id, verdict, answer>>
  BY DEF Corrupt, requestVars
<1>2. /\ op.kind \in {"deepface", "graybadge"} /\ op.kind # "failure"
      /\ id \in 1..MaxId /\ id \in 1..id
  <2>1. id \in 0..MaxId /\ id # 0 /\ MaxId \in Nat
    BY <1>1, InferenceAssumption DEF IInv, Control, Waiting, TypeOK
  <2> QED  BY <1>1, <2>1, OnItsWay
<1>3. Bad \in Int /\ Missing \in Int /\ Bad \notin -One..One /\ Missing \notin -One..One /\ Raw \subseteq Int
  BY ScoreAssumption, InferenceAssumption DEF Bad, Missing
<1>4. ASSUME NEW kind \in {"garbage", "protocol", "none"}, Send(Frame(id, kind, <<>>, None))  PROVE IInv'
  <2>1. /\ Frame(id, kind, <<>>, None) \in FrameSet /\ Frame(id, kind, <<>>, None).id = id
        /\ Frame(id, kind, <<>>, None).kind = kind
    BY <1>2 DEF Frame, FrameSet, Kind, AnyScores
  <2>2. kind # "failure" /\ kind # op.kind
    BY <1>2
  <2>3. Trusted(Frame(id, kind, <<>>, None), id, op, answer)
    BY <1>2, <2>1, <2>2, RefusedIsTrusted
  <2> QED  BY <1>1, <1>2, <1>4, <2>1, <2>3, Misbehaves
<1>5. ASSUME NEW kind \in {"deepface", "graybadge"} \ {op.kind}, NEW s \in Raw,
             Send(Frame(id, kind, [k \in DOMAIN Roles(kind) |-> s], None))
      PROVE  IInv'
  <2> DEFINE f == Frame(id, kind, [k \in DOMAIN Roles(kind) |-> s], None)
  <2>1. [k \in DOMAIN Roles(kind) |-> s] \in AnyScores
    BY <1>3, SomeScores
  <2>2. f \in FrameSet /\ f.id = id /\ f.kind = kind
    BY <1>2, <2>1 DEF Frame, FrameSet, Kind
  <2> HIDE DEF f
  <2>3. Trusted(f, id, op, answer)
    BY <1>2, <2>2, RefusedIsTrusted
  <2> QED  BY <1>1, <1>2, <1>5, <2>2, <2>3, Misbehaves DEF f
<1>6. ASSUME NEW k \in DOMAIN Roles(op.kind), NEW bad \in {Bad, Missing}, NEW s \in Raw,
             Send(Frame(id, op.kind, [j \in DOMAIN Roles(op.kind) |-> IF j = k THEN bad ELSE s], None))
      PROVE  IInv'
  <2> DEFINE scores == [j \in DOMAIN Roles(op.kind) |-> IF j = k THEN bad ELSE s]
             f == Frame(id, op.kind, scores, None)
  <2>1. scores \in AnyScores /\ k \in DOMAIN scores /\ scores[k] = bad
    BY <1>2, <1>3, RolesFacts DEF AnyScores
  <2> HIDE DEF scores
  <2>2. f \in FrameSet /\ f.id = id /\ f.kind = op.kind /\ f.scores = scores
    BY <1>2, <2>1 DEF Frame, FrameSet, Kind
  <2>3. \E j \in DOMAIN f.scores : f.scores[j] \notin -One..One
    BY <1>3, <2>1, <2>2
  <2>4. Send(f)
    BY <1>6 DEF scores
  <2> HIDE DEF f
  <2>5. Trusted(f, id, op, answer)
    BY <1>2, <2>2, <2>3, RefusedIsTrusted
  <2> QED  BY <1>1, <1>2, <2>2, <2>4, <2>5, Misbehaves
<1> QED  BY <1>4, <1>5, <1>6 DEF Corrupt

-----------------------------------------------------------------------------
(* The answer.                                                              *)

LEMMA ReadStep == IInv /\ Read => IInv'
<1> SUFFICES ASSUME IInv, Read  PROVE IInv'
  OBVIOUS
<1> DEFINE f == Head(wire)
<1>1. pc = "waiting" /\ wire # <<>>
  BY DEF Read
<1>2. /\ op.kind \in {"deepface", "graybadge"} /\ op.kind # "failure"
      /\ up /\ Threshold[asked.match_strictness] \in Int /\ Pairs(op) = Wanted(asked)
  BY <1>1, OnItsWay
<1>3. /\ wire \in Seq(FrameSet) /\ 1 \in DOMAIN wire /\ f = wire[1]
      /\ Tail(wire) \in Seq(FrameSet) /\ Len(Tail(wire)) = Len(wire) - 1
      /\ \A i \in DOMAIN Tail(wire) : i + 1 \in DOMAIN wire /\ Tail(wire)[i] = wire[i + 1]
  <2>1. wire \in Seq(FrameSet)
    BY DEF IInv, Control, WireOK
  <2> QED  BY <1>1, <2>1
<1>4. Trusted(f, id, op, answer)
  BY <1>1, <1>3 DEF IInv, Control, Waiting
<1> HIDE DEF f
<1>5. CASE Decode(f, id, op.kind) = "violation" /\ Fail
  <2>1. faulty
    BY <1>1, <1>3, <1>5 DEF IInv, Control, Sound
  <2> QED  BY <1>5, <2>1, FailStep
<1>6. ASSUME NEW v \in [reason : Reason, role : RoleName \union ImageRole \union {"none"}],
             verdict' = v, pc' = "idle", wire' = Tail(wire),
             UNCHANGED <<up, next_id, asked, op, id, answer, faulty>>,
             v.reason \notin {"unsupported_pipeline", "panic"},
             VerdictIsEarned', v.reason = "internal" => answer # NoAnswer /\ answer.failure # None
      PROVE  IInv'
  <2>1. TypeOK'
    BY <1>3, <1>6, InferenceAssumption DEF IInv, Control, TypeOK
  <2>2. AskedOK' /\ Waiting' /\ LayoutExact'
    BY <1>6 DEF AskedOK, Waiting, LayoutExact
  <2>3. WireOK'
    BY <1>3, <1>6, InferenceAssumption DEF IInv, Control, WireOK
  <2>4. Sound'
    <3> SUFFICES ASSUME ~faulty  PROVE wire' = <<>>
      BY <1>6 DEF Sound
    <3>1. Len(wire) <= 1
      BY <1>1 DEF IInv, Control, Sound
    <3> QED  BY <1>3, <1>6, <3>1
  <2>5. Down' /\ PromisesKept' /\ HonestWorkerSurvives'
    BY <1>2, <1>6 DEF Down, PromisesKept, HonestWorkerSurvives
  <2> QED  BY <1>6, <2>1, <2>2, <2>3, <2>4, <2>5 DEF IInv, Control
<1>7. CASE /\ Decode(f, id, op.kind) = "rejection" /\ verdict' = WorkerFailure(f.failure)
           /\ pc' = "idle" /\ wire' = Tail(wire)
           /\ UNCHANGED <<up, next_id, asked, op, id, answer, faulty>>
  <2>1. f.failure \in Failure /\ answer = Answer(op, <<>>, f.failure)
    BY <1>4, <1>7 DEF Trusted
  <2>2. answer # NoAnswer /\ answer.failure # None
    BY <2>1, AnswerFacts, InferenceAssumption
  <2>3. /\ verdict' \in [reason : Reason, role : RoleName \union ImageRole \union {"none"}]
        /\ verdict'.reason \in {"internal", "input_rejected", "image_rejected", "matching_failed"}
    BY <1>7, <2>1, FailureVerdict
  <2>4. VerdictIsEarned'
    BY <1>7, <2>2, <2>3 DEF VerdictIsEarned
  <2> QED  BY <1>6, <1>7, <2>2, <2>3, <2>4
<1>8. CASE /\ Decode(f, id, op.kind) = "result"
           /\ verdict' = Judge(f, Threshold[asked.match_strictness])
           /\ pc' = "idle" /\ wire' = Tail(wire)
           /\ UNCHANGED <<up, next_id, asked, op, id, answer, faulty>>
  <2> DEFINE t == Threshold[asked.match_strictness]
  <2>1. f.scores \in [DOMAIN Roles(op.kind) -> -One..One] /\ answer = Answer(op, f.scores, None)
    BY <1>4, <1>8 DEF Trusted
  <2>2. /\ answer # NoAnswer /\ answer.failure = None /\ answer.pairs = Wanted(asked)
        /\ answer.scores = f.scores /\ DOMAIN answer.pairs = DOMAIN f.scores
    <3>1. /\ answer # NoAnswer /\ answer.pairs = Pairs(op)
          /\ answer.scores = f.scores /\ answer.failure = None
      BY <2>1, AnswerFacts
    <3>2. DOMAIN Pairs(op) = DOMAIN Roles(op.kind) /\ DOMAIN f.scores = DOMAIN Roles(op.kind)
      BY <2>1, PairsFacts
    <3> QED  BY <1>2, <3>1, <3>2
  <2>3. \/ /\ verdict' = Verdict("success", "none")
           /\ \A k \in DOMAIN f.scores : One + f.scores[k] >= t - RoundingError
        \/ \E k \in DOMAIN f.scores :
             /\ verdict' = Verdict("below_threshold", Roles(op.kind)[k])
             /\ One + f.scores[k] < t + RoundingError
    <3>1. f.kind = op.kind
      BY <1>2, <1>8, DecodeFacts
    <3> QED  BY <1>2, <1>8, <2>1, <3>1, JudgeFacts
  <2>4. CASE /\ verdict' = Verdict("success", "none")
             /\ \A k \in DOMAIN f.scores : One + f.scores[k] >= t - RoundingError
    <3>1. VerdictIsEarned'
      BY <1>8, <2>2, <2>4 DEF VerdictIsEarned, Verdict
    <3>2. verdict' \in [reason : Reason, role : RoleName \union ImageRole \union {"none"}]
          /\ verdict'.reason = "success"
      BY <2>4 DEF Verdict, Reason
    <3> QED  BY <1>6, <1>8, <3>1, <3>2
  <2>5. ASSUME NEW k \in DOMAIN f.scores, verdict' = Verdict("below_threshold", Roles(op.kind)[k]),
               One + f.scores[k] < t + RoundingError
        PROVE  IInv'
    <3>1. verdict'.reason = "below_threshold" /\ verdict'.role = Roles(op.kind)[k]
      BY <2>5 DEF Verdict
    <3>2. VerdictIsEarned'
      BY <1>8, <2>2, <2>5, <3>1 DEF VerdictIsEarned
    <3>3. Roles(op.kind)[k] \in RoleName
      BY <2>1, RolesFacts
    <3>4. verdict' \in [reason : Reason, role : RoleName \union ImageRole \union {"none"}]
      BY <2>5, <3>3 DEF Verdict, Reason
    <3> QED  BY <1>6, <1>8, <3>1, <3>2, <3>4
  <2> QED  BY <2>3, <2>4, <2>5
<1>9. Decode(f, id, op.kind) \in {"violation", "rejection", "result"}
  BY <1>2, DecodeFacts
<1> QED  BY <1>5, <1>7, <1>8, <1>9 DEF Read, requestVars, f

-----------------------------------------------------------------------------
(* The theorems.                                                            *)

LEMMA StutterStep == IInv /\ UNCHANGED vars => IInv'
<1> SUFFICES ASSUME IInv, UNCHANGED vars  PROVE IInv'
  OBVIOUS
<1> USE DEF vars, requestVars, workerVars
<1>1. TypeOK' /\ AskedOK' /\ WireOK' /\ Waiting' /\ Sound' /\ Down'
  BY DEF IInv, Control, TypeOK, AskedOK, WireOK, Waiting, Sound, Down
<1>2. VerdictIsEarned' /\ LayoutExact' /\ PromisesKept' /\ HonestWorkerSurvives'
  BY DEF IInv, VerdictIsEarned, LayoutExact, PromisesKept, HonestWorkerSurvives
<1> QED  BY <1>1, <1>2 DEF IInv, Control

(* The inductive invariant holds in every state of Inference.               *)
THEOREM Inductive == Spec => []IInv
<1>1. IInv /\ [Next]_vars => IInv'
  BY PrepareStep, EvaluateStep, WorkStep, RepeatStep, CorruptStep, ReadStep, CrashStep, BootStep, StutterStep DEF Next
<1> QED  BY InitIInv, <1>1, PTL DEF Spec

(* The request, its number and the stream from the worker have the shape    *)
(* the client gives them, and the number never reaches u64::MAX plus one    *)
(* (client.rs `evaluate`).                                                  *)
THEOREM TypesHold == Spec => []TypeOK
<1>1. IInv => TypeOK
  BY DEF IInv, Control
<1> QED  BY <1>1, Inductive, PTL

(* A verdict rests on what the worker found out about that very request,    *)
(* for every set of payloads and failures, every threshold and every        *)
(* resolution of the scores (client.rs `decode`, matches.rs `run`).         *)
THEOREM VerdictsAreEarned == Spec => []VerdictIsEarned
<1>1. IInv => VerdictIsEarned
  BY DEF IInv
<1> QED  BY <1>1, Inductive, PTL

(* The adapter accepts exactly the documented layouts, of payloads of any   *)
(* length, and hands on each frame under its own name (pipeline.rs).        *)
THEOREM LayoutsAreExact == Spec => []LayoutExact
<1>1. IInv => LayoutExact
  BY DEF IInv
<1> QED  BY <1>1, Inductive, PTL

(* The panics and the internal error the code rules out without a check     *)
(* never happen (biometric_engine.rs, pipeline.rs `check_score`).           *)
THEOREM PromisesAreKept == Spec => []PromisesKept
<1>1. IInv => PromisesKept
  BY DEF IInv
<1> QED  BY <1>1, Inductive, PTL

(* The enclave ends only by a fault of the worker or when the numbers run   *)
(* out (client.rs `fail`).                                                  *)
THEOREM HonestWorkersSurvive == Spec => []HonestWorkerSurvives
<1>1. IInv => HonestWorkerSurvives
  BY DEF IInv
<1> QED  BY <1>1, Inductive, PTL

=============================================================================
