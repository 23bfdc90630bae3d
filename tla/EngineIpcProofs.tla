-------------------------- MODULE EngineIpcProofs --------------------------
(***************************************************************************)
(* What the codec and the framing of the engine interface promise, for     *)
(* every width of a length and of an id, every bound, and every sequence   *)
(* of items.                                                               *)
(***************************************************************************)
EXTENDS EngineIpc, SequenceTheorems, WellFoundedInduction, TLAPS

-----------------------------------------------------------------------------
(* Induction over the naturals, for a set, and the functions it defines.    *)

(* A set that has 0, and the successor of each number it has, has all.      *)
LEMMA NatSet ==
  ASSUME NEW S, 0 \in S, \A n \in Nat : n \in S => n + 1 \in S
  PROVE  \A n \in Nat : n \in S
<1> SUFFICES ASSUME Nat \ S # {} PROVE FALSE
  OBVIOUS
<1>1. \E x \in Nat \ S : \A y \in Nat \ S : <<y, x>> \notin OpToRel(<, Nat)
  BY NatLessThanWellFounded, WFMin
<1>2. PICK x \in Nat \ S : \A y \in Nat \ S : <<y, x>> \notin OpToRel(<, Nat)
  BY <1>1
<1>3. OpToRel(<, Nat) = {ss \in Nat \X Nat : ss[1] < ss[2]}
  BY DEF OpToRel
<1>4. x # 0 /\ x - 1 \in Nat /\ x - 1 < x
  OBVIOUS
<1>5. x - 1 \in S
  BY <1>2, <1>3, <1>4
<1>6. (x - 1) + 1 \in S
  BY <1>4, <1>5
<1> QED  BY <1>4, <1>6

IteratesFrom(f, D, start, step) ==
  f \in [Nat -> D] /\ f[0] = start /\ \A k \in Nat : f[k + 1] = step[<<k, f[k]>>]

(* A first value and a step define a function of the naturals.              *)
LEMMA Iterates ==
  ASSUME NEW D, NEW start, start \in D, NEW step, \A k \in Nat, d \in D : step[<<k, d>>] \in D
  PROVE  \E f : IteratesFrom(f, D, start, step)
<1> DEFINE Begins(n, f) ==
      /\ f \in [0..n -> D] /\ f[0] = start
      /\ \A k \in Nat : k < n => f[k + 1] = step[<<k, f[k]>>]
<1>1. \A n \in Nat : \E f : Begins(n, f)
  <2> DEFINE S == {n \in Nat : \E f : Begins(n, f)}
  <2>1. 0 \in S
    <3> DEFINE f == [k \in 0..0 |-> start]
    <3>1. Begins(0, f)
      OBVIOUS
    <3> HIDE DEF Begins
    <3> QED  BY <3>1
  <2>2. ASSUME NEW n \in Nat, n \in S PROVE n + 1 \in S
    <3>1. PICK f : Begins(n, f)
      BY <2>2
    <3> DEFINE g == [k \in 0..n + 1 |-> IF k <= n THEN f[k] ELSE step[<<n, f[n]>>]]
    <3>2. f[n] \in D /\ step[<<n, f[n]>>] \in D
      BY <3>1
    <3>3. g \in [0..n + 1 -> D] /\ g[0] = start
      BY <3>1, <3>2
    <3>4. ASSUME NEW k \in Nat, k < n + 1 PROVE g[k + 1] = step[<<k, g[k]>>]
      <4>1. CASE k < n
        BY <3>1, <4>1
      <4>2. CASE k = n
        <5>1. g[n] = f[n] /\ g[n + 1] = step[<<n, f[n]>>]
          OBVIOUS
        <5> QED  BY <4>2, <5>1
      <4> QED  BY <3>4, <4>1, <4>2
    <3>5. Begins(n + 1, g)
      BY <3>3, <3>4
    <3> HIDE DEF Begins, g
    <3> QED  BY <3>5
  <2> HIDE DEF S, Begins
  <2>3. \A n \in Nat : n \in S
    BY <2>1, <2>2, NatSet
  <2> QED  BY <2>3 DEF S
<1>2. ASSUME NEW m \in Nat, NEW n \in Nat, n <= m, NEW f, NEW g, Begins(n, f), Begins(m, g)
      PROVE  \A k \in 0..n : f[k] = g[k]
  <2> DEFINE S == {k \in Nat : k <= n => f[k] = g[k]}
  <2>1. 0 \in S
    BY <1>2
  <2>2. ASSUME NEW k \in Nat, k \in S PROVE k + 1 \in S
    <3> SUFFICES ASSUME k + 1 <= n PROVE f[k + 1] = g[k + 1]
      OBVIOUS
    <3>1. f[k] = g[k]
      BY <2>2
    <3>2. f[k + 1] = step[<<k, f[k]>>] /\ g[k + 1] = step[<<k, g[k]>>]
      BY <1>2
    <3> QED  BY <3>1, <3>2
  <2> HIDE DEF S
  <2>3. \A k \in Nat : k \in S
    BY <2>1, <2>2, NatSet
  <2> QED  BY <2>3 DEF S
<1> DEFINE F == [n \in Nat |-> CHOOSE f : Begins(n, f)]
<1>3. \A n \in Nat : Begins(n, F[n])
  <2> HIDE DEF Begins
  <2> QED  BY <1>1
<1> DEFINE h == [n \in Nat |-> F[n][n]]
<1>4. \A n \in Nat : F[n][n] \in D
  <2> TAKE n \in Nat
  <2> HIDE DEF F
  <2> QED  BY <1>3
<1>5. h \in [Nat -> D] /\ h[0] = start
  <2>1. F[0][0] = start
    <3> HIDE DEF F
    <3> QED  BY <1>3
  <2> HIDE DEF F
  <2> QED  BY <1>4, <2>1
<1>6. ASSUME NEW k \in Nat PROVE h[k + 1] = step[<<k, h[k]>>]
  <2> HIDE DEF F
  <2>1. F[k + 1][k + 1] = step[<<k, F[k + 1][k]>>]
    BY <1>3
  <2>2. F[k][k] = F[k + 1][k]
    <3> HIDE DEF Begins
    <3> QED  BY <1>2, <1>3
  <2> QED  BY <2>1, <2>2
<1> HIDE DEF h
<1>7. IteratesFrom(h, D, start, step)
  BY <1>5, <1>6 DEF IteratesFrom
<1> QED  BY <1>7

-----------------------------------------------------------------------------
(* Numbers and their bytes.                                                 *)

(* Each byte off the end divides by 256.                                    *)
LEMMA ShiftedStep ==
  ASSUME NEW n \in Nat
  PROVE  /\ Shifted(n) \in [Nat -> Nat] /\ Shifted(n)[0] = n
         /\ \A k \in Nat : Shifted(n)[k + 1] = Shifted(n)[k] \div 256
<1> DEFINE step == [p \in Nat \X Nat |-> p[2] \div 256]
<1>1. \A k \in Nat, d \in Nat : step[<<k, d>>] \in Nat
  OBVIOUS
<1> HIDE DEF step
<1>2. PICK f : IteratesFrom(f, Nat, n, step)
  BY <1>1, Iterates
<1> USE DEF step
<1>3. f \in [Nat -> Nat] /\ f[0] = n /\ \A k \in Nat : f[k + 1] = f[k] \div 256
  BY <1>2 DEF IteratesFrom
<1> DEFINE Def(g) == g = [k \in Nat |-> IF k = 0 THEN n ELSE g[k - 1] \div 256]
<1>4. Def(f)
  <2>1. \A k \in Nat : k # 0 => f[k] = f[k - 1] \div 256
    <3> TAKE k \in Nat
    <3> SUFFICES ASSUME k # 0 PROVE f[k] = f[k - 1] \div 256
      OBVIOUS
    <3>1. k - 1 \in Nat /\ (k - 1) + 1 = k
      OBVIOUS
    <3> QED  BY <1>3, <3>1
  <2> QED  BY <1>3, <2>1
<1>5. Shifted(n) = CHOOSE g : Def(g)
  BY DEF Shifted
<1>6. Def(Shifted(n))
  <2> HIDE DEF Def
  <2> QED  BY <1>4, <1>5
<1> DEFINE s == Shifted(n)
<1>7. s = [k \in Nat |-> IF k = 0 THEN n ELSE s[k - 1] \div 256]
  BY <1>6
<1> HIDE DEF s
<1>8. s[0] = n /\ \A k \in Nat : s[k + 1] = s[k] \div 256
  BY <1>7
<1>9. \A k \in Nat : s[k] \in Nat
  <2> DEFINE S == {k \in Nat : s[k] \in Nat}
  <2>1. 0 \in S
    BY <1>8
  <2>2. \A k \in Nat : k \in S => k + 1 \in S
    BY <1>8
  <2> HIDE DEF S
  <2>3. \A k \in Nat : k \in S
    BY <2>1, <2>2, NatSet
  <2> QED  BY <2>3 DEF S
<1> QED  BY <1>7, <1>8, <1>9 DEF s

LEMMA ByteRange ==
  ASSUME NEW b \in Seq(Byte)
  PROVE  Len(b) \in Nat /\ \A k \in 1..Len(b) : b[k] \in 0..255 /\ b[k] \in Nat
<1>1. Len(b) \in Nat /\ \A k \in 1..Len(b) : b[k] \in Byte
  OBVIOUS
<1>2. \A x \in Byte : x \in 0..255 /\ x \in Nat
  BY DEF Byte
<1> QED  BY <1>1, <1>2

(* Each byte taken up multiplies by 256.                                    *)
LEMMA ValuesStep ==
  ASSUME NEW b \in Seq(Byte)
  PROVE  /\ Values(b) \in [0..Len(b) -> Nat] /\ Values(b)[0] = 0
         /\ \A k \in 1..Len(b) : Values(b)[k] = 256 * Values(b)[k - 1] + b[k]
<1> DEFINE byte(k) == IF k + 1 \in 1..Len(b) THEN b[k + 1] ELSE 0
           step == [p \in Nat \X Nat |-> 256 * p[2] + byte(p[1])]
<1>1. \A k \in Nat, d \in Nat : step[<<k, d>>] = 256 * d + byte(k) /\ byte(k) \in Nat
  <2> TAKE k \in Nat, d \in Nat
  <2>1. byte(k) \in Nat
    BY ByteRange
  <2> HIDE DEF byte
  <2> QED  BY <2>1
<1>2. \A k \in Nat, d \in Nat : step[<<k, d>>] \in Nat
  <2> HIDE DEF step, byte
  <2> TAKE k \in Nat, d \in Nat
  <2>1. 256 * d \in Nat
    OBVIOUS
  <2> QED  BY <1>1, <2>1
<1> HIDE DEF step
<1>3. PICK f : IteratesFrom(f, Nat, 0, step)
  BY <1>2, Iterates
<1>4. f \in [Nat -> Nat] /\ f[0] = 0 /\ \A k \in Nat : f[k + 1] = step[<<k, f[k]>>]
  BY <1>3 DEF IteratesFrom
<1>5. \A k \in Nat : f[k + 1] = 256 * f[k] + byte(k)
  <2> TAKE k \in Nat
  <2>1. f[k] \in Nat
    BY <1>4
  <2>2. step[<<k, f[k]>>] = 256 * f[k] + byte(k)
    <3> HIDE DEF byte
    <3> QED  BY <1>1, <2>1, Zenon
  <2>3. f[k + 1] = step[<<k, f[k]>>]
    BY <1>4
  <2> QED  BY <2>2, <2>3
<1>6. \A k \in 1..Len(b) : f[k] = 256 * f[k - 1] + b[k]
  <2> TAKE k \in 1..Len(b)
  <2>1. k - 1 \in Nat /\ (k - 1) + 1 = k /\ byte(k - 1) = b[k]
    OBVIOUS
  <2> HIDE DEF byte
  <2> QED  BY <1>5, <2>1
<1> DEFINE Def(g) == g = [k \in 0..Len(b) |-> IF k = 0 THEN 0 ELSE 256 * g[k - 1] + b[k]]
           h == [k \in 0..Len(b) |-> f[k]]
<1>7. Def(h)
  <2>1. \A k \in 0..Len(b) : k # 0 => f[k] = 256 * h[k - 1] + b[k]
    BY <1>6
  <2>2. h = [k \in 0..Len(b) |-> IF k = 0 THEN 0 ELSE 256 * h[k - 1] + b[k]]
    <3>1. \A k \in 0..Len(b) : h[k] = IF k = 0 THEN 0 ELSE 256 * h[k - 1] + b[k]
      BY <1>4, <2>1
    <3> QED  BY <3>1
  <2> QED  BY <2>2
<1>8. Values(b) = CHOOSE g : Def(g)
  BY DEF Values
<1>9. Def(Values(b))
  <2> HIDE DEF Def
  <2> QED  BY <1>7, <1>8
<1> DEFINE v == Values(b)
<1>10. v = [k \in 0..Len(b) |-> IF k = 0 THEN 0 ELSE 256 * v[k - 1] + b[k]]
  BY <1>9
<1> HIDE DEF v
<1>11. v[0] = 0 /\ \A k \in 1..Len(b) : v[k] = 256 * v[k - 1] + b[k]
  BY <1>10
<1>12. \A k \in 0..Len(b) : v[k] \in Nat
  <2> DEFINE S == {k \in Nat : k <= Len(b) => v[k] \in Nat}
  <2>1. 0 \in S
    BY <1>11
  <2>2. ASSUME NEW k \in Nat, k \in S PROVE k + 1 \in S
    <3> SUFFICES ASSUME k + 1 <= Len(b) PROVE v[k + 1] \in Nat
      OBVIOUS
    <3>1. v[k] \in Nat /\ k + 1 \in 1..Len(b) /\ (k + 1) - 1 = k
      BY <2>2, ByteRange
    <3>2. b[k + 1] \in Nat
      BY <3>1, ByteRange
    <3> QED  BY <1>11, <3>1, <3>2
  <2> HIDE DEF S
  <2>3. \A k \in Nat : k \in S
    BY <2>1, <2>2, NatSet
  <2> QED  BY <2>3 DEF S
<1> QED  BY <1>10, <1>11, <1>12 DEF v

(* u32::from_be_bytes and u64::from_be_bytes are undone by to_be_bytes      *)
(* (framing.rs 24, lib.rs 196): the bytes determine the number and the      *)
(* number, with their count, the bytes.                                     *)
THEOREM BytesOfNumber ==
  ASSUME NEW b \in Seq(Byte)
  PROVE  /\ FromBigEndian(b) \in Nat /\ InBytes(FromBigEndian(b), Len(b))
         /\ BigEndian(FromBigEndian(b), Len(b)) = b
<1> DEFINE n == FromBigEndian(b)
           v == Values(b)
           s == Shifted(n)
           l == Len(b)
<1>1. l \in Nat /\ n = v[l] /\ n \in Nat
  BY ValuesStep DEF FromBigEndian
<1>2. v \in [0..l -> Nat] /\ v[0] = 0 /\ \A k \in 1..l : v[k] = 256 * v[k - 1] + b[k]
  BY ValuesStep
<1>3. s \in [Nat -> Nat] /\ s[0] = n /\ \A k \in Nat : s[k + 1] = s[k] \div 256
  BY <1>1, ShiftedStep
<1>4. \A k \in 1..l : b[k] \in 0..255
  BY ByteRange
<1> HIDE DEF n, v, s
<1>5. \A k \in 1..l : v[k] \div 256 = v[k - 1] /\ v[k] % 256 = b[k]
  <2> TAKE k \in 1..l
  <2> DEFINE d == v[k - 1]
             c == b[k]
  <2>1. v[k] = 256 * d + c /\ d \in Nat /\ c \in 0..255
    BY <1>1, <1>2, <1>4
  <2> HIDE DEF d, c
  <2>2. (256 * d + c) \div 256 = d /\ (256 * d + c) % 256 = c
    BY <2>1
  <2> QED  BY <2>1, <2>2 DEF d, c
<1>6. \A j \in 0..l : s[j] = v[l - j]
  <2> DEFINE S == {j \in Nat : j <= l => s[j] = v[l - j]}
  <2>1. 0 \in S
    BY <1>1, <1>3
  <2>2. ASSUME NEW j \in Nat, j \in S PROVE j + 1 \in S
    <3> SUFFICES ASSUME j + 1 <= l PROVE s[j + 1] = v[l - (j + 1)]
      OBVIOUS
    <3>1. s[j] = v[l - j] /\ l - j \in 1..l /\ (l - j) - 1 = l - (j + 1)
      BY <1>1, <2>2
    <3>2. v[l - j] \div 256 = v[(l - j) - 1]
      BY <1>5, <3>1
    <3>3. s[j + 1] = s[j] \div 256
      BY <1>3
    <3> QED  BY <3>1, <3>2, <3>3
  <2> HIDE DEF S
  <2>3. \A j \in Nat : j \in S
    BY <2>1, <2>2, NatSet
  <2> QED  BY <1>1, <2>3 DEF S
<1>7. s[l] = 0
  BY <1>1, <1>2, <1>6
<1>8. \A i \in 1..l : s[l - i] % 256 = b[i]
  <2> TAKE i \in 1..l
  <2>1. l - i \in 0..l /\ l - (l - i) = i
    BY <1>1
  <2>2. s[l - i] = v[i]
    BY <1>6, <2>1
  <2> QED  BY <1>5, <2>2
<1>9. [i \in 1..l |-> s[l - i] % 256] = b
  BY <1>8
<1> QED  BY <1>1, <1>7, <1>9 DEF n, s, InBytes, BigEndian

(* A number that fits is read back from the bytes it was written to         *)
(* (framing.rs 55 and 24, lib.rs 129 and 196).                              *)
THEOREM NumberOfBytes ==
  ASSUME NEW n \in Nat, NEW len \in Nat
  PROVE  /\ BigEndian(n, len) \in Seq(Byte) /\ Len(BigEndian(n, len)) = len
         /\ InBytes(n, len) => FromBigEndian(BigEndian(n, len)) = n
<1> DEFINE s == Shifted(n)
           b == BigEndian(n, len)
           v == Values(b)
<1>1. s \in [Nat -> Nat] /\ s[0] = n /\ \A k \in Nat : s[k + 1] = s[k] \div 256
  BY ShiftedStep
<1>2. b = [i \in 1..len |-> s[len - i] % 256]
  BY DEF BigEndian
<1> HIDE DEF s, b
<1>3. \A i \in 1..len : s[len - i] \in Nat /\ s[len - i] % 256 \in 0..255
  <2> TAKE i \in 1..len
  <2>1. s[len - i] \in Nat
    BY <1>1
  <2> QED  BY <2>1
<1>4. b \in Seq(Byte) /\ Len(b) = len
  <2>1. b \in [1..len -> Byte]
    BY <1>2, <1>3 DEF Byte
  <2> QED  BY <2>1
<1>5. ASSUME InBytes(n, len) PROVE FromBigEndian(b) = n
  <2>1. s[len] = 0
    BY <1>5 DEF InBytes, s
  <2>2. v \in [0..len -> Nat] /\ v[0] = 0 /\ \A k \in 1..len : v[k] = 256 * v[k - 1] + b[k]
    BY <1>4, ValuesStep
  <2> HIDE DEF v
  <2> DEFINE S == {k \in Nat : k <= len => v[k] = s[len - k]}
  <2>3. 0 \in S
    BY <2>1, <2>2
  <2>4. ASSUME NEW k \in Nat, k \in S PROVE k + 1 \in S
    <3> SUFFICES ASSUME k + 1 <= len PROVE v[k + 1] = s[len - (k + 1)]
      OBVIOUS
    <3> DEFINE d == s[len - (k + 1)]
    <3>1. d \in Nat
      BY <1>1
    <3>2. s[len - k] = d \div 256 /\ b[k + 1] = d % 256
      <4>1. len - (k + 1) \in Nat /\ (len - (k + 1)) + 1 = len - k
        OBVIOUS
      <4> QED  BY <1>1, <1>2, <4>1
    <3>3. v[k + 1] = 256 * v[k] + b[k + 1] /\ v[k] = s[len - k]
      <4>1. k + 1 \in 1..len /\ (k + 1) - 1 = k
        OBVIOUS
      <4> QED  BY <2>2, <2>4, <4>1
    <3> HIDE DEF d
    <3>4. v[k + 1] = 256 * (d \div 256) + (d % 256)
      BY <3>2, <3>3
    <3>5. v[k + 1] = d
      BY <3>1, <3>4
    <3> QED  BY <3>5 DEF d
  <2> HIDE DEF S
  <2>5. \A k \in Nat : k \in S
    BY <2>3, <2>4, NatSet
  <2>6. v[len] = s[0]
    BY <2>5 DEF S
  <2> QED  BY <1>1, <1>4, <2>6 DEF FromBigEndian, v
<1> QED  BY <1>4, <1>5 DEF b

-----------------------------------------------------------------------------
(* Sequences in two parts.                                                  *)

LEMMA CutProperties ==
  ASSUME NEW S, NEW s \in Seq(S), NEW k \in 0..Len(s)
  PROVE  /\ SubSeq(s, 1, k) \in Seq(S) /\ Len(SubSeq(s, 1, k)) = k
         /\ SubSeq(s, k + 1, Len(s)) \in Seq(S) /\ Len(SubSeq(s, k + 1, Len(s))) = Len(s) - k
         /\ SubSeq(s, 1, k) \o SubSeq(s, k + 1, Len(s)) = s
         /\ \A i \in 1..k : SubSeq(s, 1, k)[i] = s[i]
         /\ \A i \in 1..Len(s) - k : SubSeq(s, k + 1, Len(s))[i] = s[k + i]
<1>1. Len(s) \in Nat /\ k \in Nat /\ \A i \in 1..Len(s) : s[i] \in S
  BY LenProperties
<1>2. /\ SubSeq(s, 1, k) \in Seq(S) /\ Len(SubSeq(s, 1, k)) = k
      /\ \A i \in 1..k : SubSeq(s, 1, k)[i] = s[i]
  BY <1>1
<1>3. /\ SubSeq(s, k + 1, Len(s)) \in Seq(S) /\ Len(SubSeq(s, k + 1, Len(s))) = Len(s) - k
      /\ \A i \in 1..Len(s) - k : SubSeq(s, k + 1, Len(s))[i] = s[k + i]
  BY <1>1
<1>4. SubSeq(s, 1, k) \o SubSeq(s, k + 1, Len(s)) = SubSeq(s, 1, Len(s))
  <2>1. 1 \in 1..Len(s) + 1 /\ k \in (1 - 1)..Len(s) /\ Len(s) \in k..Len(s)
    BY <1>1
  <2> QED  BY <2>1, ConcatAdjacentSubSeq
<1>5. SubSeq(s, 1, Len(s)) = s
  BY SubSeqFull
<1> QED  BY <1>2, <1>3, <1>4, <1>5

LEMMA JoinProperties ==
  ASSUME NEW S, NEW s \in Seq(S), NEW t \in Seq(S)
  PROVE  /\ SubSeq(s \o t, 1, Len(s)) = s
         /\ SubSeq(s \o t, Len(s) + 1, Len(s \o t)) = t
<1> DEFINE u == s \o t
           c == SubSeq(u, 1, Len(s))
           d == SubSeq(u, Len(s) + 1, Len(u))
<1>1. /\ u \in Seq(S) /\ Len(u) = Len(s) + Len(t) /\ Len(s) \in Nat /\ Len(t) \in Nat
      /\ \A i \in 1..Len(s) : u[i] = s[i]
      /\ \A i \in 1..Len(t) : u[Len(s) + i] = t[i]
  BY ConcatProperties, LenProperties
<1> HIDE DEF u
<1>2. Len(s) \in 0..Len(u) /\ Len(u) - Len(s) = Len(t)
  BY <1>1
<1>3. c \in Seq(S) /\ Len(c) = Len(s) /\ \A i \in 1..Len(s) : c[i] = s[i]
  BY <1>1, <1>2, CutProperties
<1>4. d \in Seq(S) /\ Len(d) = Len(t) /\ \A i \in 1..Len(t) : d[i] = t[i]
  BY <1>1, <1>2, CutProperties
<1> HIDE DEF c, d
<1>5. c = s
  BY <1>3, SeqEqual
<1>6. d = t
  BY <1>4, SeqEqual
<1> QED  BY <1>5, <1>6 DEF c, d, u

(* The same, of bytes.                                                      *)
Bytes == Seq(Byte)

\* A name for the equation, so that the provers need not look for instances.
Associated(x, y, z) == (x \o y) \o z = x \o (y \o z)

LEMMA BytesAssociate ==
  \A x, y, z \in Bytes : Associated(x, y, z)
<1>1. ASSUME NEW S, NEW x \in Seq(S), NEW y \in Seq(S), NEW z \in Seq(S)
      PROVE  (x \o y) \o z = x \o (y \o z)
  BY ConcatAssociative
<1> QED  BY <1>1 DEF Associated, Bytes

LEMMA BytesJoin ==
  \A x, y \in Bytes :
    /\ x \o y \in Bytes /\ Len(x \o y) = Len(x) + Len(y)
    /\ SubSeq(x \o y, 1, Len(x)) = x
  BY JoinProperties, ConcatProperties DEF Bytes

LEMMA BytesCancel ==
  \A x, y, z \in Bytes : x \o y = x \o z => y = z
<1> SUFFICES ASSUME NEW x \in Bytes, NEW y \in Bytes, NEW z \in Bytes, x \o y = x \o z
             PROVE  y = z
  OBVIOUS
<1>1. SubSeq(x \o y, Len(x) + 1, Len(x \o y)) = y
  BY JoinProperties DEF Bytes
<1>2. SubSeq(x \o z, Len(x) + 1, Len(x \o z)) = z
  BY JoinProperties DEF Bytes
<1> QED  BY <1>1, <1>2

LEMMA BytesEmpty ==
  <<>> \in Bytes /\ \A x \in Bytes : x \o <<>> = x /\ <<>> \o x = x /\ Len(x) \in Nat
  BY ConcatEmptySeq DEF Bytes

-----------------------------------------------------------------------------
(* The messages.                                                            *)

(* A request that decodes is what encoding its value gives, whatever the    *)
(* bytes were: nothing is dropped or added (lib.rs 120-144).                *)
THEOREM RequestIsCanonical ==
  ASSUME NEW b \in Seq(Byte)
  PROVE  Rejected(DecodeRequest(b)) \/ EncodeRequest(DecodeRequest(b)) = b
<1> DEFINE head == SubSeq(b, 1, IdLen)
           payload == SubSeq(b, IdLen + 1, Len(b))
           id == FromBigEndian(head)
<1> SUFFICES ASSUME ~Rejected(DecodeRequest(b)) PROVE EncodeRequest(DecodeRequest(b)) = b
  OBVIOUS
<1>1. /\ Len(b) <= MaxRequest /\ Len(b) > IdLen /\ id # 0
      /\ DecodeRequest(b) = [id |-> id, payload |-> payload]
  <2>1. ~(Len(b) > MaxRequest)
    BY DEF DecodeRequest, Rejected
  <2>2. ~(Len(b) <= IdLen \/ id = 0)
    BY <2>1 DEF DecodeRequest, Rejected
  <2>3. DecodeRequest(b) = [id |-> id, payload |-> payload]
    BY <2>1, <2>2 DEF DecodeRequest
  <2> QED  BY <2>1, <2>2, <2>3, CodecAssumption DEF MaxRequest
<1>2. IdLen \in 0..Len(b) /\ IdLen \in Nat /\ MaxPayload \in Nat
  BY <1>1, CodecAssumption
<1>3. /\ head \in Seq(Byte) /\ Len(head) = IdLen /\ head \o payload = b
      /\ payload \in Seq(Byte) /\ Len(payload) = Len(b) - IdLen
  BY <1>2, CutProperties
<1>5. BigEndian(id, IdLen) = head
  BY <1>3, BytesOfNumber
<1> HIDE DEF head, payload, id
<1>4. payload # <<>> /\ Len(payload) <= MaxPayload
  <2>1. Len(b) \in Nat /\ Len(b) <= IdLen + MaxPayload
    BY <1>1 DEF MaxRequest
  <2>2. Len(payload) > 0 /\ Len(payload) <= MaxPayload
    BY <1>1, <1>2, <1>3, <2>1
  <2> QED  BY <2>2
<1> DEFINE r == [id |-> id, payload |-> payload]
<1>6. r.id = id /\ r.payload = payload
  OBVIOUS
<1> HIDE DEF r
<1>7. EncodeRequest(r) = BigEndian(id, IdLen) \o payload
  BY <1>1, <1>2, <1>3, <1>4, <1>6 DEF EncodeRequest
<1> QED  BY <1>1, <1>3, <1>5, <1>7 DEF r

(* The same of a response: the flag, the verdict and the report leave no    *)
(* choice to whoever encodes them (lib.rs 146-193).                         *)
THEOREM ResponseIsCanonical ==
  ASSUME NEW b \in Seq(Byte)
  PROVE  Rejected(DecodeResponse(b)) \/ EncodeResponse(DecodeResponse(b)) = b
<1> DEFINE head == SubSeq(b, 1, IdLen)
           id == FromBigEndian(head)
           verdict == b[IdLen + 1]
           flag == b[IdLen + 2]
           report == SubSeq(b, IdLen + 3, Len(b))
           r == [id |-> id, verdict |-> verdict, report |-> IF flag = 0 THEN Absent ELSE report]
<1> SUFFICES ASSUME ~Rejected(DecodeResponse(b)) PROVE EncodeResponse(DecodeResponse(b)) = b
  OBVIOUS
<1>1. /\ ~(Len(b) > MaxResponse) /\ Len(b) >= IdLen + 2 /\ id # 0 /\ Flagged(flag, report)
      /\ DecodeResponse(b) = r
  BY DEF DecodeResponse, Rejected
<1>2. /\ IdLen \in Nat /\ MaxReportLen \in Nat /\ Len(b) \in Nat
      /\ IdLen \in 0..Len(b) /\ IdLen + 2 \in 0..Len(b)
  BY <1>1, CodecAssumption
<1>3. head \in Seq(Byte) /\ Len(head) = IdLen /\ \A i \in 1..IdLen : head[i] = b[i]
  BY <1>2, CutProperties
<1>4. /\ report \in Seq(Byte) /\ Len(report) = Len(b) - (IdLen + 2)
      /\ \A i \in 1..Len(b) - (IdLen + 2) : report[i] = b[IdLen + 2 + i]
  <2> DEFINE k == IdLen + 2
             t == SubSeq(b, k + 1, Len(b))
  <2>1. k \in 0..Len(b)
    BY <1>2
  <2>2. t = report
    <3>1. IdLen + 3 = k + 1
      BY <1>2
    <3> QED  BY <3>1
  <2> HIDE DEF k
  <2>3. t \in Seq(Byte) /\ Len(t) = Len(b) - k /\ \A i \in 1..Len(b) - k : t[i] = b[k + i]
    BY <2>1, CutProperties
  <2> HIDE DEF t, report
  <2> QED  BY <2>2, <2>3 DEF k
<1>5. BigEndian(id, IdLen) = head
  <2>1. \A x \in Seq(Byte) : BigEndian(FromBigEndian(x), Len(x)) = x
    BY BytesOfNumber
  <2> HIDE DEF head
  <2> QED  BY <1>3, <2>1, Zenon
<1>6. report # Absent /\ Len(report) <= MaxReportLen
  <2>1. report # Absent
    BY <1>4, CodecAssumption
  <2>2. Len(b) <= IdLen + 2 + MaxReportLen
    BY <1>1, <1>2 DEF MaxResponse
  <2>3. Len(report) <= MaxReportLen
    BY <1>2, <1>4, <2>2
  <2> QED  BY <2>1, <2>3
<1>7. r.id = id /\ r.verdict = verdict /\ r.report = IF flag = 0 THEN Absent ELSE report
  OBVIOUS
<1> HIDE DEF r
<1>8. verdict \in Byte /\ flag \in Byte
  BY <1>2
<1> HIDE DEF head, id, verdict, flag, report
<1>9. (flag = 0 /\ report = <<>>) \/ flag = 1
  BY <1>1 DEF Flagged
<1>10. ReportBytes(r) = report /\ flag = IF HasReport(r) THEN 1 ELSE 0
  BY <1>6, <1>7, <1>9 DEF ReportBytes, HasReport
<1>11. EncodeResponse(r) = BigEndian(id, IdLen) \o <<verdict, flag>> \o report
  BY <1>1, <1>2, <1>4, <1>6, <1>7, <1>10 DEF EncodeResponse
<1> DEFINE e == (head \o <<verdict, flag>>) \o report
<1>12. <<verdict, flag>> \in Seq(Byte) /\ Len(<<verdict, flag>>) = 2
  BY <1>8
<1>13. /\ head \o <<verdict, flag>> \in Seq(Byte)
       /\ Len(head \o <<verdict, flag>>) = IdLen + 2
       /\ \A i \in 1..IdLen : (head \o <<verdict, flag>>)[i] = b[i]
       /\ (head \o <<verdict, flag>>)[IdLen + 1] = verdict
       /\ (head \o <<verdict, flag>>)[IdLen + 2] = flag
  BY <1>2, <1>3, <1>12
<1> DEFINE h == head \o <<verdict, flag>>
<1>14. \A i \in 1..IdLen + 2 : h[i] = b[i]
  <2> TAKE i \in 1..IdLen + 2
  <2>1. i \in 1..IdLen \/ i = IdLen + 1 \/ i = IdLen + 2
    BY <1>2
  <2> QED  BY <1>13, <2>1 DEF verdict, flag
<1>15. h \in Seq(Byte) /\ Len(h) = IdLen + 2
  BY <1>13
<1> HIDE DEF h
<1>16. h \o report = b
  <2>1. /\ h \o report \in Seq(Byte) /\ Len(h \o report) = Len(b)
        /\ \A i \in 1..Len(b) :
             (h \o report)[i] = IF i <= IdLen + 2 THEN h[i] ELSE report[i - (IdLen + 2)]
    <3>1. Len(h) + Len(report) = Len(b)
      BY <1>2, <1>4, <1>15
    <3>2. /\ h \o report \in Seq(Byte) /\ Len(h \o report) = Len(h) + Len(report)
          /\ \A i \in 1..Len(h) + Len(report) :
               (h \o report)[i] = IF i <= Len(h) THEN h[i] ELSE report[i - Len(h)]
      BY <1>4, <1>15, ConcatProperties
    <3> QED  BY <1>15, <3>1, <3>2
  <2>2. ASSUME NEW i \in 1..Len(b) PROVE (h \o report)[i] = b[i]
    <3>1. CASE i <= IdLen + 2
      <4>1. i \in 1..IdLen + 2
        BY <3>1
      <4> QED  BY <1>14, <2>1, <3>1, <4>1
    <3>2. CASE ~(i <= IdLen + 2)
      <4>1. i - (IdLen + 2) \in 1..Len(b) - (IdLen + 2) /\ IdLen + 2 + (i - (IdLen + 2)) = i
        BY <1>2, <3>2
      <4> QED  BY <1>4, <2>1, <3>2, <4>1
    <3> QED  BY <3>1, <3>2
  <2> QED  BY <2>1, <2>2, SeqEqual
<1> QED  BY <1>1, <1>5, <1>11, <1>16 DEF h

(* A request that encodes is read back as it was (lib.rs 120-144).          *)
THEOREM RequestIsRead ==
  ASSUME NEW r \in Request, EncodeRequest(r) \in Seq(Byte)
  PROVE  DecodeRequest(EncodeRequest(r)) = r
<1>1. r.id \in Nat /\ InBytes(r.id, IdLen) /\ r.payload \in Seq(Byte) /\ r = [id |-> r.id, payload |-> r.payload]
  BY DEF Request, Id
<1>2. r.id # 0 /\ r.payload # <<>> /\ Len(r.payload) <= MaxPayload
  <2>1. Malformed \notin Seq(Byte) /\ TooLarge \notin Seq(Byte)
    BY CodecAssumption
  <2>2. ~(r.id = 0 \/ r.payload = <<>>)
    <3>1. ASSUME r.id = 0 \/ r.payload = <<>> PROVE EncodeRequest(r) = Malformed
      <4>1. Len(<<>>) = 0 /\ MaxPayload \in Nat
        BY CodecAssumption
      <4>2. ~(0 > MaxPayload)
        BY <4>1
      <4>3. ~(r.id # 0 /\ Len(r.payload) > MaxPayload)
        BY <3>1, <4>1, <4>2
      <4> QED  BY <3>1, <4>3 DEF EncodeRequest
    <3> QED  BY <2>1, <3>1
  <2>3. ~(Len(r.payload) > MaxPayload)
    BY <2>1, <2>2 DEF EncodeRequest
  <2> QED  BY <1>1, <2>2, <2>3, CodecAssumption
<1> DEFINE head == BigEndian(r.id, IdLen)
           b == EncodeRequest(r)
<1>3. b = head \o r.payload
  BY <1>1, <1>2, CodecAssumption DEF EncodeRequest
<1>4. head \in Seq(Byte) /\ Len(head) = IdLen /\ FromBigEndian(head) = r.id
  BY <1>1, NumberOfBytes, CodecAssumption
<1> HIDE DEF head, b
<1>5. Len(b) = IdLen + Len(r.payload) /\ Len(r.payload) > 0
  <2>1. Len(b) = Len(head) + Len(r.payload)
    BY <1>1, <1>3, <1>4, ConcatProperties
  <2>2. Len(r.payload) > 0
    BY <1>1, <1>2
  <2> QED  BY <1>4, <2>1, <2>2
<1>6. ~(Len(b) > MaxRequest) /\ ~(Len(b) <= IdLen)
  BY <1>1, <1>2, <1>5, CodecAssumption DEF MaxRequest
<1>7. SubSeq(b, 1, IdLen) = head /\ SubSeq(b, IdLen + 1, Len(b)) = r.payload
  BY <1>1, <1>3, <1>4, JoinProperties
<1>8. DecodeRequest(b) = [id |-> r.id, payload |-> r.payload]
  BY <1>2, <1>4, <1>6, <1>7 DEF DecodeRequest
<1> QED  BY <1>1, <1>8 DEF b

(* A response that encodes is read back as it was, an empty report told from *)
(* none (lib.rs 146-193).                                                   *)
THEOREM ResponseIsRead ==
  ASSUME NEW r \in Response, EncodeResponse(r) \in Seq(Byte)
  PROVE  DecodeResponse(EncodeResponse(r)) = r
<1> DEFINE flag == IF HasReport(r) THEN 1 ELSE 0
           report == ReportBytes(r)
           head == BigEndian(r.id, IdLen)
           middle == <<r.verdict, flag>>
           b == EncodeResponse(r)
<1>1. /\ r.id \in Nat /\ InBytes(r.id, IdLen) /\ r.verdict \in Verdict
      /\ r.report = Absent \/ (r.report \in Seq(Byte) /\ Utf8(r.report))
      /\ r = [id |-> r.id, verdict |-> r.verdict, report |-> r.report]
  BY DEF Response, Id
<1>2. report \in Seq(Byte)
  BY <1>1 DEF ReportBytes, HasReport
<1>3. r.id # 0 /\ Len(report) <= MaxReportLen
  <2>1. Malformed \notin Seq(Byte) /\ TooLarge \notin Seq(Byte)
    BY CodecAssumption
  <2>2. r.id # 0
    BY <2>1 DEF EncodeResponse
  <2>3. ~(Len(report) > MaxReportLen)
    BY <2>1, <2>2 DEF EncodeResponse
  <2> QED  BY <1>2, <2>2, <2>3, CodecAssumption
<1>4. b = (head \o middle) \o report
  BY <1>2, <1>3, CodecAssumption DEF EncodeResponse
<1>5. head \in Seq(Byte) /\ Len(head) = IdLen /\ FromBigEndian(head) = r.id /\ IdLen \in Nat
  BY <1>1, NumberOfBytes, CodecAssumption
<1>6. /\ middle \in Seq(Byte) /\ Len(middle) = 2 /\ middle[1] = r.verdict /\ middle[2] = flag
      /\ Flagged(flag, report) /\ r.report = IF flag = 0 THEN Absent ELSE report
  <2>1. r.verdict \in Byte /\ flag \in Byte
    BY <1>1 DEF Verdict, Byte
  <2>2. Flagged(flag, report) /\ r.report = IF flag = 0 THEN Absent ELSE report
    BY <1>1 DEF Flagged, ReportBytes, HasReport
  <2> HIDE DEF flag
  <2> QED  BY <2>1, <2>2
<1> HIDE DEF head, middle, b, flag, report
<1> DEFINE h == head \o middle
<1>7. /\ h \in Seq(Byte) /\ Len(h) = IdLen + 2 /\ \A i \in 1..IdLen : h[i] = head[i]
      /\ h[IdLen + 1] = r.verdict /\ h[IdLen + 2] = flag
  <2>1. /\ h \in Seq(Byte) /\ Len(h) = IdLen + 2
        /\ \A i \in 1..IdLen + 2 : h[i] = IF i <= IdLen THEN head[i] ELSE middle[i - IdLen]
    <3>1. /\ h \in Seq(Byte) /\ Len(h) = Len(head) + Len(middle)
          /\ \A i \in 1..Len(head) + Len(middle) :
               h[i] = IF i <= Len(head) THEN head[i] ELSE middle[i - Len(head)]
      BY <1>5, <1>6, ConcatProperties
    <3> HIDE DEF h
    <3> QED  BY <1>5, <1>6, <3>1
  <2>2. /\ \A i \in 1..IdLen : i \in 1..IdLen + 2 /\ i <= IdLen
        /\ IdLen + 1 \in 1..IdLen + 2 /\ IdLen + 2 \in 1..IdLen + 2
        /\ ~(IdLen + 1 <= IdLen) /\ ~(IdLen + 2 <= IdLen)
        /\ (IdLen + 1) - IdLen = 1 /\ (IdLen + 2) - IdLen = 2
    BY <1>5
  <2> HIDE DEF h
  <2> QED  BY <1>6, <2>1, <2>2
<1>8. b = h \o report
  BY <1>4
<1> HIDE DEF h
<1>9. /\ b \in Seq(Byte) /\ Len(b) = IdLen + 2 + Len(report) /\ \A i \in 1..IdLen + 2 : b[i] = h[i]
      /\ SubSeq(b, IdLen + 3, Len(b)) = report
  <2>1. /\ b \in Seq(Byte) /\ Len(b) = Len(h) + Len(report)
        /\ \A i \in 1..Len(h) + Len(report) : b[i] = IF i <= Len(h) THEN h[i] ELSE report[i - Len(h)]
    BY <1>2, <1>7, <1>8, ConcatProperties
  <2>2. SubSeq(b, Len(h) + 1, Len(b)) = report
    BY <1>2, <1>7, <1>8, JoinProperties
  <2>3. Len(h) + 1 = IdLen + 3 /\ Len(report) \in Nat
    BY <1>2, <1>5, <1>7
  <2>4. \A i \in 1..IdLen + 2 : i \in 1..Len(h) + Len(report) /\ i <= Len(h)
    BY <1>5, <1>7, <2>3
  <2>5. \A i \in 1..IdLen + 2 : b[i] = h[i]
    BY <2>1, <2>4
  <2>6. Len(b) = IdLen + 2 + Len(report)
    BY <1>7, <2>1
  <2>7. SubSeq(b, IdLen + 3, Len(b)) = report
    BY <2>2, <2>3
  <2> QED  BY <2>1, <2>5, <2>6, <2>7
<1>10. SubSeq(b, 1, IdLen) = head
  <2> DEFINE c == SubSeq(b, 1, IdLen)
  <2>1. IdLen \in 0..Len(b)
    BY <1>2, <1>5, <1>9
  <2>2. c \in Seq(Byte) /\ Len(c) = IdLen /\ \A i \in 1..IdLen : c[i] = b[i]
    BY <1>9, <2>1, CutProperties
  <2> HIDE DEF c
  <2>3. \A i \in 1..IdLen : c[i] = head[i]
    BY <1>5, <1>7, <1>9, <2>2
  <2>4. c = head
    BY <1>5, <2>2, <2>3, SeqEqual
  <2> QED  BY <2>4 DEF c
<1>11. /\ ~(Len(b) > MaxResponse) /\ Len(b) >= IdLen + 2
       /\ b[IdLen + 1] = r.verdict /\ b[IdLen + 2] = flag
  <2>1. Len(report) \in Nat /\ MaxReportLen \in Nat
    BY <1>2, CodecAssumption
  <2>2. IdLen + 1 \in 1..IdLen + 2 /\ IdLen + 2 \in 1..IdLen + 2
    BY <1>5
  <2> QED  BY <1>3, <1>5, <1>7, <1>9, <2>1, <2>2 DEF MaxResponse
<1>12. DecodeResponse(b) = [id |-> r.id, verdict |-> r.verdict, report |-> IF flag = 0 THEN Absent ELSE report]
  BY <1>1, <1>3, <1>5, <1>6, <1>9, <1>10, <1>11 DEF DecodeResponse
<1> QED  BY <1>1, <1>6, <1>12 DEF b

-----------------------------------------------------------------------------
(* The frames of a sequence of messages, one after the other.               *)

\* The bytes of the first n frames, for each n.
Wires(msgs) ==
  LET wire[n \in 0..Len(msgs)] == IF n = 0 THEN <<>> ELSE wire[n - 1] \o Frame(msgs[n]) IN wire
Wire(msgs) == Wires(msgs)[Len(msgs)]

LEMMA FrameType ==
  ASSUME NEW b \in Bytes
  PROVE  /\ Frame(b) \in Bytes /\ Len(Frame(b)) = LengthLen + Len(b)
         /\ Len(b) \in Nat /\ LengthLen \in Nat \ {0}
         /\ BigEndian(Len(b), LengthLen) \in Bytes
         /\ Len(BigEndian(Len(b), LengthLen)) = LengthLen
<1>1. Len(b) \in Nat /\ LengthLen \in Nat \ {0} /\ LengthLen \in Nat
  BY BytesEmpty, IpcAssumption
<1> DEFINE h == BigEndian(Len(b), LengthLen)
<1>2. h \in Bytes /\ Len(h) = LengthLen
  BY <1>1, NumberOfBytes DEF Bytes
<1> HIDE DEF h
<1>3. h \o b \in Bytes /\ Len(h \o b) = LengthLen + Len(b)
  BY <1>1, <1>2, BytesJoin
<1> QED  BY <1>1, <1>2, <1>3 DEF Frame, h

LEMMA WiresStep ==
  ASSUME NEW msgs \in Seq(Bytes)
  PROVE  /\ Wires(msgs) \in [0..Len(msgs) -> Bytes] /\ Wires(msgs)[0] = <<>>
         /\ \A k \in 1..Len(msgs) : Wires(msgs)[k] = Wires(msgs)[k - 1] \o Frame(msgs[k])
         /\ Len(msgs) \in Nat
<1> DEFINE D == Bytes
           l == Len(msgs)
           piece(k) == IF k + 1 \in 1..l THEN Frame(msgs[k + 1]) ELSE <<>>
           step == [p \in Nat \X D |-> p[2] \o piece(p[1])]
<1>1. l \in Nat /\ <<>> \in D /\ \A k \in 1..l : Frame(msgs[k]) \in D
  <2>1. \A k \in 1..l : msgs[k] \in Bytes
    OBVIOUS
  <2>2. l \in Nat /\ <<>> \in D
    BY BytesEmpty
  <2> QED  BY <2>1, <2>2, FrameType
<1>2. \A k \in Nat, d \in D : step[<<k, d>>] = d \o piece(k) /\ step[<<k, d>>] \in D
  <2>1. \A k \in Nat : piece(k) \in D
    BY <1>1
  <2>2. \A k \in Nat, d \in D : step[<<k, d>>] = d \o piece(k)
    OBVIOUS
  <2> HIDE DEF step, piece
  <2>3. \A k \in Nat, d \in D : d \o piece(k) \in D
    BY <2>1, BytesJoin
  <2> QED  BY <2>2, <2>3
<1> HIDE DEF step, D
<1>3. PICK f : IteratesFrom(f, D, <<>>, step)
  BY <1>1, <1>2, Iterates
<1>4. f \in [Nat -> D] /\ f[0] = <<>> /\ \A k \in Nat : f[k + 1] = step[<<k, f[k]>>]
  BY <1>3 DEF IteratesFrom
<1>5. \A k \in Nat : f[k + 1] = f[k] \o piece(k)
  <2> HIDE DEF piece
  <2> QED  BY <1>2, <1>4
<1>6. \A k \in 1..l : f[k] = f[k - 1] \o Frame(msgs[k])
  <2> TAKE k \in 1..l
  <2>1. k - 1 \in Nat /\ (k - 1) + 1 = k /\ piece(k - 1) = Frame(msgs[k])
    BY <1>1
  <2> HIDE DEF piece
  <2> QED  BY <1>5, <2>1
<1> DEFINE Def(g) == g = [n \in 0..Len(msgs) |-> IF n = 0 THEN <<>> ELSE g[n - 1] \o Frame(msgs[n])]
           h == [k \in 0..l |-> f[k]]
<1>7. Def(h)
  <2>1. \A k \in 0..l : h[k] = IF k = 0 THEN <<>> ELSE h[k - 1] \o Frame(msgs[k])
    <3> TAKE k \in 0..l
    <3>1. CASE k = 0
      BY <1>1, <1>4, <3>1
    <3>2. CASE k # 0
      <4>1. k \in 1..l /\ k - 1 \in 0..l
        BY <1>1, <3>2
      <4> QED  BY <1>6, <3>2, <4>1
    <3> QED  BY <3>1, <3>2
  <2> DEFINE e == [n \in 0..l |-> IF n = 0 THEN <<>> ELSE h[n - 1] \o Frame(msgs[n])]
  <2>2. h = e
    BY <2>1
  <2> QED  BY <2>2
<1>8. Wires(msgs) = CHOOSE g : Def(g)
  BY DEF Wires
<1>9. Def(Wires(msgs))
  <2> HIDE DEF Def
  <2> QED  BY <1>7, <1>8
<1> DEFINE w == Wires(msgs)
<1>10. w = [n \in 0..l |-> IF n = 0 THEN <<>> ELSE w[n - 1] \o Frame(msgs[n])]
  BY <1>9
<1> HIDE DEF w
<1>11. w[0] = <<>> /\ \A k \in 1..l : w[k] = w[k - 1] \o Frame(msgs[k])
  <2>1. 0 \in 0..l /\ \A k \in 1..l : k \in 0..l /\ k # 0
    BY <1>1
  <2>2. w[0] = <<>>
    BY <1>10, <2>1
  <2>3. \A k \in 1..l : w[k] = w[k - 1] \o Frame(msgs[k])
    BY <1>10, <2>1
  <2> QED  BY <2>2, <2>3
<1>12. \A k \in 0..l : w[k] \in D
  <2> DEFINE S == {k \in Nat : k <= l => w[k] \in D}
  <2>1. 0 \in S
    BY <1>1, <1>11
  <2>2. ASSUME NEW k \in Nat, k \in S PROVE k + 1 \in S
    <3> SUFFICES ASSUME k + 1 <= l PROVE w[k + 1] \in D
      OBVIOUS
    <3>1. w[k] \in D /\ k + 1 \in 1..l /\ (k + 1) - 1 = k
      BY <1>1, <2>2
    <3>2. w[k + 1] = w[k] \o Frame(msgs[k + 1]) /\ Frame(msgs[k + 1]) \in D
      BY <1>1, <1>11, <3>1
    <3> QED  BY <3>1, <3>2, BytesJoin DEF D
  <2> HIDE DEF S
  <2>3. \A k \in Nat : k \in S
    BY <2>1, <2>2, NatSet
  <2> QED  BY <1>1, <2>3 DEF S
<1>13. w \in [0..l -> D]
  BY <1>10, <1>12
<1> QED  BY <1>1, <1>11, <1>13 DEF w, D

(* Sequences that begin alike begin with the same frames.                   *)
LEMMA WiresAgree ==
  ASSUME NEW s \in Seq(Bytes), NEW t \in Seq(Bytes), NEW n \in Nat,
         n <= Len(s), n <= Len(t), \A i \in 1..n : s[i] = t[i]
  PROVE  Wires(s)[n] = Wires(t)[n]
<1> DEFINE v == Wires(s)
           w == Wires(t)
           S == {k \in Nat : k <= n => v[k] = w[k]}
<1>1. /\ v[0] = <<>> /\ \A k \in 1..Len(s) : v[k] = v[k - 1] \o Frame(s[k])
      /\ w[0] = <<>> /\ \A k \in 1..Len(t) : w[k] = w[k - 1] \o Frame(t[k])
      /\ Len(s) \in Nat /\ Len(t) \in Nat
  BY WiresStep
<1> HIDE DEF v, w
<1>2. 0 \in S
  BY <1>1
<1>3. ASSUME NEW k \in Nat, k \in S PROVE k + 1 \in S
  <2> SUFFICES ASSUME k + 1 <= n PROVE v[k + 1] = w[k + 1]
    OBVIOUS
  <2>1. v[k] = w[k] /\ k + 1 \in 1..n /\ k + 1 \in 1..Len(s) /\ k + 1 \in 1..Len(t) /\ (k + 1) - 1 = k
    BY <1>1, <1>3
  <2>2. v[k + 1] = v[k] \o Frame(s[k + 1]) /\ w[k + 1] = w[k] \o Frame(t[k + 1])
    BY <1>1, <2>1
  <2> QED  BY <2>1, <2>2
<1> HIDE DEF S
<1>4. \A k \in Nat : k \in S
  BY <1>2, <1>3, NatSet
<1> QED  BY <1>4 DEF S, v, w

LEMMA WireType ==
  ASSUME NEW s \in Seq(Bytes)
  PROVE  Wire(s) \in Bytes /\ (s = <<>> => Wire(s) = <<>>)
<1>1. Len(s) \in 0..Len(s) /\ (s = <<>> => Len(s) = 0)
  BY WiresStep
<1> QED  BY <1>1, WiresStep DEF Wire

LEMMA WireAppend ==
  ASSUME NEW s \in Seq(Bytes), NEW b \in Bytes
  PROVE  Wire(Append(s, b)) = Wire(s) \o Frame(b)
<1> DEFINE t == Append(s, b)
           n == Len(s)
<1>1. /\ t \in Seq(Bytes) /\ Len(t) = n + 1 /\ n \in Nat /\ t[n + 1] = b
      /\ \A i \in 1..n : t[i] = s[i]
  BY AppendProperties
<1> HIDE DEF t
<1>2. Wires(t)[n + 1] = Wires(t)[n] \o Frame(b)
  <2>1. n + 1 \in 1..Len(t) /\ (n + 1) - 1 = n
    BY <1>1
  <2> QED  BY <1>1, <2>1, WiresStep
<1>3. Wires(t)[n] = Wires(s)[n]
  <2>1. n <= Len(t) /\ n <= Len(s)
    BY <1>1
  <2> QED  BY <1>1, <2>1, WiresAgree
<1> QED  BY <1>1, <1>2, <1>3 DEF Wire, t

(* What a wire begins with: the frames before k, the frame of k, and more.  *)
LEMMA WireSplit ==
  ASSUME NEW s \in Seq(Bytes), NEW k \in Nat, k < Len(s)
  PROVE  \E r \in Bytes : Wire(s) = Wires(s)[k] \o (Frame(s[k + 1]) \o r)
<1> DEFINE w == Wires(s)
           l == Len(s)
           Goal(m) == \E r \in Bytes : w[m] = w[k] \o (Frame(s[k + 1]) \o r)
           S == {m \in Nat : k < m /\ m <= l => Goal(m)}
<1>1. /\ l \in Nat /\ \A m \in 0..l : w[m] \in Bytes
      /\ \A m \in 1..l : w[m] = w[m - 1] \o Frame(s[m])
      /\ \A m \in 1..l : Frame(s[m]) \in Bytes
  <2>1. \A m \in 1..l : s[m] \in Bytes
    OBVIOUS
  <2> QED  BY <2>1, WiresStep, FrameType
<1> HIDE DEF w
<1>2. 0 \in S
  <2>1. ~(k < 0)
    OBVIOUS
  <2> QED  BY <2>1, Zenon
<1>3. ASSUME NEW m \in Nat, m \in S PROVE m + 1 \in S
  <2> SUFFICES ASSUME k < m + 1, m + 1 <= l
               PROVE  Goal(m + 1)
    <3> HIDE DEF Goal
    <3> QED  OBVIOUS
  <2>1. w[m + 1] = w[m] \o Frame(s[m + 1]) /\ Frame(s[m + 1]) \in Bytes
    <3>1. m + 1 \in 1..l /\ (m + 1) - 1 = m
      BY <1>1
    <3> QED  BY <1>1, <3>1
  <2>2. w[k] \in Bytes /\ Frame(s[k + 1]) \in Bytes
    <3>1. k \in 0..l /\ k + 1 \in 1..l
      BY <1>1
    <3> QED  BY <1>1, <3>1
  <2>3. CASE m = k
    <3>1. Frame(s[k + 1]) \o <<>> = Frame(s[k + 1]) /\ <<>> \in Bytes
      BY <2>2, BytesEmpty
    <3> QED  BY <2>1, <2>3, <3>1
  <2>4. CASE m # k
    <3>1. k < m /\ m <= l
      BY <1>1, <2>4
    <3>2. PICK r \in Bytes : w[m] = w[k] \o (Frame(s[k + 1]) \o r)
      BY <1>3, <3>1
    <3> DEFINE f == Frame(s[k + 1])
               e == Frame(s[m + 1])
    <3> HIDE DEF f, e
    <3>3. f \in Bytes /\ e \in Bytes /\ f \o r \in Bytes /\ r \o e \in Bytes
      BY <2>1, <2>2, BytesJoin DEF f, e
    <3>4. (w[k] \o (f \o r)) \o e = w[k] \o ((f \o r) \o e)
      <4>1. Associated(w[k], f \o r, e)
        BY <2>2, <3>3, BytesAssociate
      <4> QED  BY <4>1 DEF Associated
    <3>5. (f \o r) \o e = f \o (r \o e)
      <4>1. Associated(f, r, e)
        BY <3>3, BytesAssociate
      <4> QED  BY <4>1 DEF Associated
    <3>6. w[m + 1] = w[k] \o (f \o (r \o e))
      BY <2>1, <3>2, <3>4, <3>5 DEF f, e
    <3> QED  BY <3>3, <3>6 DEF f
  <2> QED  BY <2>3, <2>4
<1> HIDE DEF S
<1>4. \A m \in Nat : m \in S
  BY <1>2, <1>3, NatSet
<1>5. k < l /\ l <= l /\ l \in S
  BY <1>1, <1>4
<1> QED  BY <1>5 DEF S, w, Wire

Framed(b) == InBytes(Len(b), LengthLen)

(* A frame says where it ends: two that begin the same bytes are the same.  *)
LEMMA FrameIsPrefixFree ==
  ASSUME NEW a \in Bytes, NEW b \in Bytes, Framed(a), Framed(b),
         NEW x \in Bytes, NEW y \in Bytes, Frame(a) \o x = Frame(b) \o y
  PROVE  a = b
<1> DEFINE g == BigEndian(Len(a), LengthLen)
           h == BigEndian(Len(b), LengthLen)
<1>1. /\ g \in Bytes /\ Len(g) = LengthLen /\ Len(a) \in Nat
      /\ h \in Bytes /\ Len(h) = LengthLen /\ Len(b) \in Nat /\ LengthLen \in Nat
  BY FrameType
<1>2. FromBigEndian(g) = Len(a) /\ FromBigEndian(h) = Len(b)
  BY <1>1, NumberOfBytes DEF Framed
<1>3. (g \o a) \o x = (h \o b) \o y
  BY DEF Frame
<1> HIDE DEF g, h
<1>4. a \o x \in Bytes /\ b \o y \in Bytes
  BY BytesJoin
<1>5. (g \o a) \o x = g \o (a \o x) /\ (h \o b) \o y = h \o (b \o y)
  <2>1. (g \o a) \o x = g \o (a \o x)
    <3>1. Associated(g, a, x)
      BY <1>1, BytesAssociate
    <3> QED  BY <3>1 DEF Associated
  <2>2. (h \o b) \o y = h \o (b \o y)
    <3>1. Associated(h, b, y)
      BY <1>1, BytesAssociate
    <3> QED  BY <3>1 DEF Associated
  <2> QED  BY <2>1, <2>2
<1>6. g \o (a \o x) = h \o (b \o y)
  BY <1>3, <1>5
<1>7. g = h /\ a \o x = b \o y
  <2> DEFINE u == a \o x
             v == b \o y
  <2> HIDE DEF u, v
  <2>1. u \in Bytes /\ v \in Bytes /\ g \o u = h \o v
    BY <1>4, <1>6 DEF u, v
  <2>2. SubSeq(g \o u, 1, LengthLen) = g /\ SubSeq(h \o v, 1, LengthLen) = h
    BY <1>1, <2>1, BytesJoin
  <2>3. g = h
    BY <2>1, <2>2
  <2>4. u = v
    BY <1>1, <2>1, <2>3, BytesCancel
  <2> QED  BY <2>3, <2>4 DEF u, v
<1>8. Len(a) = Len(b)
  BY <1>2, <1>7
<1>9. SubSeq(a \o x, 1, Len(a)) = a /\ SubSeq(b \o y, 1, Len(b)) = b
  BY BytesJoin
<1> QED  BY <1>7, <1>8, <1>9

(* read_frame has one reading (framing.rs 9-58): messages whose frames      *)
(* begin a wire are the first of the messages it was made of.               *)
THEOREM WireIsDecodable ==
  ASSUME NEW g \in Seq(Bytes), NEW s \in Seq(Bytes), NEW r \in Bytes,
         \A i \in 1..Len(g) : Framed(g[i]), \A i \in 1..Len(s) : Framed(s[i]),
         Wire(g) \o r = Wire(s)
  PROVE  Len(g) <= Len(s) /\ \A i \in 1..Len(g) : g[i] = s[i]
<1> DEFINE S == {k \in Nat : k <= Len(g) => k <= Len(s) /\ \A i \in 1..k : g[i] = s[i]}
<1>1. Len(g) \in Nat /\ Len(s) \in Nat
  OBVIOUS
<1>2. 0 \in S
  BY <1>1
<1>3. ASSUME NEW k \in Nat, k \in S PROVE k + 1 \in S
  <2> SUFFICES ASSUME k + 1 <= Len(g) PROVE k + 1 <= Len(s) /\ \A i \in 1..k + 1 : g[i] = s[i]
    OBVIOUS
  <2>1. k < Len(g) /\ k <= Len(g) /\ k <= Len(s) /\ \A i \in 1..k : g[i] = s[i]
    BY <1>1, <1>3
  <2> DEFINE w == Wires(g)[k]
             f == Frame(g[k + 1])
  <2>2. g[k + 1] \in Bytes /\ Framed(g[k + 1])
    <3>1. k + 1 \in 1..Len(g)
      BY <1>1
    <3> QED  BY <3>1
  <2>3. w = Wires(s)[k] /\ w \in Bytes
    <3>1. k \in 0..Len(g)
      BY <1>1, <2>1
    <3> QED  BY <2>1, <3>1, WiresAgree, WiresStep
  <2>4. f \in Bytes /\ Len(f) = LengthLen + Len(g[k + 1]) /\ Len(g[k + 1]) \in Nat /\ LengthLen \in Nat \ {0}
    BY <2>2, FrameType
  <2>5. PICK x \in Bytes : Wire(g) = w \o (f \o x)
    BY <2>1, WireSplit
  <2> HIDE DEF w, f
  <2>6. f \o x \in Bytes /\ x \o r \in Bytes /\ f \o (x \o r) \in Bytes
    BY <2>4, <2>5, BytesJoin
  <2>7. Wire(s) = w \o (f \o (x \o r))
    <3>1. Wire(s) = (w \o (f \o x)) \o r
      BY <2>5
    <3>2. (w \o (f \o x)) \o r = w \o ((f \o x) \o r)
      <4>1. Associated(w, f \o x, r)
        BY <2>3, <2>5, <2>6, BytesAssociate
      <4> QED  BY <4>1 DEF Associated
    <3>3. (f \o x) \o r = f \o (x \o r)
      <4>1. Associated(f, x, r)
        BY <2>4, <2>5, BytesAssociate
      <4> QED  BY <4>1 DEF Associated
    <3> QED  BY <3>1, <3>2, <3>3
  <2>8. k < Len(s)
    <3> SUFFICES ASSUME k = Len(s) PROVE FALSE
      BY <1>1, <2>1
    <3> DEFINE u == x \o r
    <3> HIDE DEF u
    <3>1. w \o (f \o u) = w /\ u \in Bytes /\ f \o u \in Bytes
      BY <2>3, <2>6, <2>7 DEF Wire, u
    <3>2. Len(w \o (f \o u)) = Len(w) + (Len(f) + Len(u)) /\ Len(w) \in Nat /\ Len(u) \in Nat
      <4>1. Len(f \o u) = Len(f) + Len(u)
        BY <2>4, <3>1, BytesJoin
      <4>2. Len(w \o (f \o u)) = Len(w) + Len(f \o u)
        BY <2>3, <3>1, BytesJoin
      <4>3. Len(w) \in Nat /\ Len(u) \in Nat
        BY <2>3, <3>1, BytesEmpty
      <4> QED  BY <4>1, <4>2, <4>3
    <3> QED  BY <2>4, <3>1, <3>2
  <2>9. PICK y \in Bytes : Wire(s) = w \o (Frame(s[k + 1]) \o y)
    BY <2>3, <2>8, WireSplit
  <2>10. s[k + 1] \in Bytes /\ Framed(s[k + 1])
    <3>1. k + 1 \in 1..Len(s)
      BY <1>1, <2>8
    <3> QED  BY <3>1
  <2>11. Frame(s[k + 1]) \o y \in Bytes
    BY <2>9, <2>10, FrameType, BytesJoin
  <2>12. f \o (x \o r) = Frame(s[k + 1]) \o y
    <3> DEFINE t == Frame(s[k + 1]) \o y
               u == f \o (x \o r)
    <3>1. t \in Bytes /\ u \in Bytes /\ w \o u = w \o t
      BY <2>6, <2>7, <2>9, <2>11
    <3> HIDE DEF t, u
    <3>3. u = t
      BY <2>3, <3>1, BytesCancel
    <3> QED  BY <3>3 DEF t, u
  <2>13. g[k + 1] = s[k + 1]
    BY <2>2, <2>6, <2>9, <2>10, <2>12, FrameIsPrefixFree DEF f
  <2>14. \A i \in 1..k + 1 : i \in 1..k \/ i = k + 1
    OBVIOUS
  <2> QED  BY <1>1, <2>1, <2>8, <2>13, <2>14
<1> HIDE DEF S
<1>4. \A k \in Nat : k \in S
  BY <1>2, <1>3, NatSet
<1> QED  BY <1>1, <1>4 DEF S

-----------------------------------------------------------------------------
(* The inductive invariant.                                                 *)

\* Every message has a length that its prefix tells.
SizeInv ==
  /\ \A i \in DOMAIN items : Framed(items[i].bytes)
  /\ \A i \in DOMAIN got : Framed(got[i])

\* Where the two ends are: only the last item can be in the writer's hands, and
\* a reader between two frames holds no byte.
PhaseInv ==
  /\ Len(items) \in {flushed, flushed + 1}
  /\ writer = "idle" => Len(items) = flushed
  /\ writer = "writing" => Len(items) = flushed + 1
  /\ writer # "writing" => outbox = <<>>
  /\ reader \in {"first", "clean"} => prefix = <<>> /\ body = <<>>
  /\ reader = "length" => body = <<>>
  /\ reader = "body" => Len(prefix) = LengthLen /\ Len(body) <= Length
  /\ reader = "clean" => writer = "closed" /\ stream = <<>>

Flushed == SubSeq(Sent, 1, flushed)
InHand == IF Len(items) = flushed THEN <<>> ELSE Frame(items[Len(items)].bytes)

\* What left the writer is what the reader has returned, what it holds, and what
\* is on the way: the frames that were flushed, and the part of the one in hand
\* that is done.  The rest is in the outbox, or lost.
Splits(h) == {<<SubSeq(h, 1, k), SubSeq(h, k + 1, Len(h))>> : k \in 0..Len(h)}
Left(done, rest) ==
  /\ done \in Bytes /\ rest \in Bytes /\ done \o rest = InHand
  /\ (Wire(got) \o (prefix \o body)) \o stream = Wire(Flushed) \o done
  /\ writer # "closed" => outbox = rest
WireInv == \E p \in Splits(InHand) : Left(p[1], p[2])

IInv == TypeOK /\ SizeInv /\ PhaseInv /\ WireInv

LEMMA SplitsOf ==
  ASSUME NEW d \in Bytes, NEW r \in Bytes
  PROVE  <<d, r>> \in Splits(d \o r)
<1>1. Len(d \o r) = Len(d) + Len(r) /\ Len(d) \in Nat /\ Len(r) \in Nat
  BY BytesJoin, BytesEmpty
<1>2. SubSeq(d \o r, 1, Len(d)) = d /\ SubSeq(d \o r, Len(d) + 1, Len(d \o r)) = r
  BY JoinProperties DEF Bytes
<1>3. Len(d) \in 0..Len(d \o r)
  BY <1>1
<1> QED  BY <1>2, <1>3 DEF Splits

(* The part that is done determines the invariant.                          *)
LEMMA WireInvOf ==
  /\ WireInv <=> \E d, r : Left(d, r)
  /\ WireInv' <=> \E d, r : Left(d, r)'
<1>1. ASSUME NEW d, NEW r, Left(d, r) PROVE WireInv
  <2>1. <<d, r>> \in Splits(InHand)
    BY <1>1, SplitsOf DEF Left
  <2>2. <<d, r>>[1] = d /\ <<d, r>>[2] = r
    OBVIOUS
  <2> QED  BY <1>1, <2>1, <2>2 DEF WireInv
<1>2. ASSUME NEW d, NEW r, Left(d, r)' PROVE WireInv'
  <2>1. <<d, r>> \in Splits(InHand')
    BY <1>2, SplitsOf DEF Left
  <2>2. <<d, r>>[1] = d /\ <<d, r>>[2] = r
    OBVIOUS
  <2> QED  BY <1>2, <2>1, <2>2 DEF WireInv
<1>3. WireInv => \E d, r : Left(d, r)
  BY DEF WireInv
<1>4. WireInv' => \E d, r : Left(d, r)'
  BY DEF WireInv
<1> QED  BY <1>1, <1>2, <1>3, <1>4

(* What the type invariant says of the items and of the bytes.              *)
LEMMA Types ==
  ASSUME TypeOK
  PROVE  /\ Len(items) \in Nat /\ DOMAIN items = 1..Len(items) /\ flushed \in 0..Len(items)
         /\ \A i \in 1..Len(items) : items[i] \in Item /\ items[i].bytes \in Bytes
         /\ Sent \in Seq(Bytes) /\ Len(Sent) = Len(items)
         /\ \A i \in 1..Len(items) : Sent[i] = items[i].bytes
         /\ outbox \in Bytes /\ stream \in Bytes /\ prefix \in Bytes /\ body \in Bytes
         /\ got \in Seq(Bytes) /\ DOMAIN got = 1..Len(got) /\ Len(got) \in Nat
<1>1. Len(items) \in Nat /\ DOMAIN items = 1..Len(items) /\ flushed \in 0..Len(items)
  BY DEF TypeOK
<1>2. \A x \in Item : x.bytes \in Bytes
  BY IpcAssumption DEF Bytes
<1>3. \A i \in 1..Len(items) : items[i] \in Item
  BY DEF TypeOK
<1>4. \A i \in 1..Len(items) : items[i].bytes \in Bytes
  BY <1>2, <1>3
<1>5. Sent = [i \in 1..Len(items) |-> items[i].bytes]
  BY <1>1 DEF Sent
<1>6. Sent \in [1..Len(items) -> Bytes]
  BY <1>4, <1>5
<1>7. Sent \in Seq(Bytes) /\ Len(Sent) = Len(items)
  BY <1>1, <1>6
<1>8. \A i \in 1..Len(items) : Sent[i] = items[i].bytes
  BY <1>5
<1>9. /\ outbox \in Bytes /\ stream \in Bytes /\ prefix \in Bytes /\ body \in Bytes
      /\ got \in Seq(Bytes) /\ DOMAIN got = 1..Len(got) /\ Len(got) \in Nat
  BY DEF TypeOK, Bytes
<1> QED  BY <1>1, <1>3, <1>4, <1>7, <1>8, <1>9

(* The flushed items are those before the one in hand.                      *)
LEMMA FlushedType ==
  ASSUME TypeOK, PhaseInv
  PROVE  /\ Flushed \in Seq(Bytes) /\ Len(Flushed) = flushed /\ flushed \in Nat
         /\ \A i \in 1..flushed : Flushed[i] = items[i].bytes
         /\ InHand \in Bytes
         /\ Len(items) = flushed => Flushed = Sent /\ InHand = <<>>
         /\ Len(items) = flushed + 1 =>
              /\ items[Len(items)].bytes \in Bytes
              /\ Sent = Append(Flushed, items[Len(items)].bytes)
              /\ InHand = Frame(items[Len(items)].bytes)
<1> DEFINE n == Len(items)
<1>1. /\ n \in Nat /\ flushed \in Nat /\ flushed \in 0..Len(Sent) /\ Sent \in Seq(Bytes) /\ Len(Sent) = n
      /\ \A i \in 1..n : Sent[i] = items[i].bytes /\ items[i].bytes \in Bytes
  BY Types
<1>2. Flushed \in Seq(Bytes) /\ Len(Flushed) = flushed /\ \A i \in 1..flushed : Flushed[i] = Sent[i]
  BY <1>1, CutProperties DEF Flushed
<1>3. \A i \in 1..flushed : Flushed[i] = items[i].bytes
  BY <1>1, <1>2
<1>4. ASSUME n = flushed PROVE Flushed = Sent /\ InHand = <<>>
  BY <1>1, <1>4, SubSeqFull DEF Flushed, InHand
<1>5. ASSUME n = flushed + 1
      PROVE  /\ items[n].bytes \in Bytes /\ Sent = Append(Flushed, items[n].bytes)
             /\ InHand = Frame(items[n].bytes)
  <2>1. n \in 1..n /\ n # flushed
    BY <1>1, <1>5
  <2>2. items[n].bytes \in Bytes
    BY <1>1, <2>1
  <2> DEFINE b == items[n].bytes
             t == Append(Flushed, b)
  <2>3. /\ t \in Seq(Bytes) /\ Len(t) = flushed + 1 /\ t[flushed + 1] = b
        /\ \A i \in 1..flushed : t[i] = Flushed[i]
    BY <1>2, <2>2, AppendProperties
  <2> HIDE DEF t
  <2>4. \A i \in 1..Len(Sent) : Sent[i] = t[i]
    <3> TAKE i \in 1..Len(Sent)
    <3>1. i \in 1..flushed \/ i = n
      BY <1>1, <1>5
    <3>2. i \in 1..n
      BY <1>1
    <3> QED  BY <1>1, <1>3, <1>5, <2>3, <3>1, <3>2
  <2>5. Sent = t
    BY <1>1, <1>5, <2>3, <2>4, SeqEqual
  <2> QED  BY <2>1, <2>2, <2>5 DEF t, InHand
<1>6. InHand \in Bytes
  <2>1. n = flushed \/ n = flushed + 1
    BY DEF PhaseInv
  <2> QED  BY <1>4, <1>5, <2>1, BytesEmpty, FrameType
<1> QED  BY <1>1, <1>2, <1>3, <1>4, <1>5, <1>6

(* What the reader returned is what was sent, from the first on.            *)
LEMMA ReturnedIsSent ==
  ASSUME IInv
  PROVE  Len(got) <= Len(items) /\ \A i \in 1..Len(got) : got[i] = items[i].bytes
<1>1. PICK d, r : Left(d, r)
  BY WireInvOf DEF IInv
<1>2. /\ Flushed \in Seq(Bytes) /\ Sent \in Seq(Bytes) /\ Len(Sent) = Len(items) /\ got \in Seq(Bytes)
      /\ prefix \in Bytes /\ body \in Bytes /\ stream \in Bytes
      /\ \A i \in 1..Len(items) : Sent[i] = items[i].bytes
      /\ DOMAIN items = 1..Len(items) /\ DOMAIN got = 1..Len(got)
  BY Types, FlushedType DEF IInv
<1>3. Wire(Flushed) \in Bytes /\ Wire(got) \in Bytes
  BY <1>2, WireType
<1>4. d \in Bytes /\ r \in Bytes /\ d \o r = InHand
  BY <1>1 DEF Left
<1>5. Wire(Sent) = (Wire(Flushed) \o d) \o r
  <2>1. CASE Len(items) = flushed
    <3>1. Flushed = Sent /\ d \o r = <<>>
      BY <1>4, <2>1, FlushedType DEF IInv
    <3>2. (Wire(Flushed) \o d) \o r = Wire(Flushed) \o (d \o r)
      <4>1. Associated(Wire(Flushed), d, r)
        BY <1>3, <1>4, BytesAssociate
      <4> QED  BY <4>1 DEF Associated
    <3>3. Wire(Flushed) \o <<>> = Wire(Flushed)
      BY <1>3, BytesEmpty
    <3> QED  BY <3>1, <3>2, <3>3
  <2>2. CASE Len(items) = flushed + 1
    <3> DEFINE b == items[Len(items)].bytes
    <3>1. b \in Bytes /\ Sent = Append(Flushed, b) /\ d \o r = Frame(b)
      BY <1>4, <2>2, FlushedType DEF IInv
    <3>2. Wire(Sent) = Wire(Flushed) \o Frame(b)
      BY <1>2, <3>1, WireAppend
    <3>3. (Wire(Flushed) \o d) \o r = Wire(Flushed) \o (d \o r)
      <4>1. Associated(Wire(Flushed), d, r)
        BY <1>3, <1>4, BytesAssociate
      <4> QED  BY <4>1 DEF Associated
    <3> QED  BY <3>1, <3>2, <3>3
  <2> QED  BY <2>1, <2>2 DEF IInv, PhaseInv
<1> DEFINE w == Wire(got)
           h == prefix \o body
<1>6. h \in Bytes
  BY <1>2, BytesJoin
<1>7. (w \o h) \o stream = Wire(Flushed) \o d
  BY <1>1 DEF Left
<1> HIDE DEF w, h
<1>8. Wire(Sent) = w \o (h \o (stream \o r))
  <2>1. w \in Bytes
    BY <1>3 DEF w
  <2>2. w \o h \in Bytes /\ stream \o r \in Bytes
    BY <1>2, <1>4, <1>6, <2>1, BytesJoin
  <2>3. ((w \o h) \o stream) \o r = (w \o h) \o (stream \o r)
    <3> DEFINE v == w \o h
    <3>1. v \in Bytes
      BY <2>2
    <3> HIDE DEF v
    <3>2. (v \o stream) \o r = v \o (stream \o r)
      <4>1. Associated(v, stream, r)
        BY <1>2, <1>4, <3>1, BytesAssociate
      <4> QED  BY <4>1 DEF Associated
    <3> QED  BY <3>2 DEF v
  <2>4. (w \o h) \o (stream \o r) = w \o (h \o (stream \o r))
    <3>1. Associated(w, h, stream \o r)
      BY <1>6, <2>1, <2>2, BytesAssociate
    <3> QED  BY <3>1 DEF Associated
  <2> QED  BY <1>5, <1>7, <2>3, <2>4
<1>9. h \o (stream \o r) \in Bytes
  BY <1>2, <1>4, <1>6, BytesJoin
<1>10. /\ \A i \in 1..Len(got) : Framed(got[i])
       /\ \A i \in 1..Len(Sent) : Framed(Sent[i])
  BY <1>2 DEF IInv, SizeInv
<1> DEFINE t == h \o (stream \o r)
<1>11. t \in Bytes /\ Wire(got) \o t = Wire(Sent)
  BY <1>8, <1>9 DEF w
<1> HIDE DEF t
<1>12. Len(got) <= Len(Sent) /\ \A i \in 1..Len(got) : got[i] = Sent[i]
  BY <1>2, <1>10, <1>11, WireIsDecodable
<1>13. Len(got) \in Nat /\ Len(items) \in Nat
  BY Types DEF IInv
<1> QED  BY <1>2, <1>12, <1>13

(* Where no byte is on the way and the reader holds none, it has returned    *)
(* what was flushed.                                                        *)
LEMMA NothingOnTheWay ==
  ASSUME IInv, stream = <<>>, prefix = <<>>, body = <<>>
  PROVE  flushed <= Len(got) /\ Len(items) <= Len(got) + 1
<1>1. PICK d, r : Left(d, r)
  BY WireInvOf DEF IInv
<1>2. /\ Flushed \in Seq(Bytes) /\ Len(Flushed) = flushed /\ got \in Seq(Bytes) /\ flushed \in Nat
      /\ \A i \in 1..flushed : Flushed[i] = items[i].bytes
      /\ DOMAIN items = 1..Len(items) /\ DOMAIN got = 1..Len(got) /\ flushed \in 0..Len(items)
      /\ Len(got) \in Nat /\ Len(items) \in Nat
  BY Types, FlushedType DEF IInv
<1>3. Wire(got) \in Bytes /\ d \in Bytes
  BY <1>1, <1>2, WireType DEF Left
<1>4. Wire(Flushed) \o d = Wire(got)
  <2>1. (Wire(got) \o (<<>> \o <<>>)) \o <<>> = Wire(Flushed) \o d
    BY <1>1 DEF Left
  <2>2. <<>> \o <<>> = <<>>
    BY BytesEmpty
  <2>3. Wire(got) \o <<>> = Wire(got)
    BY <1>3, BytesEmpty
  <2> QED  BY <2>1, <2>2, <2>3
<1>5. \A i \in 1..Len(Flushed) : Framed(Flushed[i])
  <2> TAKE i \in 1..Len(Flushed)
  <2>1. i \in DOMAIN items /\ Flushed[i] = items[i].bytes
    BY <1>2
  <2> QED  BY <2>1 DEF IInv, SizeInv
<1>6. \A i \in 1..Len(got) : Framed(got[i])
  BY <1>2 DEF IInv, SizeInv
<1>7. Len(Flushed) <= Len(got)
  BY <1>2, <1>3, <1>4, <1>5, <1>6, WireIsDecodable
<1>8. Len(items) = flushed \/ Len(items) = flushed + 1
  BY DEF IInv, PhaseInv
<1>9. flushed <= Len(got)
  <2>1. Len(Flushed) = flushed
    BY <1>2
  <2> QED  BY <1>7, <2>1, Zenon
<1>10. Len(items) <= Len(got) + 1
  <2> DEFINE n == Len(items)
             g == Len(got)
  <2>1. n \in Nat /\ g \in Nat /\ flushed \in Nat /\ flushed <= g /\ (n = flushed \/ n = flushed + 1)
    BY <1>2, <1>8, <1>9
  <2> HIDE DEF n, g
  <2>2. n <= g + 1
    BY <2>1
  <2> QED  BY <2>2 DEF n, g
<1> QED  BY <1>9, <1>10

-----------------------------------------------------------------------------
(* The invariant is kept, action by action.                                 *)

(* Bytes go from what is on the way to what is held.                        *)
Moved(w, h, a, b) == (w \o h) \o (a \o b) = (w \o (h \o a)) \o b

LEMMA BytesMove ==
  ASSUME NEW w \in Bytes, NEW h \in Bytes, NEW a \in Bytes, NEW b \in Bytes
  PROVE  Moved(w, h, a, b)
<1> DEFINE v == w \o h
           u == h \o a
<1>1. v \in Bytes /\ u \in Bytes
  BY BytesJoin
<1>2. w \o u = v \o a
  <2>1. Associated(w, h, a)
    BY BytesAssociate
  <2> QED  BY <2>1 DEF Associated
<1> HIDE DEF v, u
<1>3. v \o (a \o b) = (v \o a) \o b
  <2>1. Associated(v, a, b)
    BY <1>1, BytesAssociate
  <2> QED  BY <2>1 DEF Associated
<1> QED  BY <1>2, <1>3 DEF u, v, Moved

(* Taking k bytes off the front.                                            *)
LEMMA TakeFront ==
  ASSUME NEW s \in Bytes, NEW k \in 1..Len(s)
  PROVE  /\ SubSeq(s, 1, k) \in Bytes /\ Len(SubSeq(s, 1, k)) = k
         /\ SubSeq(s, k + 1, Len(s)) \in Bytes /\ Len(SubSeq(s, k + 1, Len(s))) = Len(s) - k
         /\ SubSeq(s, 1, k) \o SubSeq(s, k + 1, Len(s)) = s /\ Len(s) \in Nat
<1>1. k \in 0..Len(s) /\ Len(s) \in Nat
  BY BytesEmpty
<1> QED  BY <1>1, CutProperties DEF Bytes

LEMMA InitInv == Init => IInv
<1> SUFFICES ASSUME Init PROVE IInv
  OBVIOUS
<1>1. TypeOK
  BY IpcAssumption DEF Init, TypeOK
<1>2. SizeInv /\ PhaseInv
  <2>1. DOMAIN items = 1..0 /\ DOMAIN got = 1..0 /\ Len(items) = 0
    BY DEF Init
  <2> QED  BY <2>1 DEF Init, SizeInv, PhaseInv
<1>3. Left(<<>>, <<>>)
  <2>1. Flushed = <<>> /\ InHand = <<>>
    <3>1. Len(items) = flushed /\ flushed = 0
      BY DEF Init
    <3>2. Flushed = Sent /\ InHand = <<>>
      BY <1>1, <1>2, <3>1, FlushedType
    <3>3. Sent \in Seq(Bytes) /\ Len(Sent) = 0
      BY <1>1, <3>1, Types
    <3> QED  BY <3>2, <3>3
  <2>2. Wire(got) = <<>> /\ Wire(Flushed) = <<>>
    <3>1. <<>> \in Seq(Bytes)
      OBVIOUS
    <3> QED  BY <2>1, <3>1, WireType DEF Init
  <2>3. <<>> \o <<>> = <<>> /\ <<>> \in Bytes
    BY BytesEmpty
  <2> QED  BY <2>1, <2>2, <2>3 DEF Init, Left
<1>4. WireInv
  BY <1>3, WireInvOf
<1> QED  BY <1>1, <1>2, <1>4 DEF IInv

LEMMA WriteKeeps ==
  ASSUME IInv, NEW x \in Item, Write(x)
  PROVE  IInv'
<1> DEFINE n == Len(items)
<1>1. /\ n \in Nat /\ DOMAIN items = 1..n /\ flushed \in 0..n
      /\ Sent \in Seq(Bytes) /\ Len(Sent) = n /\ \A i \in 1..n : Sent[i] = items[i].bytes
      /\ DOMAIN got = 1..Len(got)
  BY Types DEF IInv
<1>2. x.bytes \in Bytes /\ Framed(x.bytes) /\ Frame(x.bytes) \in Bytes
  BY IpcAssumption, FrameType DEF Bytes, Write, Fits, Framed
<1>3. /\ items' \in Seq(Item) /\ Len(items') = n + 1 /\ items'[n + 1] = x
      /\ DOMAIN items' = 1..n + 1 /\ \A i \in 1..n : items'[i] = items[i]
  <2>1. items \in Seq(Item) /\ items' = Append(items, x)
    BY DEF IInv, TypeOK, Write
  <2>2. /\ items' \in Seq(Item) /\ Len(items') = n + 1 /\ items'[n + 1] = x
        /\ \A i \in 1..n : items'[i] = items[i]
    BY <2>1, AppendProperties
  <2> QED  BY <1>1, <2>2, LenProperties
<1>4. /\ n = flushed /\ flushed' = flushed /\ writer = "idle" /\ writer' = "writing"
      /\ outbox' = Frame(x.bytes) /\ UNCHANGED <<stream, readerVars>>
  BY DEF IInv, PhaseInv, Write
<1>5. TypeOK'
  <2>1. flushed' \in 0..Len(items')
    BY <1>1, <1>3, <1>4
  <2>2. outbox' \in Seq(Byte)
    BY <1>2, <1>4 DEF Bytes
  <2> QED  BY <1>3, <1>4, <2>1, <2>2 DEF IInv, TypeOK, readerVars
<1>6. SizeInv'
  <2>1. \A i \in 1..n : Framed(items[i].bytes)
    BY <1>1 DEF IInv, SizeInv
  <2>2. \A i \in 1..n + 1 : Framed(items'[i].bytes)
    <3> TAKE i \in 1..n + 1
    <3>1. i \in 1..n \/ i = n + 1
      BY <1>1
    <3> QED  BY <1>2, <1>3, <2>1, <3>1
  <2> QED  BY <1>3, <1>4, <2>2 DEF IInv, SizeInv, Framed, readerVars
<1>7. PhaseInv'
  <2>1. Len(items') = flushed' + 1
    BY <1>3, <1>4
  <2>2. UNCHANGED <<stream, reader, prefix, body, Length>>
    BY <1>4 DEF Length, readerVars
  <2>3. Len(items') \in {flushed', flushed' + 1}
    BY <2>1
  <2> HIDE DEF n
  <2> QED  BY <1>4, <2>1, <2>2, <2>3 DEF IInv, PhaseInv
<1>8. WireInv'
  <2>1. PICK d, r : Left(d, r)
    BY WireInvOf DEF IInv
  <2>2. d = <<>> /\ Flushed = Sent
    <3>1. Flushed = Sent /\ d \o r = <<>> /\ d \in Bytes /\ r \in Bytes
      BY <1>4, <2>1, FlushedType DEF Left, IInv
    <3>2. Len(d) + Len(r) = 0 /\ Len(d) \in Nat /\ Len(r) \in Nat
      <4>1. Len(d \o r) = Len(d) + Len(r)
        BY <3>1, BytesJoin
      <4>2. Len(<<>>) = 0
        OBVIOUS
      <4> QED  BY <3>1, <4>1, <4>2, BytesEmpty
    <3>3. Len(d) = 0
      BY <3>2
    <3> QED  BY <3>1, <3>3 DEF Bytes
  <2>3. Flushed' = Flushed
    <3>1. /\ Sent' \in Seq(Bytes) /\ Len(Sent') = n + 1 /\ flushed' \in 0..Len(Sent')
          /\ \A i \in 1..n + 1 : Sent'[i] = items'[i].bytes
      <4>1. Sent' = [i \in 1..n + 1 |-> items'[i].bytes]
        BY <1>3 DEF Sent
      <4>2. \A i \in 1..n + 1 : items'[i] \in Item
        BY <1>3
      <4>3. \A i \in 1..n + 1 : items'[i].bytes \in Bytes
        BY <4>2, IpcAssumption DEF Bytes
      <4>4. Sent' \in [1..n + 1 -> Bytes]
        BY <4>1, <4>3
      <4>5. Sent' \in Seq(Bytes) /\ Len(Sent') = n + 1
        BY <1>1, <4>4
      <4> QED  BY <1>1, <1>4, <4>1, <4>5
    <3> DEFINE t == Flushed'
    <3>2. t \in Seq(Bytes) /\ Len(t) = n /\ \A i \in 1..n : t[i] = Sent'[i]
      BY <1>4, <3>1, CutProperties DEF Flushed
    <3>3. \A i \in 1..n : t[i] = Sent[i]
      BY <1>1, <1>3, <3>1, <3>2
    <3> HIDE DEF t
    <3>4. t = Sent
      BY <1>1, <3>2, <3>3, SeqEqual
    <3> QED  BY <2>2, <3>4 DEF t
  <2>4. InHand' = Frame(x.bytes)
    BY <1>1, <1>3, <1>4 DEF InHand
  <2>5. <<>> \o Frame(x.bytes) = Frame(x.bytes) /\ <<>> \in Bytes
    BY <1>2, BytesEmpty
  <2>6. Left(<<>>, Frame(x.bytes))'
    BY <1>2, <1>4, <2>1, <2>2, <2>3, <2>4, <2>5 DEF Left, readerVars
  <2> QED  BY <2>6, WireInvOf
<1> QED  BY <1>5, <1>6, <1>7, <1>8 DEF IInv

LEMMA WritesUnchanged ==
  ASSUME UNCHANGED <<items, flushed>>
  PROVE  UNCHANGED <<InHand, Flushed, Sent>>
BY DEF InHand, Flushed, Sent

LEMMA PushKeeps ==
  ASSUME IInv, NEW k \in 1..Capacity, Push(k)
  PROVE  IInv'
<1>1. PICK a : a = SubSeq(outbox, 1, k)
  OBVIOUS
<1>2. PICK b : b = SubSeq(outbox, k + 1, Len(outbox))
  OBVIOUS
<1>3. /\ k \in 1..Len(outbox) /\ Len(stream) + k <= Capacity
      /\ stream' = stream \o a /\ outbox' = b
      /\ UNCHANGED <<items, writer, flushed, readerVars>>
  BY <1>1, <1>2 DEF Push
<1>4. outbox \in Bytes /\ stream \in Bytes /\ got \in Seq(Bytes) /\ prefix \in Bytes /\ body \in Bytes
  BY Types DEF IInv
<1>5. a \in Bytes /\ b \in Bytes /\ a \o b = outbox /\ Len(a) = k /\ Len(outbox) \in Nat
  BY <1>1, <1>2, <1>3, <1>4, TakeFront
<1>6. stream' \in Bytes /\ Len(stream') = Len(stream) + k
  BY <1>3, <1>4, <1>5, BytesJoin
<1>7. writer = "writing"
  <2> SUFFICES ASSUME writer # "writing" PROVE FALSE
    OBVIOUS
  <2>1. outbox = <<>> /\ Len(<<>>) = 0
    BY DEF IInv, PhaseInv
  <2>2. Len(outbox) = 0
    BY <2>1
  <2> QED  BY <1>3, <2>2
<1>8. TypeOK'
  BY <1>3, <1>5, <1>6 DEF IInv, TypeOK, readerVars, Bytes
<1>9. SizeInv'
  BY <1>3 DEF IInv, SizeInv, Framed, readerVars
<1>10. PhaseInv'
  <2>1. UNCHANGED <<items, flushed, writer, reader, prefix, body, Length>>
    BY <1>3 DEF Length, readerVars
  <2> QED  BY <1>7, <2>1 DEF IInv, PhaseInv
<1>11. WireInv'
  <2>1. PICK d, r : Left(d, r)
    BY WireInvOf DEF IInv
  <2>2. d \in Bytes /\ d \o outbox = InHand /\ (Wire(got) \o (prefix \o body)) \o stream = Wire(Flushed) \o d
    BY <1>7, <2>1 DEF Left
  <2>3. PICK e : e = d \o a
    OBVIOUS
  <2>4. e \in Bytes /\ e \o b = InHand
    <3>1. Associated(d, a, b)
      BY <1>5, <2>2, BytesAssociate
    <3>2. (d \o a) \o b = d \o (a \o b)
      BY <3>1 DEF Associated
    <3>3. d \o a \in Bytes
      BY <1>5, <2>2, BytesJoin
    <3> QED  BY <1>5, <2>2, <2>3, <3>2, <3>3
  <2> DEFINE w == Wire(got) \o (prefix \o body)
             f == Wire(Flushed)
  <2>5. w \in Bytes /\ f \in Bytes
    <3>1. Wire(got) \in Bytes /\ f \in Bytes
      BY <1>4, WireType, FlushedType DEF IInv
    <3>2. prefix \o body \in Bytes
      BY <1>4, BytesJoin
    <3> QED  BY <3>1, <3>2, BytesJoin
  <2>6. w \o stream = f \o d /\ UNCHANGED <<w, f, InHand>>
    BY <1>3, <2>2, WritesUnchanged DEF readerVars
  <2>7. w \o (stream \o a) = f \o e
    <3> HIDE DEF w, f
    <3>1. a \in Bytes /\ d \in Bytes /\ stream \in Bytes /\ w \in Bytes /\ f \in Bytes /\ w \o stream = f \o d
      BY <1>4, <1>5, <2>2, <2>5, <2>6
    <3>2. (w \o stream) \o a = w \o (stream \o a)
      <4>1. Associated(w, stream, a)
        BY <3>1, BytesAssociate
      <4> QED  BY <4>1 DEF Associated
    <3>3. (f \o d) \o a = f \o (d \o a)
      <4>1. Associated(f, d, a)
        BY <3>1, BytesAssociate
      <4> QED  BY <4>1 DEF Associated
    <3> QED  BY <2>3, <3>1, <3>2, <3>3
  <2>8. Left(e, b)'
    <3>1. w' \o stream' = f' \o e
      <4> HIDE DEF w, f
      <4> QED  BY <1>3, <2>6, <2>7
    <3> QED  BY <1>3, <1>5, <2>4, <2>6, <3>1 DEF Left
  <2> QED  BY <2>8, WireInvOf
<1> QED  BY <1>8, <1>9, <1>10, <1>11 DEF IInv

LEMMA FlushKeeps ==
  ASSUME IInv, Flush
  PROVE  IInv'
<1> DEFINE n == Len(items)
           b == items[n].bytes
<1>1. /\ writer = "writing" /\ outbox = <<>> /\ writer' = "idle" /\ flushed' = flushed + 1
      /\ UNCHANGED <<items, outbox, stream, readerVars>>
  BY DEF Flush
<1>2. n \in Nat /\ flushed \in Nat /\ n = flushed + 1 /\ flushed' = n
  BY <1>1, Types DEF IInv, PhaseInv
<1>3. TypeOK'
  <2>1. flushed' \in 0..Len(items')
    BY <1>1, <1>2
  <2> QED  BY <1>1, <2>1 DEF IInv, TypeOK, readerVars
<1>4. SizeInv'
  BY <1>1 DEF IInv, SizeInv, Framed, readerVars
<1>5. PhaseInv'
  <2>1. UNCHANGED <<items, outbox, stream, reader, prefix, body, Length>>
    BY <1>1 DEF Length, readerVars
  <2>2. Len(items') = flushed'
    BY <1>1, <1>2
  <2> QED  BY <1>1, <2>1, <2>2 DEF IInv, PhaseInv
<1>6. WireInv'
  <2>1. PICK d, r : Left(d, r)
    BY WireInvOf DEF IInv
  <2>2. /\ d \in Bytes /\ d \o <<>> = InHand
        /\ (Wire(got) \o (prefix \o body)) \o stream = Wire(Flushed) \o d
    BY <1>1, <2>1 DEF Left
  <2>3. /\ b \in Bytes /\ Sent = Append(Flushed, b) /\ InHand = Frame(b) /\ Flushed \in Seq(Bytes)
        /\ Sent \in Seq(Bytes) /\ Len(Sent) = n
    BY <1>2, FlushedType, Types DEF IInv
  <2>4. d = Frame(b)
    BY <2>2, <2>3, BytesEmpty
  <2>5. Wire(Sent) = Wire(Flushed) \o d
    BY <2>3, <2>4, WireAppend
  <2>6. Sent' = Sent /\ Flushed' = Sent
    <3>1. Sent' = Sent
      BY <1>1 DEF Sent
    <3>2. Flushed' = SubSeq(Sent, 1, Len(Sent))
      BY <1>2, <2>3, <3>1 DEF Flushed
    <3> QED  BY <2>3, <3>1, <3>2, SubSeqFull
  <2>7. InHand' = <<>>
    BY <1>1, <1>2 DEF InHand
  <2>8. Wire(Sent) \in Bytes /\ Wire(Sent) \o <<>> = Wire(Sent) /\ <<>> \o <<>> = <<>> /\ <<>> \in Bytes
    BY <2>3, WireType, BytesEmpty
  <2>9. Left(<<>>, <<>>)'
    BY <1>1, <2>2, <2>5, <2>6, <2>7, <2>8 DEF Left, readerVars
  <2> QED  BY <2>9, WireInvOf
<1> QED  BY <1>3, <1>4, <1>5, <1>6 DEF IInv

LEMMA CloseKeeps ==
  ASSUME IInv, Close
  PROVE  IInv'
<1>1. writer # "closed" /\ writer' = "closed" /\ outbox' = <<>> /\ UNCHANGED <<items, flushed, stream, readerVars>>
  BY DEF Close
<1>2. TypeOK'
  BY <1>1 DEF IInv, TypeOK, readerVars
<1>3. SizeInv'
  BY <1>1 DEF IInv, SizeInv, Framed, readerVars
<1>4. PhaseInv'
  <2>1. UNCHANGED <<items, flushed, stream, reader, prefix, body, Length>>
    BY <1>1 DEF Length, readerVars
  <2> QED  BY <1>1, <2>1 DEF IInv, PhaseInv
<1>5. WireInv'
  <2>1. PICK d, r : Left(d, r)
    BY WireInvOf DEF IInv
  <2>2. Left(d, r)'
    BY <1>1, <2>1, WritesUnchanged DEF Left, readerVars
  <2> QED  BY <2>2, WireInvOf
<1> QED  BY <1>2, <1>3, <1>4, <1>5 DEF IInv

(* What every take of the reader does: a is moved from the stream to what it *)
(* holds.                                                                   *)
LEMMA TakeKeepsWire ==
  ASSUME IInv, NEW a \in Bytes, stream' \in Bytes, a \o stream' = stream,
         (prefix \o body)' = (prefix \o body) \o a,
         UNCHANGED <<writerVars, got>>
  PROVE  WireInv'
<1>1. PICK d, r : Left(d, r)
  BY WireInvOf DEF IInv
<1>2. PICK b : b = stream'
  OBVIOUS
<1> DEFINE w == Wire(got)
           h == prefix \o body
<1>3. w \in Bytes /\ h \in Bytes /\ b \in Bytes
  <2>1. got \in Seq(Bytes) /\ prefix \in Bytes /\ body \in Bytes
    BY Types DEF IInv
  <2> QED  BY <1>2, <2>1, WireType, BytesJoin
<1>4. (w \o h) \o (a \o b) = Wire(Flushed) \o d
  BY <1>1, <1>2 DEF Left
<1>5. (w \o (h \o a)) \o b = Wire(Flushed) \o d
  <2> HIDE DEF w, h
  <2>1. Moved(w, h, a, b)
    BY <1>3, BytesMove
  <2> QED  BY <1>4, <2>1 DEF Moved
<1>6. h' = h \o a /\ w' = w /\ UNCHANGED <<Flushed, InHand, writer, outbox>>
  BY WritesUnchanged DEF writerVars
<1>7. (w' \o h') \o stream' = Wire(Flushed)' \o d
  <2>1. UNCHANGED Wire(Flushed)
    BY <1>6
  <2> HIDE DEF w, h
  <2> QED  BY <1>2, <1>5, <1>6, <2>1
<1>8. Left(d, r)'
  BY <1>1, <1>6, <1>7 DEF Left
<1> QED  BY <1>8, WireInvOf

LEMMA ReadFirstKeeps ==
  ASSUME IInv, ReadFirst
  PROVE  IInv'
<1>1. PICK a : a = SubSeq(stream, 1, 1)
  OBVIOUS
<1>2. /\ reader = "first" /\ 1 \in 1..Len(stream) /\ stream' = SubSeq(stream, 1 + 1, Len(stream))
      /\ prefix' = a /\ reader' = "length" /\ prefix = <<>> /\ body = <<>>
      /\ UNCHANGED <<writerVars, body, got>>
  BY <1>1 DEF ReadFirst, Take, IInv, PhaseInv
<1>3. /\ a \in Bytes /\ Len(a) = 1 /\ stream' \in Bytes /\ Len(stream') = Len(stream) - 1
      /\ a \o stream' = stream /\ Len(stream) \in Nat
  BY <1>1, <1>2, Types, TakeFront DEF IInv
<1>4. TypeOK'
  <2>1. Len(stream') <= Capacity /\ Len(prefix') <= LengthLen
    <3>1. Len(stream) <= Capacity
      BY DEF IInv, TypeOK
    <3> QED  BY <1>2, <1>3, <3>1, IpcAssumption
  <2> QED  BY <1>2, <1>3, <2>1 DEF IInv, TypeOK, writerVars, Bytes
<1>5. SizeInv'
  BY <1>2 DEF IInv, SizeInv, Framed, writerVars
<1>6. PhaseInv'
  BY <1>2 DEF IInv, PhaseInv, writerVars
<1>7. WireInv'
  <2>1. (prefix \o body)' = (prefix \o body) \o a
    <3>1. a \o <<>> = a /\ <<>> \o <<>> = <<>> /\ <<>> \o a = a
      BY <1>3, BytesEmpty
    <3> QED  BY <1>2, <3>1
  <2> QED  BY <1>2, <1>3, <2>1, TakeKeepsWire
<1> QED  BY <1>4, <1>5, <1>6, <1>7 DEF IInv

LEMMA ReadLengthKeeps ==
  ASSUME IInv, NEW k \in 1..Capacity, ReadLength(k)
  PROVE  IInv'
<1>1. PICK a : a = SubSeq(stream, 1, k)
  OBVIOUS
<1>2. /\ reader = "length" /\ k <= LengthLen - Len(prefix)
      /\ k \in 1..Len(stream) /\ stream' = SubSeq(stream, k + 1, Len(stream))
      /\ prefix' = prefix \o a /\ body = <<>>
      /\ UNCHANGED <<writerVars, reader, body, got>>
  BY <1>1 DEF ReadLength, Take, IInv, PhaseInv
<1>3. /\ a \in Bytes /\ Len(a) = k /\ stream' \in Bytes /\ Len(stream') = Len(stream) - k
      /\ a \o stream' = stream /\ Len(stream) \in Nat
  BY <1>1, <1>2, Types, TakeFront DEF IInv
<1>4. prefix \in Bytes /\ prefix' \in Bytes /\ Len(prefix') = Len(prefix) + k /\ Len(prefix) \in Nat
  BY <1>2, <1>3, Types, BytesJoin, BytesEmpty DEF IInv
<1>5. TypeOK'
  <2>1. Len(stream') <= Capacity /\ Len(prefix') <= LengthLen
    <3>1. Len(stream) <= Capacity
      BY DEF IInv, TypeOK
    <3> QED  BY <1>2, <1>3, <1>4, <3>1, IpcAssumption
  <2> QED  BY <1>2, <1>3, <1>4, <2>1 DEF IInv, TypeOK, writerVars, Bytes
<1>6. SizeInv'
  BY <1>2 DEF IInv, SizeInv, Framed, writerVars
<1>7. PhaseInv'
  BY <1>2 DEF IInv, PhaseInv, writerVars
<1>8. WireInv'
  <2>1. (prefix \o body)' = (prefix \o body) \o a
    <3>1. prefix \o <<>> = prefix /\ prefix' \o <<>> = prefix'
      BY <1>4, BytesEmpty
    <3> QED  BY <1>2, <3>1
  <2> QED  BY <1>2, <1>3, <2>1, TakeKeepsWire
<1> QED  BY <1>5, <1>6, <1>7, <1>8 DEF IInv

LEMMA ReadBodyKeeps ==
  ASSUME IInv, NEW k \in 1..Capacity, ReadBody(k)
  PROVE  IInv'
<1>1. PICK a : a = SubSeq(stream, 1, k)
  OBVIOUS
<1>2. /\ reader = "body" /\ k <= Length - Len(body)
      /\ k \in 1..Len(stream) /\ stream' = SubSeq(stream, k + 1, Len(stream))
      /\ body' = body \o a
      /\ UNCHANGED <<writerVars, reader, prefix, got>>
  BY <1>1 DEF ReadBody, Take
<1>3. /\ a \in Bytes /\ Len(a) = k /\ stream' \in Bytes /\ Len(stream') = Len(stream) - k
      /\ a \o stream' = stream /\ Len(stream) \in Nat
  BY <1>1, <1>2, Types, TakeFront DEF IInv
<1>4. /\ body \in Bytes /\ body' \in Bytes /\ Len(body') = Len(body) + k /\ Len(body) \in Nat
      /\ prefix \in Bytes /\ Length \in Nat
  <2>1. body \in Bytes /\ prefix \in Bytes
    BY Types DEF IInv
  <2>2. Length \in Nat
    BY <2>1, BytesOfNumber DEF Length, Bytes
  <2> QED  BY <1>2, <1>3, <2>1, <2>2, BytesJoin, BytesEmpty
<1>5. TypeOK'
  <2>1. Len(stream') <= Capacity
    <3>1. Len(stream) <= Capacity
      BY DEF IInv, TypeOK
    <3> QED  BY <1>2, <1>3, <3>1, IpcAssumption
  <2> QED  BY <1>2, <1>3, <1>4, <2>1 DEF IInv, TypeOK, writerVars, Bytes
<1>6. SizeInv'
  BY <1>2 DEF IInv, SizeInv, Framed, writerVars
<1>7. PhaseInv'
  <2>1. UNCHANGED <<items, writer, outbox, flushed, reader, prefix, Length>>
    BY <1>2 DEF Length, writerVars
  <2>2. Len(body') <= Length
    BY <1>2, <1>4
  <2> QED  BY <1>2, <2>1, <2>2 DEF IInv, PhaseInv
<1>8. WireInv'
  <2>1. (prefix \o body)' = (prefix \o body) \o a
    <3>1. (prefix \o body) \o a = prefix \o (body \o a)
      <4>1. Associated(prefix, body, a)
        BY <1>3, <1>4, BytesAssociate
      <4> QED  BY <4>1 DEF Associated
    <3> QED  BY <1>2, <3>1
  <2> QED  BY <1>2, <1>3, <2>1, TakeKeepsWire
<1> QED  BY <1>5, <1>6, <1>7, <1>8 DEF IInv

LEMMA ReturnKeeps ==
  ASSUME IInv, Return
  PROVE  IInv'
<1>1. /\ reader = "body" /\ Len(body) = Length /\ got' = Append(got, body)
      /\ reader' = "first" /\ prefix' = <<>> /\ body' = <<>>
      /\ UNCHANGED <<writerVars, stream>> /\ Len(prefix) = LengthLen
  BY DEF Return, IInv, PhaseInv
<1>2. /\ got \in Seq(Bytes) /\ prefix \in Bytes /\ body \in Bytes /\ stream \in Bytes
      /\ DOMAIN got = 1..Len(got) /\ Len(got) \in Nat
  BY Types DEF IInv
<1>3. Frame(body) = prefix \o body /\ Framed(body)
  BY <1>1, <1>2, BytesOfNumber DEF Frame, Framed, Length, Bytes
<1>4. /\ got' \in Seq(Bytes) /\ Len(got') = Len(got) + 1 /\ got'[Len(got) + 1] = body
      /\ \A i \in 1..Len(got) : got'[i] = got[i]
      /\ DOMAIN got' = 1..Len(got) + 1
  <2>1. /\ got' \in Seq(Bytes) /\ Len(got') = Len(got) + 1 /\ got'[Len(got) + 1] = body
        /\ \A i \in 1..Len(got) : got'[i] = got[i]
    BY <1>1, <1>2, AppendProperties
  <2> QED  BY <2>1, LenProperties
<1>5. TypeOK'
  <2>1. Len(prefix') <= LengthLen /\ prefix' \in Seq(Byte) /\ body' \in Seq(Byte)
    BY <1>1, IpcAssumption
  <2> QED  BY <1>1, <1>4, <2>1 DEF IInv, TypeOK, writerVars, Bytes
<1>6. SizeInv'
  <2>1. \A i \in 1..Len(got) : Framed(got[i])
    BY <1>2 DEF IInv, SizeInv
  <2>2. \A i \in 1..Len(got) + 1 : Framed(got'[i])
    <3> TAKE i \in 1..Len(got) + 1
    <3>1. i \in 1..Len(got) \/ i = Len(got) + 1
      BY <1>2
    <3> QED  BY <1>3, <1>4, <2>1, <3>1
  <2> QED  BY <1>1, <1>4, <2>2 DEF IInv, SizeInv, Framed, writerVars
<1>7. PhaseInv'
  BY <1>1 DEF IInv, PhaseInv, writerVars
<1>8. WireInv'
  <2>1. PICK d, r : Left(d, r)
    BY WireInvOf DEF IInv
  <2>2. Wire(got') = Wire(got) \o (prefix \o body)
    BY <1>1, <1>2, <1>3, WireAppend
  <2>3. Wire(got') \in Bytes
    BY <1>4, WireType
  <2>4. <<>> \o <<>> = <<>> /\ Wire(got') \o <<>> = Wire(got')
    BY <2>3, BytesEmpty
  <2>5. Wire(got') \o (prefix' \o body') = Wire(got) \o (prefix \o body)
    BY <1>1, <2>2, <2>4
  <2>6. UNCHANGED <<stream, writer, outbox, InHand, Flushed>>
    BY <1>1, WritesUnchanged DEF writerVars
  <2>7. Left(d, r)'
    <3>1. UNCHANGED Wire(Flushed)
      BY <2>6
    <3> QED  BY <2>1, <2>5, <2>6, <3>1 DEF Left
  <2> QED  BY <2>7, WireInvOf
<1> QED  BY <1>5, <1>6, <1>7, <1>8 DEF IInv

(* The reader looks at what it has, or gives up: no byte is moved.          *)
LEMMA ReaderTurns ==
  ASSUME IInv, CheckLength \/ ReadEnd \/ ReadFails
  PROVE  IInv'
<1>1. UNCHANGED <<items, writer, outbox, flushed, stream, prefix, body, got>>
  BY DEF CheckLength, ReadEnd, ReadFails, writerVars
<1>2. TypeOK'
  <2>1. reader' \in {"body", "failed", "clean"}
    BY DEF CheckLength, ReadEnd, ReadFails, AtEnd
  <2> QED  BY <1>1, <2>1 DEF IInv, TypeOK
<1>3. SizeInv'
  BY <1>1 DEF IInv, SizeInv, Framed
<1>4. PhaseInv'
  <2>1. UNCHANGED Length
    BY <1>1 DEF Length
  <2>2. CASE CheckLength
    <3>1. reader = "length" /\ Len(prefix) = LengthLen /\ reader' = IF Sound(Length) THEN "body" ELSE "failed"
      BY <2>2 DEF CheckLength
    <3>2. body = <<>> /\ Len(body) = 0
      BY <3>1 DEF IInv, PhaseInv
    <3>3. Sound(Length) => Len(body) <= Length
      BY <3>2 DEF Sound
    <3> QED  BY <1>1, <2>1, <3>1, <3>2, <3>3 DEF IInv, PhaseInv
  <2>3. CASE ReadEnd
    BY <1>1, <2>1, <2>3 DEF IInv, PhaseInv, ReadEnd, AtEnd
  <2>4. CASE ReadFails
    BY <1>1, <2>1, <2>4 DEF IInv, PhaseInv, ReadFails
  <2> QED  BY <2>2, <2>3, <2>4
<1>5. WireInv'
  <2>1. PICK d, r : Left(d, r)
    BY WireInvOf DEF IInv
  <2>2. Left(d, r)'
    BY <1>1, <2>1, WritesUnchanged DEF Left
  <2> QED  BY <2>2, WireInvOf
<1> QED  BY <1>2, <1>3, <1>4, <1>5 DEF IInv

LEMMA StutterKeeps ==
  ASSUME IInv, UNCHANGED vars
  PROVE  IInv'
<1>1. UNCHANGED <<items, writer, outbox, flushed, stream, reader, prefix, body, got>>
  BY DEF vars, writerVars, readerVars
<1>2. UNCHANGED <<InHand, Flushed, Length>>
  BY <1>1, WritesUnchanged DEF Length
<1>3. TypeOK' /\ SizeInv' /\ PhaseInv'
  BY <1>1, <1>2 DEF IInv, TypeOK, SizeInv, Framed, PhaseInv
<1>4. WireInv'
  <2>1. PICK d, r : Left(d, r)
    BY WireInvOf DEF IInv
  <2>2. Left(d, r)'
    BY <1>1, <1>2, <2>1 DEF Left
  <2> QED  BY <2>2, WireInvOf
<1> QED  BY <1>3, <1>4 DEF IInv

LEMMA StepKeeps ==
  ASSUME IInv, [Next]_vars
  PROVE  IInv'
<1>1. CASE \E x \in Item : Write(x)
  BY <1>1, WriteKeeps
<1>2. CASE WriteStep
  BY <1>2, PushKeeps, FlushKeeps DEF WriteStep
<1>3. CASE Close
  BY <1>3, CloseKeeps
<1>4. CASE ReadStep
  BY <1>4, ReadFirstKeeps, ReturnKeeps, ReaderTurns, ReadLengthKeeps, ReadBodyKeeps DEF ReadStep
<1>5. CASE ReadFails
  BY <1>5, ReaderTurns
<1>6. CASE UNCHANGED vars
  BY <1>6, StutterKeeps
<1> QED  BY <1>1, <1>2, <1>3, <1>4, <1>5, <1>6 DEF Next

(* The stream's invariant holds in every behaviour of the two ends,         *)
(* whatever is written, wherever it is cut (framing.rs 9-58).               *)
THEOREM StreamInvariant == Spec => []IInv
<1>1. Init => IInv
  BY InitInv
<1>2. IInv /\ [Next]_vars => IInv'
  BY StepKeeps
<1> QED  BY <1>1, <1>2, PTL DEF Spec

(* The variables of the two ends keep their types, and the stream its       *)
(* capacity (framing.rs 9-58).                                              *)
THEOREM IpcTypes == Spec => []TypeOK
<1>1. IInv => TypeOK
  BY DEF IInv
<1> QED  BY <1>1, StreamInvariant, PTL

-----------------------------------------------------------------------------
(* What the framing promises.                                               *)

(* None, the clean end of read_frame, comes between two frames only, and    *)
(* after every frame whose write returned Ok (framing.rs 10-24).            *)
THEOREM CleanEnd == Spec => []CleanEndIsWhole
<1>1. IInv => CleanEndIsWhole
  <2> SUFFICES ASSUME IInv, reader = "clean" PROVE flushed <= Len(got) /\ stream = <<>> /\ prefix = <<>>
    BY DEF CleanEndIsWhole
  <2>1. stream = <<>> /\ prefix = <<>> /\ body = <<>>
    BY DEF IInv, PhaseInv
  <2> QED  BY <2>1, NothingOnTheWay
<1> QED  BY <1>1, StreamInvariant, PTL

(* The reader that waits for bytes there are none of (framing.rs 20-58).    *)
Starved ==
  /\ stream = <<>>
  /\ \/ reader = "first"
     \/ reader = "length" /\ Len(prefix) < LengthLen
     \/ reader = "body" /\ Len(body) < Length

WaitingReaderHasAll == Starved => flushed <= Len(got)

(* Two wires begin with the same messages and one has another: then its     *)
(* frame is what follows in both.                                           *)
LEMMA NextFrame ==
  ASSUME NEW g \in Seq(Bytes), NEW f \in Seq(Bytes), NEW h \in Bytes, NEW d \in Bytes,
         Wire(g) \o h = Wire(f) \o d,
         Len(g) < Len(f), \A i \in 1..Len(g) : g[i] = f[i]
  PROVE  \E y \in Bytes : h = Frame(f[Len(g) + 1]) \o y
<1> DEFINE n == Len(g)
           w == Wires(f)[n]
           e == Frame(f[n + 1])
<1>1. n \in Nat /\ Len(f) \in Nat /\ n + 1 \in 1..Len(f)
  OBVIOUS
<1>2. w = Wire(g) /\ w \in Bytes
  <2>1. n <= Len(f) /\ n <= Len(g) /\ n \in 0..Len(f)
    BY <1>1
  <2> QED  BY <1>1, <2>1, WiresAgree, WiresStep DEF Wire
<1>3. e \in Bytes
  <2>1. f[n + 1] \in Bytes
    BY <1>1
  <2> QED  BY <2>1, FrameType
<1>4. PICK r \in Bytes : Wire(f) = w \o (e \o r)
  BY <1>1, WireSplit
<1> HIDE DEF w, e
<1>5. e \o r \in Bytes /\ r \o d \in Bytes /\ e \o (r \o d) \in Bytes
  BY <1>3, <1>4, BytesJoin
<1>6. w \o h = w \o (e \o (r \o d))
  <2>1. w \o h = (w \o (e \o r)) \o d
    BY <1>2, <1>4
  <2>2. (w \o (e \o r)) \o d = w \o ((e \o r) \o d)
    <3>1. Associated(w, e \o r, d)
      BY <1>2, <1>5, BytesAssociate
    <3> QED  BY <3>1 DEF Associated
  <2>3. (e \o r) \o d = e \o (r \o d)
    <3>1. Associated(e, r, d)
      BY <1>3, <1>4, BytesAssociate
    <3> QED  BY <3>1 DEF Associated
  <2> QED  BY <2>1, <2>2, <2>3
<1>7. h = e \o (r \o d)
  <2> DEFINE t == e \o (r \o d)
  <2>1. t \in Bytes /\ w \o h = w \o t
    BY <1>5, <1>6
  <2> HIDE DEF t
  <2>2. h = t
    BY <1>2, <2>1, BytesCancel
  <2> QED  BY <2>2 DEF t
<1> QED  BY <1>5, <1>7 DEF e

(* Where a whole frame is held, its prefix and its body are.                *)
LEMMA HeldIsWhole ==
  ASSUME NEW b \in Bytes, Framed(b), NEW y \in Bytes, NEW p \in Bytes, NEW q \in Bytes,
         p \o q = Frame(b) \o y
  PROVE  /\ Len(p) + Len(q) >= LengthLen + Len(b)
         /\ Len(p) = LengthLen => FromBigEndian(p) = Len(b)
<1> DEFINE g == BigEndian(Len(b), LengthLen)
<1>1. /\ Frame(b) \in Bytes /\ Len(Frame(b)) = LengthLen + Len(b) /\ Len(b) \in Nat
      /\ g \in Bytes /\ Len(g) = LengthLen /\ LengthLen \in Nat
  BY FrameType
<1>2. FromBigEndian(g) = Len(b)
  BY <1>1, NumberOfBytes DEF Framed
<1>3. Frame(b) = g \o b
  BY DEF Frame
<1> HIDE DEF g
<1>4. Len(p) + Len(q) = (LengthLen + Len(b)) + Len(y) /\ Len(y) \in Nat
  <2>1. Len(p \o q) = Len(p) + Len(q)
    BY BytesJoin
  <2>2. Len(Frame(b) \o y) = Len(Frame(b)) + Len(y)
    BY <1>1, BytesJoin
  <2>3. Len(y) \in Nat
    BY BytesEmpty
  <2> QED  BY <1>1, <2>1, <2>2, <2>3
<1>5. ASSUME Len(p) = LengthLen PROVE p = g
  <2>1. (g \o b) \o y = g \o (b \o y)
    <3>1. Associated(g, b, y)
      BY <1>1, BytesAssociate
    <3> QED  BY <3>1 DEF Associated
  <2> DEFINE u == b \o y
  <2>2. u \in Bytes
    BY BytesJoin
  <2>3. p \o q = g \o u
    BY <1>3, <2>1
  <2> HIDE DEF u
  <2>4. SubSeq(p \o q, 1, Len(p)) = p /\ SubSeq(g \o u, 1, Len(g)) = g
    BY <1>1, <2>2, BytesJoin
  <2> QED  BY <1>1, <1>5, <2>3, <2>4
<1> QED  BY <1>1, <1>2, <1>4, <1>5

(* read_frame never waits for bytes while a frame whose write returned Ok   *)
(* has not been read: writer and reader cannot wait for each other over a   *)
(* message that was flushed (framing.rs 20-58).                             *)
THEOREM ReaderIsNotLeftWaiting == Spec => []WaitingReaderHasAll
<1>1. ASSUME IInv, Starved, ~(flushed <= Len(got)) PROVE FALSE
  <2>1. PICK d, r : Left(d, r)
    BY <1>1, WireInvOf DEF IInv
  <2>2. /\ Flushed \in Seq(Bytes) /\ Len(Flushed) = flushed /\ flushed \in Nat
        /\ \A i \in 1..flushed : Flushed[i] = items[i].bytes
        /\ DOMAIN items = 1..Len(items) /\ flushed \in 0..Len(items) /\ Len(items) \in Nat
        /\ got \in Seq(Bytes) /\ Len(got) \in Nat /\ prefix \in Bytes /\ body \in Bytes
    BY <1>1, Types, FlushedType DEF IInv
  <2> DEFINE h == prefix \o body
             b == Flushed[Len(got) + 1]
  <2>3. h \in Bytes /\ d \in Bytes /\ Wire(got) \in Bytes
    BY <2>1, <2>2, BytesJoin, WireType DEF Left
  <2>4. Wire(got) \o h = Wire(Flushed) \o d
    <3>1. (Wire(got) \o h) \o <<>> = Wire(Flushed) \o d
      BY <1>1, <2>1 DEF Left, Starved
    <3>2. Wire(got) \o h \in Bytes
      BY <2>3, BytesJoin
    <3> QED  BY <3>1, <3>2, BytesEmpty
  <2>5. Len(got) < Len(Flushed) /\ \A i \in 1..Len(got) : got[i] = Flushed[i]
    <3>1. Len(got) < flushed
      BY <1>1, <2>2
    <3>2. \A i \in 1..Len(got) : got[i] = items[i].bytes /\ i \in 1..flushed
      BY <1>1, <2>2, <3>1, ReturnedIsSent
    <3> QED  BY <2>2, <3>1, <3>2
  <2>6. b \in Bytes /\ Framed(b)
    <3>1. Len(got) + 1 \in 1..flushed /\ Len(got) + 1 \in DOMAIN items
      BY <2>2, <2>5
    <3>2. b = items[Len(got) + 1].bytes /\ b \in Bytes
      BY <2>2, <3>1
    <3> QED  BY <1>1, <3>1, <3>2 DEF IInv, SizeInv
  <2>7. PICK y \in Bytes : h = Frame(b) \o y
    <3> HIDE DEF h
    <3> QED  BY <2>2, <2>3, <2>4, <2>5, NextFrame
  <2> HIDE DEF b
  <2>8. /\ Len(prefix) + Len(body) >= LengthLen + Len(b)
        /\ Len(prefix) = LengthLen => Length = Len(b)
    BY <2>2, <2>6, <2>7, HeldIsWhole DEF Length
  <2>9. Len(b) \in Nat /\ LengthLen \in Nat \ {0} /\ Len(prefix) \in Nat /\ Len(body) \in Nat
    BY <2>2, <2>6, BytesEmpty, IpcAssumption
  <2>10. Len(<<>>) = 0
    OBVIOUS
  <2>11. CASE reader = "first"
    <3>1. Len(prefix) = 0 /\ Len(body) = 0
      BY <1>1, <2>10, <2>11 DEF IInv, PhaseInv
    <3> QED  BY <2>8, <2>9, <3>1
  <2>12. CASE reader = "length" /\ Len(prefix) < LengthLen
    <3>1. Len(body) = 0
      BY <1>1, <2>10, <2>12 DEF IInv, PhaseInv
    <3> QED  BY <2>8, <2>9, <2>12, <3>1
  <2>13. CASE reader = "body" /\ Len(body) < Length
    <3>1. Len(prefix) = LengthLen
      BY <1>1, <2>13 DEF IInv, PhaseInv
    <3> QED  BY <2>8, <2>9, <2>13, <3>1
  <2> QED  BY <1>1, <2>11, <2>12, <2>13 DEF Starved
<1>2. IInv => WaitingReaderHasAll
  BY <1>1 DEF WaitingReaderHasAll
<1> QED  BY <1>2, StreamInvariant, PTL

(* A decoder accepts of the frames that arrive, valid or not, exactly the   *)
(* bytes that the encoder makes of the value it returns (lib.rs 116-200).   *)
THEOREM CanonicalDecoding == Spec => []DecodesCanonically
<1>1. IInv => DecodesCanonically
  <2> SUFFICES ASSUME IInv, NEW i \in DOMAIN got, NEW kind \in {"request", "response"}
               PROVE  Rejected(Decoded(kind, got[i])) \/ Encoded(kind, Decoded(kind, got[i])) = got[i]
    BY DEF DecodesCanonically
  <2>1. got[i] \in Seq(Byte)
    BY DEF IInv, TypeOK
  <2>2. CASE kind = "request"
    <3>1. \A b : Decoded(kind, b) = DecodeRequest(b) /\ Encoded(kind, b) = EncodeRequest(b)
      BY <2>2 DEF Decoded, Encoded
    <3> QED  BY <2>1, <3>1, RequestIsCanonical
  <2>3. CASE kind = "response"
    <3>1. \A b : Decoded(kind, b) = DecodeResponse(b) /\ Encoded(kind, b) = EncodeResponse(b)
      BY <2>3 DEF Decoded, Encoded
    <3> QED  BY <2>1, <3>1, ResponseIsCanonical
  <2> QED  BY <2>2, <2>3
<1> QED  BY <1>1, StreamInvariant, PTL

(* What an end encodes the other end decodes as it was, over any stream     *)
(* (lib.rs 109-193, framing.rs 9-58).                                       *)
THEOREM FaithfulDecoding == Spec => []DecodesWhatWasSent
<1>1. IInv => DecodesWhatWasSent
  <2> SUFFICES ASSUME IInv, NEW i \in DOMAIN got, items[i].kind # "raw"
               PROVE  Decoded(items[i].kind, got[i]) = items[i].value
    BY DEF DecodesWhatWasSent
  <2> DEFINE x == items[i]
  <2>1. i \in 1..Len(got) /\ i \in 1..Len(items) /\ got[i] = x.bytes
    <3>1. DOMAIN got = 1..Len(got) /\ Len(got) \in Nat /\ Len(items) \in Nat
      BY Types DEF IInv
    <3> QED  BY <3>1, ReturnedIsSent
  <2>2. x \in Item
    BY <2>1, Types DEF IInv
  <2>3. /\ x.kind \in {"request", "response", "ready"} /\ x.bytes \in Seq(Byte)
        /\ x.value \in Messages(x.kind) /\ x.bytes = Encoded(x.kind, x.value)
    BY <2>2, IpcAssumption
  <2> HIDE DEF x
  <2>4. CASE x.kind = "request"
    <3>1. x.value \in Request /\ x.bytes = EncodeRequest(x.value) /\ Decoded(x.kind, x.bytes) = DecodeRequest(x.bytes)
      BY <2>3, <2>4 DEF Messages, Encoded, Decoded
    <3>2. DecodeRequest(EncodeRequest(x.value)) = x.value
      BY <2>3, <3>1, RequestIsRead
    <3> QED  BY <2>1, <3>1, <3>2 DEF x
  <2>5. CASE x.kind = "response"
    <3>1. x.value \in Response /\ x.bytes = EncodeResponse(x.value) /\ Decoded(x.kind, x.bytes) = DecodeResponse(x.bytes)
      BY <2>3, <2>5 DEF Messages, Encoded, Decoded
    <3>2. DecodeResponse(EncodeResponse(x.value)) = x.value
      BY <2>3, <3>1, ResponseIsRead
    <3> QED  BY <2>1, <3>1, <3>2 DEF x
  <2>6. CASE x.kind = "ready"
    <3>1. x.value = TRUE /\ x.bytes = Ready /\ Decoded(x.kind, x.bytes) = (x.bytes = Ready)
      BY <2>3, <2>6 DEF Messages, Encoded, Decoded, DecodeReady
    <3>2. (x.bytes = Ready) = TRUE
      BY <3>1
    <3> QED  BY <2>1, <3>1, <3>2 DEF x
  <2> QED  BY <2>3, <2>4, <2>5, <2>6
<1> QED  BY <1>1, StreamInvariant, PTL

ReturnedSent == Len(got) <= Len(items) /\ \A i \in 1..Len(got) : got[i] = items[i].bytes

(* What the reader returned is what was sent, after a step too.             *)
LEMMA ReturnedIsSentNext == IInv' => ReturnedSent'
<1>1. IInv => ReturnedSent
  BY ReturnedIsSent DEF ReturnedSent
<1> QED  BY <1>1, PTL

(* One step of the two ends is a step of ordered delivery, or none.         *)
LEMMA StepDelivers ==
  ASSUME IInv, IInv', [Next]_vars
  PROVE  [Delivery!Next]_Delivery!vars
<1> DEFINE end == IF reader \in {"clean", "failed"} THEN reader ELSE "none"
<1>1. CASE \E x \in Item : Write(x)
  <2>1. PICK x \in Item : Write(x)
    BY <1>1
  <2>2. items' = Append(items, x) /\ UNCHANGED <<got, end>>
    BY <2>1 DEF Write, readerVars
  <2> DEFINE n == Len(items)
  <2>3. /\ n \in Nat /\ Sent \in Seq(Bytes) /\ Len(Sent) = n /\ DOMAIN items = 1..n
        /\ \A i \in 1..n : Sent[i] = items[i].bytes
        /\ items \in Seq(Item)
    BY Types DEF IInv, TypeOK
  <2>4. x.bytes \in Bytes
    BY IpcAssumption DEF Bytes
  <2>5. DOMAIN items' = 1..n + 1 /\ items'[n + 1] = x /\ \A i \in 1..n : items'[i] = items[i]
    BY <2>2, <2>3, AppendProperties, LenProperties
  <2> DEFINE t == Append(Sent, x.bytes)
  <2>6. t \in Seq(Bytes) /\ Len(t) = n + 1 /\ t[n + 1] = x.bytes /\ \A i \in 1..n : t[i] = Sent[i]
    BY <2>3, <2>4, AppendProperties
  <2> HIDE DEF t
  <2>7. Sent' = [i \in 1..n + 1 |-> items'[i].bytes]
    BY <2>5 DEF Sent
  <2>8. \A i \in 1..n + 1 : items'[i].bytes = t[i]
    <3> TAKE i \in 1..n + 1
    <3>1. i \in 1..n \/ i = n + 1
      BY <2>3
    <3> QED  BY <2>3, <2>5, <2>6, <3>1
  <2>9. t = [i \in 1..n + 1 |-> t[i]]
    BY <2>6
  <2>10. Sent' = Append(Sent, x.bytes)
    BY <2>7, <2>8, <2>9 DEF t
  <2>11. Delivery!Send(x.bytes)
    BY <2>2, <2>10 DEF Delivery!Send
  <2> QED  BY <2>11 DEF Delivery!Next
<1>2. CASE Return
  <2>1. got' = Append(got, body) /\ reader = "body" /\ reader' = "first" /\ UNCHANGED writerVars
    BY <1>2 DEF Return
  <2>2. UNCHANGED <<items, Sent>>
    BY <2>1 DEF writerVars, Sent
  <2>3. /\ got \in Seq(Bytes) /\ body \in Bytes /\ Len(got) \in Nat /\ Len(items) \in Nat
        /\ Len(Sent) = Len(items) /\ \A i \in 1..Len(items) : Sent[i] = items[i].bytes
    BY Types DEF IInv
  <2>4. Len(got') = Len(got) + 1 /\ got'[Len(got) + 1] = body
    BY <2>1, <2>3, AppendProperties
  <2>5. Len(got') <= Len(items') /\ \A i \in 1..Len(got') : got'[i] = items'[i].bytes
    BY ReturnedIsSentNext DEF ReturnedSent
  <2>6. Len(got) + 1 \in 1..Len(items) /\ Len(got) + 1 \in 1..Len(got') /\ Len(got) < Len(Sent)
    BY <2>2, <2>3, <2>4, <2>5
  <2>7. body = Sent[Len(got) + 1]
    BY <2>2, <2>3, <2>4, <2>5, <2>6
  <2>8. Delivery!Deliver
    BY <2>1, <2>2, <2>6, <2>7 DEF Delivery!Deliver
  <2> QED  BY <2>8 DEF Delivery!Next
<1>3. CASE ReadEnd
  <2>1. /\ stream = <<>> /\ reader \in {"first", "length", "body"} /\ UNCHANGED <<writerVars, got>>
        /\ reader' = IF reader = "first" THEN "clean" ELSE "failed"
    BY <1>3 DEF ReadEnd, AtEnd
  <2>2. UNCHANGED <<Sent, got>>
    BY <2>1 DEF writerVars, Sent
  <2>3. CASE reader = "first"
    <3>1. prefix = <<>> /\ body = <<>>
      BY <2>3 DEF IInv, PhaseInv
    <3>2. Len(items) <= Len(got) + 1
      BY <2>1, <3>1, NothingOnTheWay
    <3>3. Len(got) \in Nat /\ Len(items) \in Nat /\ Len(Sent) = Len(items)
      BY Types DEF IInv
    <3>4. Len(Sent) - Len(got) <= 1
      BY <3>2, <3>3
    <3>5. Delivery!EndClean
      BY <2>1, <2>2, <2>3, <3>4 DEF Delivery!EndClean
    <3> QED  BY <3>5 DEF Delivery!Next
  <2>4. CASE reader # "first"
    <3>1. Delivery!Fail
      BY <2>1, <2>2, <2>4 DEF Delivery!Fail
    <3> QED  BY <3>1 DEF Delivery!Next
  <2> QED  BY <2>3, <2>4
<1>4. CASE CheckLength \/ ReadFails
  <2>1. /\ reader \in {"first", "length", "body"} /\ reader' \in {"body", "failed"}
        /\ UNCHANGED <<writerVars, got>>
    BY <1>4 DEF CheckLength, ReadFails
  <2>2. UNCHANGED <<Sent, got>>
    BY <2>1 DEF writerVars, Sent
  <2>3. CASE reader' = "failed"
    <3>1. Delivery!Fail
      BY <2>1, <2>2, <2>3 DEF Delivery!Fail
    <3> QED  BY <3>1 DEF Delivery!Next
  <2>4. CASE reader' # "failed"
    BY <2>1, <2>2, <2>4 DEF Delivery!vars
  <2> QED  BY <2>3, <2>4
<1>5. CASE WriteStep \/ Close \/ ReadFirst \/ (\E k \in 1..Capacity : ReadLength(k) \/ ReadBody(k)) \/ UNCHANGED vars
  <2>1. UNCHANGED <<items, got, end>>
    BY <1>5 DEF WriteStep, Push, Flush, Close, ReadFirst, ReadLength, ReadBody, vars, writerVars, readerVars
  <2> QED  BY <2>1 DEF Delivery!vars, Sent
<1> QED  BY <1>1, <1>2, <1>3, <1>4, <1>5 DEF Next, ReadStep

(* read_frame implements ordered delivery: whole messages, in order, none    *)
(* twice and none skipped, and a clean end that misses at most the one in    *)
(* the writer's hands (framing.rs 9-58).                                     *)
THEOREM DeliversInOrder == Spec => ImplementsDelivery
<1>1. Init => Delivery!Init
  <2> SUFFICES ASSUME Init PROVE Delivery!Init
    OBVIOUS
  <2>1. IInv
    BY InitInv
  <2>2. Sent \in Seq(Bytes) /\ Len(Sent) = 0
    BY <2>1, Types DEF IInv, Init
  <2> QED  BY <2>2 DEF Init, Delivery!Init
<1>2. IInv /\ IInv' /\ [Next]_vars => [Delivery!Next]_Delivery!vars
  BY StepDelivers
<1> QED  BY <1>1, <1>2, StreamInvariant, PTL DEF Spec, ImplementsDelivery, Delivery!Spec
=============================================================================
