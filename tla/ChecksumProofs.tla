--------------------------- MODULE ChecksumProofs ---------------------------
(***************************************************************************)
(* The arithmetic of the checksums for every width of a word: why two      *)
(* folds bring every carry back, and that they compute the one's           *)
(* complement sum of RFC 1071.                                             *)
(***************************************************************************)
EXTENDS ChecksumSearch, WellFoundedInduction, TLAPS

\* A word has at least four values.
LEMMA WordAtLeastFour == Word \in Nat /\ Word >= 4 /\ Mask \in Nat
<1>1. Half \in Nat /\ Half >= 2
  BY WidthAssumption
<1>2. Half * Half >= 2 * Half
  BY <1>1
<1> QED BY <1>1, <1>2 DEF Word, Mask

\* Quotient and remainder by a positive number.
LEMMA Division ==
  ASSUME NEW a \in Nat, NEW b \in Nat, b > 0
  PROVE  /\ a \div b \in Nat /\ a % b \in 0..(b - 1)
         /\ a = b * (a \div b) + (a % b)
  OBVIOUS

\* The quotient of a number below two words is one or zero.
LEMMA SmallQuotient ==
  ASSUME NEW a \in Nat, NEW b \in Nat, b > 0, a < 2 * b
  PROVE  \/ a < b /\ a \div b = 0 /\ a % b = a
         \/ a >= b /\ a \div b = 1 /\ a % b = a - b
<1> DEFINE q == a \div b
           r == a % b
<1>1. q \in Nat /\ r \in 0..(b - 1) /\ a = b * q + r
  BY Division
<1> HIDE DEF q, r
<1>2. b * q < b * 2
  BY <1>1
<1>3. q < 2
  BY <1>1, <1>2
<1>4. CASE q = 0
  <2>1. r = a /\ a < b
    BY <1>1, <1>4
  <2> QED BY <1>4, <2>1, Zenon DEF q, r
<1>5. CASE q = 1
  <2>1. a = b + r
    BY <1>1, <1>5
  <2>2. a >= b /\ r = a - b
    BY <1>1, <2>1
  <2> QED BY <1>5, <2>2, Zenon DEF q, r
<1> QED BY <1>1, <1>3, <1>4, <1>5

\* A number below b * b has a quotient below b.
LEMMA WideQuotient ==
  ASSUME NEW a \in Nat, NEW b \in Nat, b > 0, a < b * b
  PROVE  a \div b < b
<1>1. a = b * (a \div b) + (a % b) /\ a \div b \in Nat /\ a % b \in Nat
  BY Division
<1>2. b * (a \div b) < b * b
  BY <1>1
<1> QED BY <1>1, <1>2

\* The first fold of an accumulator leaves at most one carry, of one.
LEMMA FirstFold ==
  ASSUME NEW s \in 0..(Wide - 1)
  PROVE  Fold(s) \in Nat /\ Fold(s) <= 2 * Mask
<1>1. Word \in Nat /\ Word > 0 /\ s \in Nat /\ s < Word * Word
  BY WordAtLeastFour DEF Wide
<1>2. s \div Word < Word /\ s \div Word \in Nat /\ s % Word \in 0..(Word - 1)
  BY <1>1, WideQuotient, Division
<1> QED BY <1>1, <1>2 DEF Fold, Mask

\* Two folds of a full accumulator leave no carry: what compute_icmp_checksum
\* complements is a word, and equal to the sum it was given modulo Mask (the
\* high word moved down twice loses a multiple of Mask each time).
THEOREM TwoFoldsSuffice ==
  ASSUME NEW s \in 0..(Wide - 1)
  PROVE  /\ Fold(Fold(s)) \in Words
         /\ \E k \in Nat : s = Fold(Fold(s)) + k * Mask
<1> DEFINE f == Fold(s)
<1>1. Word \in Nat /\ Word >= 4 /\ Mask = Word - 1 /\ s \in Nat
  BY WordAtLeastFour DEF Mask, Wide
<1>2. f \in Nat /\ f < 2 * Word - 1
  BY <1>1, FirstFold
<1>3. \/ f < Word /\ Fold(f) = f
      \/ f >= Word /\ Fold(f) = 1 + (f - Word)
  BY <1>1, <1>2, SmallQuotient DEF Fold
<1>4. Fold(f) \in Words
  BY <1>1, <1>2, <1>3 DEF Words
<1>5. PICK q \in Nat : s = f + q * Mask
  <2>1. /\ s \div Word \in Nat /\ s % Word \in Nat
        /\ s = Word * (s \div Word) + (s % Word)
    BY <1>1, Division
  <2>2. s = f + (s \div Word) * Mask
    BY <1>1, <2>1 DEF Fold
  <2> QED BY <2>1, <2>2
<1>6. \E k \in Nat : s = Fold(f) + k * Mask
  <2>1. CASE Fold(f) = f
    BY <1>5, <2>1
  <2>2. CASE Fold(f) = f - Mask /\ f >= Word
    <3>1. s = Fold(f) + (q + 1) * Mask
      BY <1>1, <1>2, <1>5, <2>2
    <3> QED BY <3>1
  <2> QED BY <1>1, <1>2, <1>3, <2>1, <2>2
<1> QED BY <1>4, <1>6

\* A remainder is determined by what it leaves to a multiple.
LEMMA RemainderIs ==
  ASSUME NEW a \in Nat, NEW b \in Nat, NEW k \in Nat, NEW r \in 0..(b - 1),
         a = r + k * b
  PROVE  a % b = r
<1> DEFINE q == a \div b
           m == a % b
<1>1. b > 0
  OBVIOUS
<1>2. q \in Nat /\ m \in 0..(b - 1) /\ a = b * q + m
  BY <1>1, Division
<1> HIDE DEF q, m
<1>3. CASE q < k
  <2>1. q + 1 <= k
    BY <1>2, <1>3
  <2>2. b * (q + 1) <= b * k
    BY <1>1, <1>2, <2>1
  <2>3. b * (q + 1) = b * q + b
    BY <1>2
  <2> QED BY <1>2, <2>2, <2>3
<1>4. CASE q > k
  <2>1. k + 1 <= q
    BY <1>2, <1>4
  <2>2. b * (k + 1) <= b * q
    BY <1>1, <1>2, <2>1
  <2>3. b * (k + 1) = b * k + b
    OBVIOUS
  <2> QED BY <1>2, <2>2, <2>3
<1>5. CASE q = k
  <2>1. m = r
    BY <1>2, <1>5
  <2> QED BY <2>1 DEF m
<1> QED BY <1>2, <1>3, <1>4, <1>5

\* Nothing but zero folds to zero.
LEMMA FoldIsZero ==
  ASSUME NEW s \in Nat, Fold(s) = 0
  PROVE  s = 0
<1>1. Word \in Nat /\ Word > 0
  BY WordAtLeastFour
<1>2. /\ s \div Word \in Nat /\ s % Word \in Nat
      /\ s = Word * (s \div Word) + (s % Word)
  BY <1>1, Division
<1>3. s \div Word = 0 /\ s % Word = 0
  BY <1>2 DEF Fold
<1> QED BY <1>1, <1>2, <1>3

\* What is left after two folds is the one's complement sum of RFC 1071, for
\* every content of the accumulator and every width.
THEOREM TwoFoldsAreOnesSum ==
  ASSUME NEW s \in 0..(Wide - 1)
  PROVE  Fold(Fold(s)) = OnesSum(s)
<1> DEFINE f == Fold(Fold(s))
<1>1. Word \in Nat /\ Word >= 4 /\ Mask \in Nat /\ Mask = Word - 1 /\ s \in Nat
  BY WordAtLeastFour DEF Mask, Wide
<1>2. f \in 0..Mask
  BY TwoFoldsSuffice DEF Words
<1>3. PICK k \in Nat : s = f + k * Mask
  BY TwoFoldsSuffice
<1>4. CASE f = 0
  <2>1. Fold(s) \in Nat
    BY FirstFold
  <2>2. Fold(s) = 0
    BY <1>4, <2>1, FoldIsZero
  <2>3. s = 0
    BY <1>1, <2>2, FoldIsZero
  <2> QED BY <1>4, <2>3 DEF OnesSum
<1>5. CASE f # 0
  <2> HIDE DEF f
  <2>1. f - 1 \in 0..(Mask - 1)
    BY <1>1, <1>2, <1>5
  <2>2. PICK p \in Nat : p = k * Mask
    <3>1. k * Mask \in Nat
      BY <1>1
    <3> QED BY <3>1
  <2>3. s - 1 \in Nat /\ s - 1 = (f - 1) + p
    BY <1>1, <1>2, <1>3, <2>1, <2>2
  <2>4. (s - 1) % Mask = f - 1
    BY <1>1, <2>1, <2>2, <2>3, RemainderIs
  <2>5. s # 0
    BY <1>1, <2>3
  <2>6. OnesSum(s) = (f - 1) + 1
    BY <2>4, <2>5 DEF OnesSum
  <2>7. OnesSum(s) = f
    BY <2>6, <1>2, <1>1
  <2> QED BY <2>7 DEF f
<1> QED BY <1>4, <1>5

-----------------------------------------------------------------------------
(* Types.                                                                  *)

\* A complement is a word.
LEMMA ComplementType ==
  ASSUME NEW s \in Nat
  PROVE  Complement(s) \in Words
<1>1. Word \in Nat /\ Word > 0 /\ Mask \in Nat /\ Mask = Word - 1
  BY WordAtLeastFour DEF Mask
<1>2. s % Word \in 0..(Word - 1)
  BY <1>1, Division
<1> QED BY <1>1, <1>2 DEF Complement, Words

\* What is added of a word or an odd byte is a number.
LEMMA AddendType ==
  ASSUME TypeOK
  PROVE  /\ \A w \in Words : Addend(w) \in Nat
         /\ \A b \in Bytes : TailAddend(b) \in Nat
<1>1. Half \in Nat /\ Half > 0
  BY WidthAssumption
<1>2. \A w \in Nat : Swap(w) \in Nat
  BY <1>1, Division DEF Swap
<1>3. Words \subseteq Nat /\ Bytes \subseteq Nat
  BY <1>1, WordAtLeastFour DEF Words, Bytes
<1>4. algorithm \in {"udp", "icmp", "first"}
  BY DEF TypeOK
<1> QED BY <1>1, <1>2, <1>3, <1>4 DEF Addend, TailAddend

\* What a function returns is a word.
LEMMA ReturnsWord == TypeOK /\ Return => result' \in Words
<1> SUFFICES ASSUME TypeOK, Return PROVE result' \in Words
  OBVIOUS
<1>1. Wide \in Nat /\ Wide > 0 /\ Word \in Nat /\ Word >= 4
      /\ Mask \in Nat /\ Mask = Word - 1
  BY WordAtLeastFour DEF Wide, Mask
<1>2. sum \in Nat /\ Fold(sum) \in Nat
  BY <1>1, FirstFold DEF TypeOK
<1>3. Fold(sum) + (Fold(sum) \div Word) \in Nat
  BY <1>1, <1>2, Division
<1>4. Mask \in Words
  BY <1>1 DEF Words
<1>5. /\ UdpResult(sum) \in Words /\ IcmpResult(sum) \in Words
      /\ FirstResult(sum) \in Words
  BY <1>2, <1>3, <1>4, ComplementType DEF UdpResult, IcmpResult, FirstResult
<1> QED BY <1>5 DEF TypeOK, Return

\* Every variable stays in its range, whatever the buffer: the accumulator
\* never leaves its width, also where checksumCalc folds it in place.
THEOREM TypeCorrect == Spec => []TypeOK
<1>1. Wide \in Nat /\ Wide > 0 /\ Word \in Nat /\ Word >= 4
      /\ Mask \in Nat /\ Mask = Word - 1
  BY WordAtLeastFour DEF Wide, Mask
<1>2. \A s \in Nat : s % Wide \in 0..(Wide - 1)
  BY <1>1, Division
<1>3. Init => TypeOK
  BY <1>1 DEF Init, TypeOK
<1>4. ASSUME TypeOK, AddWord PROVE TypeOK'
  <2>1. words[next + 1] \in Words
    BY <1>4 DEF TypeOK, AddWord
  <2>2. sum + Addend(words[next + 1]) \in Nat
    BY <1>1, <1>4, <2>1, AddendType DEF TypeOK
  <2> QED BY <1>2, <1>4, <2>2 DEF TypeOK, AddWord
<1>5. ASSUME TypeOK, AddTail PROVE TypeOK'
  <2>1. sum + (IF tail = -1 THEN 0 ELSE TailAddend(tail)) \in Nat
    BY <1>1, <1>5, AddendType DEF TypeOK
  <2>2. sum' \in 0..(Wide - 1)
    BY <1>2, <1>5, <2>1 DEF AddTail
  <2>3. next' \in 0..(Len(words') + 1)
    BY <1>5 DEF TypeOK, AddTail
  <2> QED BY <1>5, <2>2, <2>3 DEF TypeOK, AddTail
<1>6. ASSUME TypeOK, FoldCarry PROVE TypeOK'
  <2>1. Fold(sum) \in Nat /\ Fold(sum) <= 2 * Mask
    BY <1>6, FirstFold DEF TypeOK
  <2>2. 2 * Mask < Wide
    <3>1. Word * 4 <= Word * Word
      BY <1>1
    <3> QED BY <1>1, <3>1 DEF Wide
  <2>3. sum' \in 0..(Wide - 1)
    BY <1>1, <1>6, <2>1, <2>2 DEF FoldCarry
  <2> QED BY <1>6, <2>3 DEF TypeOK, FoldCarry
<1>7. ASSUME TypeOK, Return PROVE TypeOK'
  BY <1>7, ReturnsWord DEF TypeOK, Return
<1>8. TypeOK /\ UNCHANGED vars => TypeOK'
  BY DEF TypeOK, vars
<1> QED BY <1>3, <1>4, <1>5, <1>6, <1>7, <1>8, PTL DEF Spec, Next

-----------------------------------------------------------------------------
(* The sum over a buffer.                                                  *)

\* Induction as a fact about a set of numbers: a number outside T has a least
\* one below it that is outside, and its predecessor is in T.
LEMMA SetInduction ==
  ASSUME NEW n \in Nat, NEW T, 0 \in T,
         \A k \in 0..(n - 1) : k \in T => k + 1 \in T
  PROVE  \A k \in 0..n : k \in T
<1> DEFINE U == {k \in 0..n : k \notin T}
           R == {ss \in Nat \X Nat : ss[1] < ss[2]}
<1>1. SUFFICES ASSUME U # {} PROVE FALSE
  OBVIOUS
<1>2. PICK x \in U : \A y \in U : ~ (<<y, x>> \in R)
  <2>1. IsWellFoundedOn(R, Nat)
    BY NatLessThanWellFounded DEF OpToRel
  <2>2. U \subseteq Nat
    OBVIOUS
  <2> HIDE DEF U, R
  <2> QED BY <1>1, <2>1, <2>2, WFMin
<1>3. x \in 1..n /\ x \notin T
  <2>1. x # 0
    BY <1>2
  <2> QED BY <1>2, <2>1
<1>4. x - 1 \in 0..(n - 1) /\ x - 1 \in Nat /\ x \in Nat /\ x - 1 < x
  BY <1>3
<1>5. x - 1 \notin U
  BY <1>2, <1>4
<1>6. x - 1 \in T
  BY <1>4, <1>5
<1>7. (x - 1) + 1 \in T
  BY <1>4, <1>6
<1> QED BY <1>3, <1>4, <1>7

\* f holds the sums of the first k words of ws, for every k up to n.
AddsUp(f, ws, n) ==
  f = [k \in 0..n |-> IF k = 0 THEN 0 ELSE f[k - 1] + ws[k]]

\* The recursion of Sums has a solution.
LEMMA SumsExist ==
  ASSUME NEW ws \in Seq(Nat)
  PROVE  \E f : AddsUp(f, ws, Len(ws))
<1> DEFINE T == {n \in Nat : \E f : AddsUp(f, ws, n)}
<1>1. 0 \in T
  <2>1. AddsUp([k \in 0..0 |-> 0], ws, 0)
    BY DEF AddsUp
  <2> QED BY <2>1
<1>2. ASSUME NEW n \in 0..(Len(ws) - 1), n \in T
      PROVE  n + 1 \in T
  <2>1. PICK f : AddsUp(f, ws, n)
    BY <1>2
  <2> DEFINE g == [k \in 0..(n + 1) |->
                     IF k = n + 1 THEN f[n] + ws[n + 1] ELSE f[k]]
  <2>2. ASSUME NEW k \in 0..(n + 1)
        PROVE  g[k] = IF k = 0 THEN 0 ELSE g[k - 1] + ws[k]
    <3>1. n \in Nat
      OBVIOUS
    <3>2. CASE k = n + 1
      <4>1. g[k] = f[n] + ws[n + 1] /\ g[k - 1] = f[n] /\ k # 0
        BY <3>1, <3>2
      <4> QED BY <3>2, <4>1
    <3>3. CASE k # n + 1
      <4>1. k \in 0..n
        BY <3>1, <3>3
      <4>2. g[k] = f[k]
        BY <3>3
      <4>3. f[k] = IF k = 0 THEN 0 ELSE f[k - 1] + ws[k]
        BY <2>1, <4>1 DEF AddsUp
      <4>4. k # 0 => g[k - 1] = f[k - 1]
        BY <3>1, <4>1
      <4> QED BY <4>2, <4>3, <4>4
    <3> QED BY <3>2, <3>3
  <2>3. AddsUp(g, ws, n + 1)
    BY <2>2 DEF AddsUp
  <2> QED BY <2>3
<1>3. Len(ws) \in T
  <2> DEFINE m == Len(ws)
  <2>1. m \in Nat
    OBVIOUS
  <2>2. \A k \in 0..(m - 1) : k \in T => k + 1 \in T
    BY <1>2
  <2> HIDE DEF T, m
  <2>3. \A k \in 0..m : k \in T
    BY <1>1, <2>1, <2>2, SetInduction
  <2>4. m \in T
    BY <2>1, <2>3
  <2> QED BY <2>4 DEF m
<1> QED BY <1>3

\* The recursion equations of Sums.
LEMMA SumsDef ==
  ASSUME NEW ws \in Seq(Nat)
  PROVE  /\ Sums(ws)[0] = 0
         /\ \A k \in 0..(Len(ws) - 1) : Sums(ws)[k + 1] = Sums(ws)[k] + ws[k + 1]
<1> DEFINE f == Sums(ws)
<1>1. AddsUp(f, ws, Len(ws))
  <2>1. f = CHOOSE g : AddsUp(g, ws, Len(ws))
    BY DEF Sums, AddsUp
  <2> QED BY <2>1, SumsExist
<1> HIDE DEF f
<1>2. f[0] = 0
  BY <1>1 DEF AddsUp
<1>3. ASSUME NEW k \in 0..(Len(ws) - 1)
      PROVE  f[k + 1] = f[k] + ws[k + 1]
  <2>1. k + 1 \in 0..Len(ws) /\ k + 1 # 0 /\ (k + 1) - 1 = k
    OBVIOUS
  <2>2. f[k + 1] = f[(k + 1) - 1] + ws[k + 1]
    BY <1>1, <2>1 DEF AddsUp
  <2> QED BY <2>1, <2>2
<1> QED BY <1>2, <1>3 DEF f

\* The sum of k words is at most k times the largest word.
LEMMA SumsType ==
  ASSUME NEW ws \in Seq(Words)
  PROVE  \A k \in 0..Len(ws) : Sums(ws)[k] \in 0..(k * Mask)
<1> DEFINE f == Sums(ws)
           T == {k \in Nat : f[k] \in 0..(k * Mask)}
<1>1. Mask \in Nat /\ Words \subseteq Nat /\ Words = 0..Mask
  BY WordAtLeastFour DEF Words
<1>2. /\ f[0] = 0
      /\ \A k \in 0..(Len(ws) - 1) : f[k + 1] = f[k] + ws[k + 1]
  <2>1. ws \in Seq(Nat)
    BY <1>1
  <2> QED BY <2>1, SumsDef
<1> HIDE DEF f
<1>3. 0 \in T
  BY <1>1, <1>2
<1>4. ASSUME NEW k \in 0..(Len(ws) - 1), k \in T
      PROVE  k + 1 \in T
  <2>1. ws[k + 1] \in 0..Mask /\ f[k] \in 0..(k * Mask)
    BY <1>1, <1>4
  <2>2. (k + 1) * Mask = k * Mask + Mask /\ k * Mask \in Nat
    BY <1>1
  <2>3. f[k + 1] = f[k] + ws[k + 1]
    BY <1>2
  <2>4. f[k + 1] \in 0..((k + 1) * Mask)
    BY <1>1, <2>1, <2>2, <2>3
  <2> QED BY <2>4
<1>5. \A k \in 0..Len(ws) : k \in T
  <2> HIDE DEF T
  <2>1. Len(ws) \in Nat
    OBVIOUS
  <2> QED BY <1>3, <1>4, <2>1, SetInduction
<1> QED BY <1>5 DEF f

\* One more word adds its value to the sum.
LEMMA SumsAppend ==
  ASSUME NEW ws \in Seq(Words), NEW w \in Words
  PROVE  BufferSum(Append(ws, w), -1) = BufferSum(ws, -1) + w
<1> DEFINE n == Len(ws)
           v == Append(ws, w)
           f == Sums(ws)
           g == Sums(v)
           T == {k \in Nat : f[k] = g[k]}
<1>1. Mask \in Nat /\ Words = 0..Mask /\ Words \subseteq Nat
  BY WordAtLeastFour DEF Words
<1>2. n \in Nat /\ v \in Seq(Words) /\ Len(v) = n + 1 /\ v[n + 1] = w
  OBVIOUS
<1>3. \A k \in 0..(n - 1) : v[k + 1] = ws[k + 1]
  OBVIOUS
<1>4. \A k \in 0..n : f[k] \in 0..(k * Mask)
  BY SumsType
<1>5. \A k \in 0..(n + 1) : g[k] \in 0..(k * Mask)
  <2> HIDE DEF v, n
  <2> QED BY <1>2, SumsType
<1>6. f[0] = 0 /\ \A k \in 0..(n - 1) : f[k + 1] = f[k] + ws[k + 1]
  <2>1. ws \in Seq(Nat)
    BY <1>1
  <2> QED BY <2>1, SumsDef
<1>7. g[0] = 0 /\ \A k \in 0..n : g[k + 1] = g[k] + v[k + 1]
  <2> HIDE DEF v, n
  <2>1. v \in Seq(Nat)
    BY <1>1, <1>2
  <2>2. (n + 1) - 1 = n
    BY <1>2
  <2> QED BY <1>2, <2>1, <2>2, SumsDef
<1>8. /\ BufferSum(ws, -1) = f[n] + 0
      /\ BufferSum(v, -1) = g[n + 1] + 0
  <2>1. BufferSum(v, -1) = g[Len(v)] + 0
    BY DEF BufferSum
  <2> QED BY <1>2, <2>1 DEF BufferSum
<1> HIDE DEF f, g, n, v
<1>9. f[n] \in Nat /\ g[n + 1] \in Nat
  <2>1. n \in 0..n /\ n + 1 \in 0..(n + 1)
    BY <1>2
  <2>2. f[n] \in 0..(n * Mask) /\ g[n + 1] \in 0..((n + 1) * Mask)
    BY <1>4, <1>5, <2>1
  <2> QED BY <2>2
<1>10. f[n] = g[n]
  <2>1. 0 \in T
    BY <1>6, <1>7
  <2>2. ASSUME NEW k \in 0..(n - 1), k \in T
        PROVE  k + 1 \in T
    <3>1. k \in 0..n /\ k + 1 \in Nat
      BY <1>2
    <3>2. f[k + 1] = f[k] + ws[k + 1] /\ g[k + 1] = g[k] + ws[k + 1]
      BY <1>3, <1>6, <1>7, <3>1
    <3> QED BY <2>2, <3>1, <3>2
  <2>3. n \in 0..n
    BY <1>2
  <2>4. n \in T
    <3> HIDE DEF T
    <3> QED BY <1>2, <2>1, <2>2, <2>3, SetInduction
  <2> QED BY <2>4
<1>11. g[n + 1] = g[n] + w
  <2>1. n \in 0..n
    BY <1>2
  <2> QED BY <1>2, <1>7, <2>1
<1>12. BufferSum(v, -1) = BufferSum(ws, -1) + w
  BY <1>1, <1>8, <1>9, <1>10, <1>11
<1> QED BY <1>12 DEF v

-----------------------------------------------------------------------------
(* Words, their bytes and the one's complement sum.                        *)

\* Quotient and remainder are determined by the decomposition.
LEMMA DivisionIs ==
  ASSUME NEW a \in Nat, NEW b \in Nat, NEW q \in Nat, NEW r \in 0..(b - 1),
         a = b * q + r
  PROVE  a \div b = q /\ a % b = r
<1> DEFINE p == a \div b
           m == a % b
<1>1. b > 0 /\ a = r + q * b
  OBVIOUS
<1>2. m = r
  BY <1>1, RemainderIs
<1>3. p \in Nat /\ a = b * p + m
  BY <1>1, Division
<1> HIDE DEF p, m
<1>4. b * p = b * q
  <2>1. b * p \in Nat /\ b * q \in Nat
    BY <1>3
  <2> QED BY <1>2, <1>3, <2>1
<1>5. p = q
  BY <1>1, <1>3, <1>4
<1> QED BY <1>2, <1>5 DEF p, m

\* The two bytes of a word.
LEMMA BytesOf ==
  ASSUME NEW w \in Words
  PROVE  \E h, l \in Bytes : /\ w = Half * h + l
                             /\ w \div Half = h /\ w % Half = l
                             /\ Swap(w) = Half * l + h
<1> DEFINE h == w \div Half
           l == w % Half
<1>1. Half \in Nat /\ Half >= 2 /\ w \in Nat /\ w < Half * Half
  BY WidthAssumption, WordAtLeastFour DEF Words, Mask, Word
<1>2. h \in Nat /\ h < Half /\ l \in 0..(Half - 1) /\ w = Half * h + l
  BY <1>1, Division, WideQuotient
<1>3. Swap(w) = l * Half + h
  BY DEF Swap
<1> HIDE DEF h, l
<1>4. l * Half = Half * l
  BY <1>1, <1>2
<1>5. h \in Bytes /\ l \in Bytes
  BY <1>1, <1>2 DEF Bytes
<1>6. Swap(w) = Half * l + h
  BY <1>3, <1>4
<1> QED BY <1>2, <1>5, <1>6 DEF h, l

\* Two bytes make a word, and swapping exchanges them.
LEMMA WordOf ==
  ASSUME NEW h \in Bytes, NEW l \in Bytes
  PROVE  /\ Half * h + l \in Words
         /\ Swap(Half * h + l) = Half * l + h
         /\ Half * h + l = 0 <=> h = 0 /\ l = 0
<1> DEFINE w == Half * h + l
<1>1. /\ Half \in Nat /\ Half >= 2 /\ h \in Nat /\ l \in Nat
      /\ h <= Half - 1 /\ l \in 0..(Half - 1)
  BY WidthAssumption DEF Bytes
<1>2. Half * h \in Nat /\ Half * l \in Nat /\ Half * l = l * Half
  BY <1>1
<1>3. w \in Nat
  BY <1>1, <1>2
<1>4. w \div Half = h /\ w % Half = l
  BY <1>1, <1>3, DivisionIs
<1>5. Swap(w) = Half * l + h
  BY <1>2, <1>4 DEF Swap
<1>6. Half * h <= Half * Half - Half
  <2>1. Half * h <= Half * (Half - 1)
    BY <1>1
  <2> QED BY <1>1, <2>1
<1>7. w \in Words
  <2>1. Half * Half \in Nat
    BY <1>1
  <2> QED BY <1>1, <1>2, <1>6, <2>1 DEF Words, Mask, Word
<1>8. h # 0 => Half * h > 0
  BY <1>1
<1> QED BY <1>1, <1>2, <1>5, <1>7, <1>8

\* ntohs() undoes what a load does, and a word is zero when its bytes are.
LEMMA SwapTwice ==
  ASSUME NEW w \in Words
  PROVE  Swap(w) \in Words /\ Swap(Swap(w)) = w /\ (Swap(w) = 0 <=> w = 0)
<1>1. PICK h \in Bytes, l \in Bytes : w = Half * h + l /\ Swap(w) = Half * l + h
  BY BytesOf
<1>2. /\ Half * l + h \in Words /\ Swap(Half * l + h) = Half * h + l
      /\ Half * l + h = 0 <=> l = 0 /\ h = 0
  BY WordOf
<1>3. Half * h + l = 0 <=> h = 0 /\ l = 0
  BY WordOf
<1> QED BY <1>1, <1>2, <1>3

\* In one's complement arithmetic a swapped word is the word times Half.
LEMMA SwapShifts ==
  ASSUME NEW w \in Words
  PROVE  \E k \in Nat : Half * w = Swap(w) + k * Mask
<1>1. PICK h \in Bytes, l \in Bytes : w = Half * h + l /\ Swap(w) = Half * l + h
  BY BytesOf
<1>2. Half \in Nat /\ h \in Nat /\ l \in Nat
  BY WidthAssumption DEF Bytes
<1>3. Half * (Half * h + l) = (Half * l + h) + h * (Half * Half - 1)
  BY <1>2
<1> QED BY <1>1, <1>2, <1>3 DEF Mask, Word

\* Complementing commutes with swapping.
LEMMA SwapOfComplement ==
  ASSUME NEW w \in Words
  PROVE  Mask - w \in Words /\ Swap(Mask - w) = Mask - Swap(w)
<1>1. PICK h \in Bytes, l \in Bytes : w = Half * h + l /\ Swap(w) = Half * l + h
  BY BytesOf
<1>2. /\ Half \in Nat /\ Half >= 2 /\ h \in Nat /\ l \in Nat
      /\ h <= Half - 1 /\ l <= Half - 1
  BY WidthAssumption DEF Bytes
<1> DEFINE g == (Half - 1) - h
           m == (Half - 1) - l
<1>3. g \in Bytes /\ m \in Bytes
  BY <1>2 DEF Bytes
<1>4. /\ Half * g + m = (Half * Half - 1) - (Half * h + l)
      /\ Half * m + g = (Half * Half - 1) - (Half * l + h)
  BY <1>2
<1>5. Half * g + m \in Words /\ Swap(Half * g + m) = Half * m + g
  <2> HIDE DEF g, m
  <2> QED BY <1>3, WordOf
<1>6. Half * g + m = Mask - w /\ Half * m + g = Mask - Swap(w)
  BY <1>1, <1>4 DEF Mask, Word
<1> QED BY <1>5, <1>6

\* A word is its own one's complement sum.
LEMMA OnesSumOfWord ==
  ASSUME NEW w \in Words
  PROVE  OnesSum(w) = w
<1>1. Mask \in Nat /\ Mask >= 3 /\ w \in 0..Mask
  BY WordAtLeastFour DEF Words, Mask
<1>2. CASE w = 0
  BY <1>2 DEF OnesSum
<1>3. CASE w # 0
  <2>1. w - 1 \in Nat /\ w - 1 < Mask /\ w - 1 < 2 * Mask
    BY <1>1, <1>3
  <2>2. (w - 1) % Mask = w - 1
    BY <1>1, <2>1, SmallQuotient
  <2> QED BY <1>1, <1>3, <2>2 DEF OnesSum
<1> QED BY <1>2, <1>3

\* Multiples of Mask vanish in a one's complement sum that is not zero.
LEMMA OnesSumOfShifted ==
  ASSUME NEW a \in Nat, NEW b \in Nat, NEW k \in Nat, b > 0, a = b + k * Mask
  PROVE  OnesSum(a) = OnesSum(b)
<1> DEFINE q == (b - 1) \div Mask
           r == (b - 1) % Mask
<1>1. Mask \in Nat /\ Mask > 0 /\ b - 1 \in Nat
  BY WordAtLeastFour DEF Mask
<1>2. q \in Nat /\ r \in 0..(Mask - 1) /\ b - 1 = Mask * q + r
  BY <1>1, Division
<1> HIDE DEF q, r
<1>3. a - 1 = r + (q + k) * Mask /\ a - 1 \in Nat /\ q + k \in Nat
  <2>1. (q + k) * Mask = Mask * q + k * Mask /\ k * Mask \in Nat
        /\ Mask * q \in Nat
    BY <1>1, <1>2
  <2> QED BY <1>1, <1>2, <2>1
<1>4. (a - 1) % Mask = r
  BY <1>1, <1>2, <1>3, RemainderIs
<1>5. a # 0 /\ b # 0
  BY <1>3
<1> QED BY <1>4, <1>5 DEF OnesSum, r

\* The one's complement sum is a word, zero for zero only.
LEMMA OnesSumType ==
  ASSUME NEW s \in Nat
  PROVE  /\ OnesSum(s) \in Words /\ (OnesSum(s) = 0 <=> s = 0)
         /\ \E k \in Nat : s = OnesSum(s) + k * Mask
<1> DEFINE q == (s - 1) \div Mask
           r == (s - 1) % Mask
<1>1. Mask \in Nat /\ Mask > 0
  BY WordAtLeastFour DEF Mask
<1>2. CASE s = 0
  BY <1>1, <1>2 DEF OnesSum, Words
<1>3. CASE s # 0
  <2>1. q \in Nat /\ r \in 0..(Mask - 1) /\ s - 1 = Mask * q + r
    <3>1. s - 1 \in Nat
      BY <1>3
    <3> QED BY <1>1, <3>1, Division
  <2>2. OnesSum(s) = r + 1
    BY <1>3 DEF OnesSum
  <2> HIDE DEF q, r
  <2>3. s = OnesSum(s) + q * Mask
    BY <1>1, <2>1, <2>2
  <2>4. OnesSum(s) \in Words /\ OnesSum(s) # 0
    BY <1>1, <2>1, <2>2 DEF Words
  <2> QED BY <1>3, <2>1, <2>3, <2>4
<1> QED BY <1>2, <1>3

-----------------------------------------------------------------------------
(* What the functions make of the sum.                                     *)

\* Folding keeps the one's complement sum.
LEMMA FoldKeeps ==
  ASSUME NEW s \in 0..(Wide - 1)
  PROVE  OnesSum(Fold(s)) = OnesSum(s)
<1>1. Word \in Nat /\ Word > 0 /\ Mask \in Nat /\ Mask = Word - 1 /\ s \in Nat
  BY WordAtLeastFour DEF Mask, Wide
<1>2. Fold(s) \in Nat
  BY FirstFold
<1>3. CASE Fold(s) = 0
  <2>1. s = 0
    BY <1>1, <1>3, FoldIsZero
  <2> QED BY <1>3, <2>1
<1>4. CASE Fold(s) # 0
  <2> DEFINE q == s \div Word
             r == s % Word
  <2>1. q \in Nat /\ r \in Nat /\ s = Word * q + r /\ Fold(s) = q + r
    BY <1>1, Division DEF Fold
  <2> HIDE DEF q, r
  <2>2. s = Fold(s) + q * Mask
    BY <1>1, <2>1
  <2>3. Fold(s) > 0
    BY <1>2, <1>4
  <2> DEFINE f == Fold(s)
  <2>4. f \in Nat /\ f > 0 /\ s = f + q * Mask
    BY <1>2, <2>2, <2>3
  <2> HIDE DEF f
  <2>5. OnesSum(s) = OnesSum(f)
    BY <1>1, <2>1, <2>4, OnesSumOfShifted
  <2> QED BY <2>5 DEF f
<1> QED BY <1>3, <1>4

\* One fold is the checksum's complement exactly when it does not carry.
LEMMA UdpOfSum ==
  ASSUME NEW s \in 0..(Wide - 1)
  PROVE  UdpResult(s) = Mask - OnesSum(s) <=> Fold(s) < Word
<1> DEFINE f == Fold(s)
<1>1. Word \in Nat /\ Word >= 4 /\ Mask = Word - 1 /\ s \in Nat
  BY WordAtLeastFour DEF Mask, Wide
<1>2. f \in Nat /\ f < 2 * Word
  BY <1>1, FirstFold
<1>3. \/ f < Word /\ f \div Word = 0 /\ f % Word = f
      \/ f >= Word /\ f \div Word = 1 /\ f % Word = f - Word
  BY <1>1, <1>2, SmallQuotient
<1>4. OnesSum(s) = (f \div Word) + (f % Word)
  <2>1. OnesSum(s) = Fold(f)
    BY TwoFoldsAreOnesSum
  <2> QED BY <2>1 DEF Fold
<1>5. UdpResult(s) = Mask - (f % Word)
  BY DEF UdpResult, Complement
<1> HIDE DEF f
<1> QED BY <1>1, <1>2, <1>3, <1>4, <1>5 DEF f

\* Adding the carry of the first fold is the checksum's complement always.
LEMMA IcmpOfSum ==
  ASSUME NEW s \in 0..(Wide - 1)
  PROVE  IcmpResult(s) = Mask - OnesSum(s)
<1> DEFINE f == Fold(s)
           q == f \div Word
<1>1. Word \in Nat /\ Word >= 4 /\ Mask = Word - 1 /\ s \in Nat
  BY WordAtLeastFour DEF Mask, Wide
<1>2. f \in Nat /\ f <= 2 * Word - 2
  BY <1>1, FirstFold
<1>3. \/ f < Word /\ f \div Word = 0 /\ f % Word = f
      \/ f >= Word /\ f \div Word = 1 /\ f % Word = f - Word
  BY <1>1, <1>2, SmallQuotient
<1>4. OnesSum(s) = (f \div Word) + (f % Word)
  <2>1. OnesSum(s) = Fold(f)
    BY TwoFoldsAreOnesSum
  <2> QED BY <2>1 DEF Fold
<1>5. IcmpResult(s) = Mask - ((f + q) % Word)
  BY DEF IcmpResult, Complement
<1> HIDE DEF f
<1>6. q \in 0..1 /\ OnesSum(s) = q + (f % Word)
  BY <1>3, <1>4
<1>7. (f + q) % Word = q + (f % Word)
  <2>1. CASE f < Word /\ q = 0
    BY <1>2, <1>3, <2>1, <1>1
  <2>2. CASE f >= Word /\ q = 1
    <3>1. f + 1 \in Nat /\ f + 1 < 2 * Word /\ f + 1 >= Word
      BY <1>1, <1>2, <2>2
    <3>2. (f + 1) % Word = (f + 1) - Word
      BY <1>1, <3>1, SmallQuotient
    <3>3. f % Word = f - Word
      BY <1>1, <1>3, <2>2
    <3> QED BY <1>1, <1>2, <2>2, <3>2, <3>3
  <2> HIDE DEF q
  <2> QED BY <1>3, <2>1, <2>2 DEF q
<1> QED BY <1>5, <1>6, <1>7

-----------------------------------------------------------------------------
(* The loops.                                                              *)

\* What the loop has read of the buffer, added up as RFC 1071 does.
Loaded ==
  IF next <= Len(words) THEN Sums(words)[next] ELSE BufferSum(words, tail)

\* What is returned for the sum.
ResultOf(s) ==
  CASE algorithm = "udp" -> UdpResult(s)
    [] algorithm = "icmp" -> IcmpResult(s)
    [] algorithm = "first" -> FirstResult(s)

\* The accumulator against the buffer: it has not wrapped around;
\* compute_udp_checksum holds the sum itself; compute_icmp_checksum the sum
\* shifted by a byte, which swapping the result takes back; checksumCalc a
\* number with the same one's complement sum.
SumInv ==
  /\ Len(words) <= MaxWords
  /\ next <= Len(words) => sum <= next * Mask
  /\ algorithm = "udp" => sum = Loaded
  /\ algorithm = "icmp" => /\ \E k \in Nat : Half * Loaded = sum + k * Mask
                           /\ sum = 0 => Loaded = 0
  /\ algorithm = "first" => /\ OnesSum(sum) = OnesSum(Loaded)
                            /\ next <= Len(words) => sum = Loaded
  /\ result # -1 => /\ next = Len(words) + 1
                    /\ algorithm = "first" => sum < Word
                    /\ result = ResultOf(sum)

\* A buffer of allowed length is added up without wrapping around.
LEMMA NoWrap ==
  ASSUME NEW n \in 0..MaxWords, NEW s \in Nat, s <= n * Mask, NEW a \in Words
  PROVE  /\ s + a <= (n + 1) * Mask /\ s + a \in 0..(Wide - 1)
         /\ (s + a) % Wide = s + a
<1>1. /\ Word \in Nat /\ Word >= 4 /\ Mask \in Nat /\ Mask = Word - 1
      /\ Wide = Word * Word /\ Wide \in Nat /\ a \in Nat /\ a <= Mask
  BY WordAtLeastFour DEF Mask, Wide, Words
<1>2. n \in Nat /\ n <= Word
  BY WidthAssumption DEF Word
<1>3. (n + 1) * Mask = n * Mask + Mask /\ n * Mask \in Nat
  BY <1>1, <1>2
<1>4. n * Mask <= Word * Mask
  BY <1>1, <1>2
<1>5. Word * Mask + Mask = Wide - 1
  BY <1>1
<1>6. s + a \in 0..(Wide - 1)
  BY <1>1, <1>3, <1>4, <1>5
<1>7. (s + a) % Wide = s + a
  <2>1. s + a = (s + a) + 0 * Wide /\ s + a \in Nat
    BY <1>1, <1>6
  <2> QED BY <1>1, <1>6, <2>1, RemainderIs
<1> QED BY <1>1, <1>3, <1>6, <1>7

\* What each function adds for a word.
LEMMA AddendIs ==
  ASSUME TypeOK, NEW w \in Words
  PROVE  /\ algorithm \in {"udp", "first"} => Addend(w) = w
         /\ algorithm = "icmp" => Addend(w) = Swap(w)
         /\ Addend(w) \in Words
<1>1. algorithm \in {"udp", "icmp", "first"}
  BY DEF TypeOK
<1>2. Swap(w) \in Words /\ Swap(Swap(w)) = w
  BY SwapTwice
<1> QED BY <1>1, <1>2 DEF Addend

\* What each function adds for the odd byte.
LEMMA TailAddendIs ==
  ASSUME TypeOK, NEW b \in Bytes
  PROVE  /\ algorithm \in {"udp", "first"} => TailAddend(b) = b * Half
         /\ algorithm = "icmp" => TailAddend(b) = b
         /\ TailAddend(b) \in Words /\ b \in Words /\ b * Half \in Words
         /\ b * Half = 0 <=> b = 0
<1>1. algorithm \in {"udp", "icmp", "first"}
  BY DEF TypeOK
<1>2. Half \in Nat /\ b \in Nat /\ 0 \in Bytes
  BY WidthAssumption DEF Bytes
<1>3. Half * 0 + b \in Words /\ Swap(Half * 0 + b) = Half * b + 0
  BY <1>2, WordOf
<1>4. Half * b + 0 \in Words /\ (Half * b + 0 = 0 <=> b = 0 /\ 0 = 0)
  BY <1>2, WordOf
<1>5. Half * 0 + b = b /\ Half * b + 0 = b * Half /\ b * Half \in Nat
  BY <1>2
<1>6. b \in Words /\ Swap(b) = b * Half /\ b * Half \in Words
  BY <1>3, <1>4, <1>5
<1> QED BY <1>1, <1>4, <1>5, <1>6 DEF TailAddend

\* Init establishes the invariant: nothing is loaded.
LEMMA SumInit == Init => SumInv
<1> SUFFICES ASSUME Init PROVE SumInv
  OBVIOUS
<1>1. PICK n \in 0..MaxWords : words \in [1..n -> Words]
  BY DEF Init
<1>2. Len(words) = n /\ words \in Seq(Words) /\ n \in Nat /\ n <= MaxWords
  BY <1>1, WidthAssumption
<1>3. sum = 0 /\ next = 0 /\ result = -1
  BY DEF Init
<1>4. Loaded = 0
  <2>1. Words \subseteq Nat /\ Mask \in Nat /\ Words = 0..Mask
    BY WordAtLeastFour DEF Words
  <2>2. words \in Seq(Nat)
    BY <1>2, <2>1
  <2>3. Sums(words)[0] = 0
    BY <2>2, SumsDef
  <2> QED BY <1>2, <1>3, <2>3 DEF Loaded
<1>5. sum <= next * Mask
  BY <1>3, WordAtLeastFour
<1>6. \E k \in Nat : Half * Loaded = sum + k * Mask
  <2>1. Half * 0 = 0 + 0 * Mask
    BY WidthAssumption, WordAtLeastFour
  <2> QED BY <1>3, <1>4, <2>1
<1> QED BY <1>2, <1>3, <1>4, <1>5, <1>6 DEF SumInv

\* An iteration loads a word and adds it.
LEMMA SumAddWord == TypeOK /\ SumInv /\ AddWord => SumInv'
<1> SUFFICES ASSUME TypeOK, SumInv, AddWord PROVE SumInv'
  OBVIOUS
<1> DEFINE n == next
           w == words[next + 1]
           f == Sums(words)
<1>1. /\ Mask \in Nat /\ Mask > 0 /\ Words = 0..Mask /\ Half \in Nat
      /\ Half > 0
  BY WordAtLeastFour, WidthAssumption DEF Words, Mask
<1>2. /\ words \in Seq(Words) /\ Len(words) \in Nat /\ n \in 0..(Len(words) - 1)
      /\ n \in 0..MaxWords /\ sum \in Nat /\ sum <= n * Mask
      /\ result = -1 /\ Len(words) <= MaxWords
      /\ algorithm \in {"udp", "icmp", "first"}
  BY WidthAssumption DEF TypeOK, SumInv, AddWord
<1>3. w \in Words
  BY <1>2
<1>4. /\ next' = n + 1 /\ words' = words /\ algorithm' = algorithm
      /\ result' = result /\ tail' = tail
  BY DEF AddWord
<1>5. f[n] \in Nat /\ f[n + 1] = f[n] + w
  <2>1. words \in Seq(Nat)
    BY <1>1, <1>2
  <2>2. f[n] \in 0..(n * Mask)
    BY <1>2, SumsType
  <2> HIDE DEF f
  <2> QED BY <1>2, <2>1, <2>2, SumsDef DEF f
<1>6. Loaded = f[n] /\ Loaded' = f[n + 1]
  <2>1. Sums(words') = Sums(words)
    BY <1>4
  <2>2. n + 1 <= Len(words)
    BY <1>2
  <2> QED BY <1>2, <1>4, <2>1, <2>2 DEF Loaded
<1> HIDE DEF f, n, w
<1>7. /\ Addend(w) \in Words
      /\ algorithm \in {"udp", "first"} => Addend(w) = w
      /\ algorithm = "icmp" => Addend(w) = Swap(w)
  BY <1>3, AddendIs
<1>8. sum' = sum + Addend(w) /\ sum' <= (n + 1) * Mask
  <2>1. sum' = (sum + Addend(w)) % Wide
    BY DEF AddWord, n, w
  <2> QED BY <1>2, <1>7, <2>1, NoWrap
<1>9. algorithm = "icmp" => /\ \E k \in Nat : Half * Loaded' = sum' + k * Mask
                            /\ sum' = 0 => Loaded' = 0
  <2> HAVE algorithm = "icmp"
  <2>1. PICK k \in Nat : Half * f[n] = sum + k * Mask
    BY <1>6 DEF SumInv
  <2>2. PICK j \in Nat : Half * w = Swap(w) + j * Mask
    BY <1>3, SwapShifts
  <2>3. Swap(w) \in Words /\ (Swap(w) = 0 <=> w = 0)
    BY <1>3, SwapTwice
  <2>4. sum' = sum + Swap(w) /\ Swap(w) \in Nat /\ w \in Nat
    BY <1>1, <1>3, <1>7, <1>8, <2>3
  <2>5. Half * (f[n] + w) = Half * f[n] + Half * w
    BY <1>1, <1>5, <2>4
  <2>6. (k + j) * Mask = k * Mask + j * Mask /\ k + j \in Nat
        /\ k * Mask \in Nat /\ j * Mask \in Nat
    BY <1>1
  <2>7. Half * Loaded' = sum' + (k + j) * Mask
    BY <1>2, <1>5, <1>6, <2>1, <2>2, <2>4, <2>5, <2>6
  <2>8. sum' = 0 => Loaded' = 0
    BY <1>2, <1>5, <1>6, <2>3, <2>4 DEF SumInv
  <2> QED BY <2>6, <2>7, <2>8
<1>10. algorithm \in {"udp", "first"} => sum' = Loaded'
  <2> HAVE algorithm \in {"udp", "first"}
  <2>1. sum = Loaded
    BY <1>2 DEF SumInv, n
  <2> QED BY <1>5, <1>6, <1>7, <1>8, <2>1
<1> QED BY <1>2, <1>4, <1>8, <1>9, <1>10 DEF SumInv, n

\* The odd byte stands in the upper half of a word.
LEMMA SumAddTail == TypeOK /\ SumInv /\ AddTail => SumInv'
<1> SUFFICES ASSUME TypeOK, SumInv, AddTail PROVE SumInv'
  OBVIOUS
<1> DEFINE n == Len(words)
           f == Sums(words)
           a == IF tail = -1 THEN 0 ELSE TailAddend(tail)
           p == IF tail = -1 THEN 0 ELSE tail * Half
<1>1. /\ Mask \in Nat /\ Mask > 0 /\ Words = 0..Mask /\ Half \in Nat
      /\ Half > 0
  BY WordAtLeastFour, WidthAssumption DEF Words, Mask
<1>2. /\ words \in Seq(Words) /\ n \in 0..MaxWords /\ next = n /\ n \in Nat
      /\ sum \in Nat /\ sum <= n * Mask /\ result = -1 /\ n <= MaxWords
      /\ algorithm \in {"udp", "icmp", "first"}
      /\ tail \in Bytes \cup {-1}
  BY WidthAssumption DEF TypeOK, SumInv, AddTail
<1>3. /\ next' = n + 1 /\ words' = words /\ algorithm' = algorithm
      /\ result' = result /\ tail' = tail
  BY <1>2 DEF AddTail
<1>4. f[n] \in Nat
  <2>1. f[n] \in 0..(n * Mask)
    BY <1>2, SumsType
  <2> QED BY <2>1
<1>5. Loaded = f[n] /\ Loaded' = f[n] + p
  <2>1. BufferSum(words', tail') = BufferSum(words, tail)
    BY <1>3
  <2>2. BufferSum(words, tail) = f[n] + p
    BY DEF BufferSum
  <2>3. Len(words') = n /\ ~ (n + 1 <= n)
    BY <1>2, <1>3
  <2>4. Loaded' = BufferSum(words', tail')
    BY <1>3, <2>3 DEF Loaded
  <2>5. Loaded = f[n]
    BY <1>2 DEF Loaded
  <2> QED BY <2>1, <2>2, <2>4, <2>5
<1>6. /\ a \in Words /\ p \in Words /\ (a = 0 <=> p = 0)
      /\ algorithm \in {"udp", "first"} => a = p
      /\ algorithm = "icmp" => p = a * Half
  <2>1. CASE tail = -1
    BY <1>1, <2>1
  <2>2. CASE tail # -1
    <3>1. tail \in Bytes /\ a = TailAddend(tail) /\ p = tail * Half
      BY <1>2, <2>2
    <3>2. /\ algorithm \in {"udp", "first"} => a = tail * Half
          /\ algorithm = "icmp" => a = tail
          /\ a \in Words /\ tail * Half \in Words
          /\ tail * Half = 0 <=> tail = 0
      BY <3>1, TailAddendIs
    <3> HIDE DEF a, p
    <3> QED BY <1>2, <3>1, <3>2
  <2> QED BY <2>1, <2>2
<1>7. sum' = (sum + a) % Wide
  BY DEF AddTail
<1> HIDE DEF f, n, a, p
<1>8. sum' = sum + a
  BY <1>2, <1>6, <1>7, NoWrap
<1>9. algorithm = "icmp" => /\ \E k \in Nat : Half * Loaded' = sum' + k * Mask
                            /\ sum' = 0 => Loaded' = 0
  <2> HAVE algorithm = "icmp"
  <2>1. PICK k \in Nat : Half * f[n] = sum + k * Mask
    BY <1>5 DEF SumInv
  <2>2. a \in Nat /\ p \in Nat /\ p = a * Half
    BY <1>1, <1>6
  <2>3. Half * (f[n] + p) = Half * f[n] + Half * (a * Half)
    BY <1>1, <1>4, <2>2
  <2>4. Half * (a * Half) = a + a * Mask
    BY <1>1, <2>2 DEF Mask, Word
  <2>5. (k + a) * Mask = k * Mask + a * Mask /\ k + a \in Nat
        /\ k * Mask \in Nat /\ a * Mask \in Nat
    BY <1>1, <2>2
  <2>6. Half * Loaded' = sum' + (k + a) * Mask
    BY <1>2, <1>4, <1>5, <1>8, <2>1, <2>2, <2>3, <2>4, <2>5
  <2>7. sum' = 0 => Loaded' = 0
    BY <1>2, <1>4, <1>5, <1>6, <1>8, <2>2 DEF SumInv
  <2> QED BY <2>5, <2>6, <2>7
<1>10. algorithm \in {"udp", "first"} => sum' = Loaded'
  <2> HAVE algorithm \in {"udp", "first"}
  <2>1. sum = Loaded
    BY <1>2 DEF SumInv, n
  <2> QED BY <1>4, <1>5, <1>6, <1>8, <2>1
<1>11. Len(words') = n /\ ~ (next' <= Len(words'))
  BY <1>2, <1>3 DEF n
<1> QED BY <1>2, <1>3, <1>9, <1>10, <1>11 DEF SumInv

\* Folding in place, checksumCalc keeps the one's complement sum.
LEMMA SumFoldCarry == TypeOK /\ SumInv /\ FoldCarry => SumInv'
<1> SUFFICES ASSUME TypeOK, SumInv, FoldCarry PROVE SumInv'
  OBVIOUS
<1>1. /\ next = Len(words) + 1 /\ Len(words) \in Nat /\ result = -1
      /\ algorithm = "first" /\ sum \in 0..(Wide - 1)
  BY DEF TypeOK, FoldCarry, Added
<1>2. /\ sum' = Fold(sum) /\ words' = words /\ next' = next /\ tail' = tail
      /\ algorithm' = algorithm /\ result' = result
  BY DEF FoldCarry
<1>3. Loaded' = Loaded
  BY <1>2 DEF Loaded
<1>4. OnesSum(sum') = OnesSum(Loaded')
  <2>1. OnesSum(sum') = OnesSum(sum)
    BY <1>1, <1>2, FoldKeeps
  <2>2. OnesSum(sum) = OnesSum(Loaded)
    BY <1>1 DEF SumInv
  <2> QED BY <1>3, <2>1, <2>2
<1>5. Len(words') = Len(words) /\ ~ (next' <= Len(words'))
  BY <1>1, <1>2
<1> QED BY <1>1, <1>2, <1>4, <1>5 DEF SumInv

\* The result is what the function makes of the sum.
LEMMA SumReturn == TypeOK /\ SumInv /\ Return => SumInv'
<1> SUFFICES ASSUME TypeOK, SumInv, Return PROVE SumInv'
  OBVIOUS
<1>1. /\ sum' = sum /\ words' = words /\ next' = next /\ tail' = tail
      /\ algorithm' = algorithm
  BY DEF Return
<1>2. Loaded' = Loaded
  BY <1>1 DEF Loaded
<1>3. result' = ResultOf(sum)
  BY DEF Return, ResultOf
<1>4. ResultOf(sum') = ResultOf(sum)
  BY <1>1
<1>5. /\ next = Len(words) + 1
      /\ algorithm = "first" => sum < Word
  BY DEF Return, Added
<1> QED BY <1>1, <1>2, <1>3, <1>5 DEF SumInv, ResultOf

\* The accumulator agrees with the buffer, whatever the loops have done.
LEMMA SumAgrees == Spec => [](TypeOK /\ SumInv)
<1>1. SumInv /\ UNCHANGED vars => SumInv'
  BY DEF SumInv, Loaded, ResultOf, vars
<1>2. TypeOK /\ SumInv /\ [Next]_vars => SumInv'
  BY <1>1, SumAddWord, SumAddTail, SumFoldCarry, SumReturn DEF Next
<1> QED BY <1>2, SumInit, TypeCorrect, PTL DEF Spec

-----------------------------------------------------------------------------
(* The results against RFC 1071.                                           *)

\* What a buffer adds up to, once the function has returned.
LEMMA Returned ==
  ASSUME TypeOK, SumInv, result # -1
  PROVE  /\ Loaded = BufferSum(words, tail) /\ Loaded \in Nat
         /\ result = ResultOf(sum) /\ sum \in 0..(Wide - 1)
<1>1. /\ next = Len(words) + 1 /\ result = ResultOf(sum) /\ Len(words) \in Nat
      /\ words \in Seq(Words) /\ sum \in 0..(Wide - 1)
      /\ tail \in Bytes \cup {-1}
  BY DEF SumInv, TypeOK
<1>2. Loaded = BufferSum(words, tail)
  BY <1>1 DEF Loaded
<1>3. Sums(words)[Len(words)] \in Nat
  <2>1. Sums(words)[Len(words)] \in 0..(Len(words) * Mask)
    BY <1>1, SumsType
  <2> QED BY <2>1
<1>4. (IF tail = -1 THEN 0 ELSE tail * Half) \in Nat
  BY <1>1, WidthAssumption DEF Bytes
<1>5. BufferSum(words, tail) \in Nat
  BY <1>3, <1>4 DEF BufferSum
<1> QED BY <1>1, <1>2, <1>5

\* What compute_icmp_checksum's result is, given the sum of the words.
LEMMA IcmpResultIs ==
  ASSUME TypeOK, SumInv, algorithm = "icmp", result # -1
  PROVE  Swap(result) = InternetChecksum(words, tail)
<1> DEFINE A == Loaded
           x == OnesSum(sum)
           y == OnesSum(A)
<1>1. /\ Half \in Nat /\ Half > 0 /\ Mask \in Nat /\ Mask > 0
      /\ Words = 0..Mask
  BY WidthAssumption, WordAtLeastFour DEF Mask, Words
<1>2. /\ A \in Nat /\ sum \in Nat /\ sum \in 0..(Wide - 1)
      /\ InternetChecksum(words, tail) = Mask - y
  BY Returned DEF InternetChecksum
<1>3. result = Mask - x
  <2>1. result = IcmpResult(sum)
    BY Returned DEF ResultOf
  <2> QED BY <1>2, <2>1, IcmpOfSum
<1>4. /\ x \in Words /\ (x = 0 <=> sum = 0)
      /\ y \in Words /\ (y = 0 <=> A = 0)
  BY <1>2, OnesSumType
<1>5. Swap(x) \in Words /\ (Swap(x) = 0 <=> x = 0)
  BY <1>4, SwapTwice
<1>6. Swap(result) = Mask - Swap(x)
  BY <1>3, <1>4, SwapOfComplement
<1>7. PICK k \in Nat : Half * A = sum + k * Mask
  BY DEF SumInv
<1>8. sum = 0 => A = 0
  BY DEF SumInv
<1>9. PICK i1 \in Nat : sum = x + i1 * Mask
  BY <1>2, OnesSumType
<1>10. PICK i2 \in Nat : Half * x = Swap(x) + i2 * Mask
  BY <1>4, SwapShifts
<1> HIDE DEF A, x, y
<1>11. CASE A = 0
  <2>1. sum = 0
    <3>1. k * Mask \in Nat /\ Half * A = 0
      BY <1>1, <1>11
    <3> QED BY <1>2, <1>7, <3>1
  <2> QED BY <1>2, <1>4, <1>5, <1>6, <1>11, <2>1
<1>12. CASE A # 0
  <2>1. x # 0 /\ Swap(x) \in 1..Mask
    BY <1>1, <1>2, <1>4, <1>5, <1>8, <1>12
  <2> DEFINE j == (Half * (k + i1) + i2) - A
             z == Swap(x)
  <2>2. z \in 1..Mask /\ x \in Nat /\ j \in Int
    BY <1>1, <1>2, <1>4, <2>1
  <2>3. A = z + j * Mask
    <3>1. Half * (Half * A) = A + A * Mask
      BY <1>1, <1>2 DEF Mask, Word
    <3>2. Half * A = x + (k + i1) * Mask
      BY <1>1, <1>2, <1>7, <1>9, <2>2
    <3>3. Half * (x + (k + i1) * Mask) = Half * x + (Half * (k + i1)) * Mask
      BY <1>1, <2>2
    <3>4. A + A * Mask = z + i2 * Mask + (Half * (k + i1)) * Mask
      BY <1>1, <1>10, <2>2, <3>1, <3>2, <3>3
    <3> HIDE DEF z
    <3>5. j * Mask = (Half * (k + i1)) * Mask + i2 * Mask - A * Mask
      BY <1>1, <1>2
    <3>6. /\ i2 * Mask \in Nat /\ (Half * (k + i1)) * Mask \in Nat
          /\ A * Mask \in Nat
      BY <1>1, <1>2
    <3> HIDE DEF j
    <3> QED BY <1>1, <1>2, <2>2, <3>4, <3>5, <3>6
  <2> HIDE DEF j, z
  <2>4. j \in Nat
    <3>1. CASE j < 0
      <4>1. j * Mask <= (-1) * Mask
        BY <1>1, <2>2, <3>1
      <4>2. A <= 0
        BY <1>1, <1>2, <2>2, <2>3, <4>1
      <4> QED BY <1>2, <1>12, <4>2
    <3> QED BY <2>2, <3>1
  <2>5. OnesSum(A) = OnesSum(z)
    BY <1>1, <1>2, <2>2, <2>3, <2>4, OnesSumOfShifted
  <2>6. OnesSum(z) = z
    BY <1>1, <2>2, OnesSumOfWord
  <2> QED BY <1>2, <1>6, <2>5, <2>6 DEF y, z
<1> QED BY <1>11, <1>12

\* compute_icmp_checksum adds the words in the byte order of the host, and its
\* result, stored as it is, is the Internet checksum of every buffer.
THEOREM IcmpChecksum == Spec => []IcmpIsChecksum
<1>1. TypeOK /\ SumInv => IcmpIsChecksum
  BY IcmpResultIs DEF IcmpIsChecksum
<1> QED BY <1>1, SumAgrees, PTL

\* What compute_udp_checksum's result is, given the sum of the words.
LEMMA UdpResultIs ==
  ASSUME TypeOK, SumInv, algorithm = "udp", result # -1
  PROVE  result = InternetChecksum(words, tail) <=> Fold(sum) < Word
<1>1. result = UdpResult(sum) /\ sum \in 0..(Wide - 1)
  BY Returned DEF ResultOf
<1>2. sum = BufferSum(words, tail)
  BY Returned DEF SumInv
<1> QED BY <1>1, <1>2, UdpOfSum DEF InternetChecksum

\* compute_udp_checksum folds once: for every buffer it returns the Internet
\* checksum if that fold does not carry, and only then.
THEOREM UdpChecksum == Spec => []UdpIsChecksumUnlessCarry
<1>1. TypeOK /\ SumInv => UdpIsChecksumUnlessCarry
  BY UdpResultIs DEF UdpIsChecksumUnlessCarry
<1> QED BY <1>1, SumAgrees, PTL

\* What checksumCalc's result is, given the sum of the words.
LEMMA FirstResultIs ==
  ASSUME TypeOK, SumInv, algorithm = "first", result # -1
  PROVE  result = IF InternetChecksum(words, tail) = 0
                  THEN Mask ELSE InternetChecksum(words, tail)
<1>1. Word \in Nat /\ Word >= 4 /\ Mask = Word - 1
  BY WordAtLeastFour DEF Mask
<1>2. result = FirstResult(sum) /\ sum \in Nat /\ sum < Word
  BY <1>1, Returned DEF ResultOf, SumInv
<1>3. sum % Word = sum
  BY <1>1, <1>2, SmallQuotient
<1>4. InternetChecksum(words, tail) = Mask - sum
  <2>1. OnesSum(sum) = OnesSum(BufferSum(words, tail))
    BY Returned DEF SumInv
  <2>2. sum \in Words
    BY <1>1, <1>2 DEF Words
  <2> QED BY <2>1, <2>2, OnesSumOfWord DEF InternetChecksum
<1> QED BY <1>2, <1>3, <1>4 DEF FirstResult, Complement

\* checksumCalc returns the checksum a UDP datagram carries for every buffer:
\* the Internet checksum, all ones in place of zero.
THEOREM FirstChecksum == Spec => []FirstIsUdpChecksum
<1>1. TypeOK /\ SumInv => FirstIsUdpChecksum
  BY FirstResultIs DEF FirstIsUdpChecksum
<1> QED BY <1>1, SumAgrees, PTL

-----------------------------------------------------------------------------
(* The search for the data bytes.                                          *)

\* The search leaves the function alone, which has returned before it begins.
THEOREM SearchUsesChecksum == SearchSpec => Spec
<1>1. SearchInit => Init
  BY DEF SearchInit
<1>2. [SearchNext]_<<vars, search>> => [Next]_vars
  <2>1. Search => UNCHANGED vars
    BY DEF Search, Begin, Mismatch, Match, NoMatch
  <2> QED BY <2>1 DEF SearchNext
<1> QED BY <1>1, <1>2, PTL DEF SearchSpec, Spec

\* Where the search stands: no value before i gave the requested checksum, and
\* the packet is sent with the value that did or after the last one.
SearchInv ==
  /\ requested \in Words \cup {-1}
  /\ i \in 0..Word
  /\ sent \in BOOLEAN
  /\ requested = -1 => ~ sent /\ i = 0
  /\ requested # -1 =>
       /\ algorithm = "udp" /\ tail = -1 /\ result # -1
       /\ \A j \in 0..(i - 1) : Calculated(j) # requested
  /\ ~ sent => check = 0
  /\ sent => \/ /\ check = requested
                /\ \E j \in 0..(Word - 1) : j = i /\ Calculated(j) = requested
             \/ i = Word /\ check = 0

\* The calculation reads nothing the search writes.
LEMMA SearchStep == SearchInv /\ [SearchNext]_<<vars, search>> => SearchInv'
<1> SUFFICES ASSUME SearchInv, [SearchNext]_<<vars, search>>
             PROVE  SearchInv'
  OBVIOUS
<1>1. Word \in Nat /\ 0 \in Words
  BY WordAtLeastFour DEF Words
<1>2. CASE Next /\ UNCHANGED search
  <2>1. CASE requested = -1
    BY <1>2, <2>1 DEF SearchInv, search
  <2>2. CASE requested # -1
    <3>1. FALSE
      BY <1>2, <2>2 DEF SearchInv, Next, AddWord, AddTail, FoldCarry, Return,
                        Added
    <3> QED BY <3>1
  <2> QED BY <2>1, <2>2
<1>3. ASSUME UNCHANGED vars
      PROVE  \A j : Calculated(j)' = Calculated(j)
  BY <1>3 DEF vars, Calculated, Addend
<1>4. CASE Begin
  <2>1. i' = 0 /\ requested' \in Words /\ sent' = sent /\ check' = check
        /\ algorithm' = algorithm /\ tail' = tail /\ result' = result /\ ~ sent
        /\ algorithm = "udp" /\ tail = -1 /\ result # -1
    BY <1>4 DEF SearchInv, Begin, vars
  <2>2. \A j \in 0..(i' - 1) : Calculated(j)' # requested'
    BY <2>1
  <2>3. requested' # -1
    BY <1>1, <2>1, WordAtLeastFour DEF Words
  <2> QED BY <1>1, <2>1, <2>2, <2>3 DEF SearchInv
<1>5. CASE Mismatch
  <2>1. /\ UNCHANGED vars /\ requested' = requested /\ check' = check
        /\ sent' = sent /\ i' = i + 1 /\ i \in 0..(Word - 1) /\ ~ sent
        /\ requested # -1 /\ Calculated(i) # requested
    BY <1>1, <1>5 DEF SearchInv, Mismatch, Searching, SearchEnd
  <2>2. ASSUME NEW j \in 0..(i' - 1)
        PROVE  Calculated(j)' # requested'
    <3>1. j \in 0..(i - 1) \/ j = i
      BY <2>1
    <3>2. Calculated(j) # requested
      BY <2>1, <3>1 DEF SearchInv
    <3> QED BY <1>3, <2>1, <3>2
  <2> QED BY <1>1, <2>1, <2>2 DEF SearchInv, vars
<1>6. CASE Match
  <2>1. /\ UNCHANGED vars /\ requested' = requested /\ i' = i /\ sent' = TRUE
        /\ check' = requested /\ i \in 0..(Word - 1) /\ requested # -1
        /\ Calculated(i) = requested
    BY <1>1, <1>6 DEF Match, Searching, SearchEnd, SearchInv
  <2>2. \A j \in 0..(i' - 1) : Calculated(j)' # requested'
    BY <1>3, <2>1 DEF SearchInv
  <2>3. PICK j \in 0..(Word - 1) : j = i /\ Calculated(j) = requested
    BY <2>1
  <2>4. j = i' /\ Calculated(j)' = requested'
    BY <1>3, <2>1, <2>3
  <2> QED BY <2>1, <2>2, <2>4 DEF SearchInv, vars
<1>7. CASE NoMatch
  <2>1. /\ UNCHANGED vars /\ requested' = requested /\ i' = i /\ sent' = TRUE
        /\ check' = check /\ i = Word /\ requested # -1 /\ check = 0
    BY <1>7 DEF NoMatch, Searching, SearchEnd, SearchInv
  <2>2. \A j \in 0..(i' - 1) : Calculated(j)' # requested'
    BY <1>3, <2>1 DEF SearchInv
  <2> QED BY <2>1, <2>2 DEF SearchInv, vars
<1>8. CASE UNCHANGED <<vars, search>>
  <2>1. UNCHANGED vars /\ UNCHANGED search
    BY <1>8
  <2>2. \A j : Calculated(j)' = Calculated(j)
    BY <1>3, <2>1
  <2> QED BY <2>1, <2>2 DEF SearchInv, vars, search
<1> QED BY <1>2, <1>4, <1>5, <1>6, <1>7, <1>8 DEF SearchNext, Search

\* A value adds its bytes, swapped, to the sum of the fixed words.
LEMMA CalculatedIs ==
  ASSUME TypeOK, SumInv, algorithm = "udp", tail = -1, result # -1
  PROVE  /\ sum = BufferSum(words, -1) /\ sum \in Nat /\ sum <= Word * Mask
         /\ \A w \in Words : sum + w \in 0..(Wide - 1)
         /\ \A w \in Words : Calculated(Swap(w)) = UdpResult(sum + w)
<1>1. /\ Len(words) \in 0..MaxWords /\ words \in Seq(Words)
      /\ sum = BufferSum(words, -1)
  BY Returned, WidthAssumption DEF SumInv, TypeOK
<1>2. sum = Sums(words)[Len(words)] /\ sum \in Nat /\ sum <= Len(words) * Mask
  <2>1. Sums(words)[Len(words)] \in 0..(Len(words) * Mask)
    BY <1>1, SumsType
  <2>2. sum = Sums(words)[Len(words)] + 0
    BY <1>1 DEF BufferSum
  <2> QED BY <2>1, <2>2
<1>3. sum <= Word * Mask
  <2>1. Len(words) \in Nat /\ Len(words) <= Word /\ Word \in Nat /\ Mask \in Nat
    BY <1>1, WidthAssumption, WordAtLeastFour DEF Word
  <2>2. Len(words) * Mask <= Word * Mask
    BY <2>1
  <2>3. Len(words) * Mask \in Nat /\ Word * Mask \in Nat
    BY <2>1
  <2> QED BY <1>2, <2>2, <2>3
<1>4. ASSUME NEW w \in Words
      PROVE  sum + w \in 0..(Wide - 1) /\ (sum + w) % Wide = sum + w
  BY <1>1, <1>2, NoWrap
<1>5. ASSUME NEW w \in Words
      PROVE  Calculated(Swap(w)) = UdpResult(sum + w)
  <2>1. Swap(Swap(w)) = w
    BY SwapTwice
  <2>2. Addend(Swap(Swap(w))) = w
    BY <2>1, AddendIs
  <2> QED BY <1>4, <2>2 DEF Calculated
<1> QED BY <1>1, <1>2, <1>3, <1>4, <1>5

\* Adding a word to a sum changes its fold by the word and, when the low word
\* overflows, by the carry less what it is worth.
LEMMA FoldOfSum ==
  ASSUME NEW s \in Nat, NEW x \in Words
  PROVE  /\ (s % Word) + x < Word => Fold(s + x) = Fold(s) + x
         /\ (s % Word) + x >= Word => Fold(s + x) = (Fold(s) + x) - Mask
<1> DEFINE C == s \div Word
           L == s % Word
<1>1. Word \in Nat /\ Word >= 4 /\ Mask = Word - 1 /\ x \in 0..(Word - 1)
  BY WordAtLeastFour DEF Mask, Words
<1>2. C \in Nat /\ L \in 0..(Word - 1) /\ s = Word * C + L
  BY <1>1, Division
<1>3. Fold(s) = C + L
  BY DEF Fold
<1> HIDE DEF C, L
<1>4. ASSUME L + x < Word
      PROVE  Fold(s + x) = C + L + x
  <2>1. s + x = Word * C + (L + x) /\ s + x \in Nat /\ L + x \in 0..(Word - 1)
    BY <1>1, <1>2, <1>4
  <2>2. (s + x) \div Word = C /\ (s + x) % Word = L + x
    BY <1>1, <1>2, <2>1, DivisionIs
  <2> QED BY <1>1, <1>2, <2>2 DEF Fold
<1>5. ASSUME L + x >= Word
      PROVE  Fold(s + x) = (C + 1) + ((L + x) - Word)
  <2>1. /\ s + x = Word * (C + 1) + ((L + x) - Word) /\ s + x \in Nat
        /\ (L + x) - Word \in 0..(Word - 1) /\ C + 1 \in Nat
    <3>1. Word * (C + 1) = Word * C + Word /\ Word * C \in Nat
      BY <1>1, <1>2
    <3> QED BY <1>1, <1>2, <1>5, <3>1
  <2>2. (s + x) \div Word = C + 1 /\ (s + x) % Word = (L + x) - Word
    BY <1>1, <1>2, <2>1, DivisionIs
  <2> QED BY <2>2 DEF Fold
<1>6. L + x < Word => Fold(s + x) = Fold(s) + x
  BY <1>1, <1>2, <1>3, <1>4
<1>7. L + x >= Word => Fold(s + x) = (Fold(s) + x) - Mask
  BY <1>1, <1>2, <1>3, <1>5
<1> QED BY <1>6, <1>7 DEF L

\* The fold of the sum, whichever last word is tried: every word above the
\* carries of the fixed words is reached, none below them, and the carries
\* themselves only when the fixed words leave no low word.
LEMMA FoldsOfSums ==
  ASSUME NEW s \in Nat, NEW t \in Words
  PROVE  /\ t > s \div Word \/ (t = s \div Word /\ s % Word = 0)
              => \E x \in Words : Fold(s + x) = t
         /\ \A x \in Words : /\ Fold(s + x) >= s \div Word
                             /\ Fold(s + x) < (s \div Word) + Word
                             /\ Fold(s + x) = s \div Word => s % Word = 0
<1> DEFINE C == s \div Word
           L == s % Word
<1>1. /\ Word \in Nat /\ Word >= 4 /\ Mask = Word - 1
      /\ t \in 0..(Word - 1) /\ Words = 0..(Word - 1)
  BY WordAtLeastFour DEF Mask, Words
<1>2. C \in Nat /\ L \in 0..(Word - 1) /\ Fold(s) = C + L
  BY <1>1, Division DEF Fold
<1>3. ASSUME NEW x \in Words
      PROVE  /\ L + x < Word => Fold(s + x) = C + L + x
             /\ L + x >= Word => Fold(s + x) = (C + L + x) - (Word - 1)
  BY <1>1, <1>2, FoldOfSum
<1> HIDE DEF C, L
<1>4. ASSUME t > C \/ (t = C /\ L = 0)
      PROVE  \E x \in Words : Fold(s + x) = t
  <2>1. CASE t - C >= L
    <3> DEFINE x == (t - C) - L
    <3>1. x \in 0..(Word - 1) /\ L + x < Word /\ C + L + x = t
      BY <1>1, <1>2, <1>4, <2>1
    <3> HIDE DEF x
    <3>2. x \in Words /\ Fold(s + x) = t
      BY <1>1, <1>3, <3>1
    <3> QED BY <3>2
  <2>2. CASE t - C < L
    <3> DEFINE x == (((t - C) - 1) + Word) - L
    <3>1. /\ x \in 0..(Word - 1) /\ L + x >= Word
          /\ (C + L + x) - (Word - 1) = t
      BY <1>1, <1>2, <1>4, <2>2
    <3> HIDE DEF x
    <3>2. x \in Words /\ Fold(s + x) = t
      BY <1>1, <1>3, <3>1
    <3> QED BY <3>2
  <2> QED BY <1>1, <1>2, <2>1, <2>2
<1>5. ASSUME NEW x \in Words
      PROVE  /\ Fold(s + x) >= C /\ Fold(s + x) < C + Word
             /\ Fold(s + x) = C => L = 0
  <2>1. x \in 0..(Word - 1)
    BY <1>1
  <2>2. CASE L + x < Word
    <3>1. Fold(s + x) = C + L + x
      BY <1>3, <1>5, <2>2
    <3> QED BY <1>1, <1>2, <2>1, <2>2, <3>1
  <2>3. CASE L + x >= Word
    <3>1. Fold(s + x) = (C + L + x) - (Word - 1)
      BY <1>3, <1>5, <2>3
    <3> QED BY <1>1, <1>2, <2>1, <2>3, <3>1
  <2> QED BY <1>1, <1>2, <2>1, <2>2, <2>3
<1> QED BY <1>4, <1>5 DEF C, L

\* A packet sent with the value that matched is valid unless the fold carried.
LEMMA MatchedIsValid ==
  ASSUME TypeOK, SumInv, algorithm = "udp", tail = -1, result # -1,
         requested \in Words, NEW v \in 0..(Word - 1), i = v,
         Calculated(v) = requested, check = requested
  PROVE  LET target == Mask - requested
             carries == sum \div Word
         IN  Valid <=> \/ target > carries
                       \/ target = carries /\ sum % Word = 0
<1> DEFINE x == Swap(v)
           t == Mask - requested
           C == sum \div Word
           L == sum % Word
           f == Fold(sum + x)
<1>1. /\ Word \in Nat /\ Word >= 4 /\ Mask = Word - 1 /\ Words = 0..(Word - 1)
  BY WordAtLeastFour DEF Mask, Words
<1>2. v \in Words /\ x \in Words /\ Swap(x) = v
  BY <1>1, SwapTwice
<1>3. /\ sum = BufferSum(words, -1) /\ sum \in Nat
      /\ sum + x \in 0..(Wide - 1) /\ Calculated(Swap(x)) = UdpResult(sum + x)
  <2> HIDE DEF x
  <2> QED BY <1>2, CalculatedIs
<1>4. requested = UdpResult(sum + x)
  <2> HIDE DEF x
  <2> QED BY <1>2, <1>3
<1>5. Valid <=> f < Word
  <2>1. LastData = v
    BY <1>1 DEF LastData, SearchEnd
  <2>2. InternetChecksum(Append(words, x), -1) = Mask - OnesSum(sum + x)
    <3>1. words \in Seq(Words)
      BY DEF TypeOK
    <3> HIDE DEF x
    <3> QED BY <1>2, <1>3, <3>1, SumsAppend DEF InternetChecksum
  <2>3. Valid <=> UdpResult(sum + x) = Mask - OnesSum(sum + x)
    <3>1. Valid <=> InternetChecksum(Append(words, Swap(LastData)), -1)
                      = requested
      BY DEF Valid
    <3>2. Swap(LastData) = x
      BY <2>1
    <3> HIDE DEF x
    <3> QED BY <1>4, <2>2, <3>1, <3>2
  <2>4. UdpResult(sum + x) = Mask - OnesSum(sum + x) <=> f < Word
    BY <1>3, UdpOfSum
  <2> QED BY <2>3, <2>4
<1>6. t = f % Word /\ f \in Nat
  <2>1. requested = Mask - (f % Word)
    BY <1>4 DEF UdpResult, Complement
  <2>2. f \in Nat
    BY <1>3, FirstFold
  <2> HIDE DEF f
  <2>3. f % Word \in 0..(Word - 1)
    BY <1>1, <2>2, Division
  <2> QED BY <1>1, <2>1, <2>2, <2>3
<1>7. C \in Nat /\ L \in Nat /\ C < Word
  <2>1. sum < Word * Word
    BY <1>1, <1>3 DEF TypeOK, Wide
  <2> QED BY <1>1, <1>3, <2>1, Division, WideQuotient
<1>8. f >= C /\ f < C + Word /\ (f = C => L = 0)
  <2>1. 0 \in Words
    BY <1>1
  <2> HIDE DEF x
  <2> QED BY <1>2, <1>3, <2>1, FoldsOfSums
<1> HIDE DEF C, L, f
<1>9. \/ f < Word /\ t = f
      \/ f >= Word /\ t = f - Word
  BY <1>1, <1>6, <1>7, <1>8, SmallQuotient
<1> HIDE DEF t
<1>10. Valid <=> t > C \/ (t = C /\ L = 0)
  BY <1>1, <1>5, <1>6, <1>7, <1>8, <1>9
<1> QED BY <1>10 DEF t, C, L

\* A packet sent after the last value is not valid, and none could have been.
LEMMA UnmatchedIsInvalid ==
  ASSUME TypeOK, SumInv, algorithm = "udp", tail = -1, result # -1,
         requested \in Words, check = 0,
         \A j \in 0..(Word - 1) : Calculated(j) # requested
  PROVE  LET target == Mask - requested
             carries == sum \div Word
         IN  Valid <=> \/ target > carries
                       \/ target = carries /\ sum % Word = 0
<1> DEFINE t == Mask - requested
           C == sum \div Word
           L == sum % Word
<1>1. /\ Word \in Nat /\ Word >= 4 /\ Mask = Word - 1 /\ Words = 0..(Word - 1)
  BY WordAtLeastFour DEF Mask, Words
<1>2. /\ sum \in Nat /\ sum <= Word * Mask
      /\ \A w \in Words : sum + w \in 0..(Wide - 1)
      /\ \A w \in Words : Calculated(Swap(w)) = UdpResult(sum + w)
  BY CalculatedIs
<1>3. ~ (t > C \/ (t = C /\ L = 0))
  <2>1. SUFFICES ASSUME t > C \/ (t = C /\ L = 0) PROVE FALSE
    OBVIOUS
  <2>2. t \in Words
    BY <1>1
  <2>3. PICK x \in Words : Fold(sum + x) = t
    <3> HIDE DEF t
    <3> QED BY <1>2, <2>1, <2>2, FoldsOfSums
  <2>4. t % Word = t
    <3> HIDE DEF t
    <3> QED BY <1>1, <2>2, SmallQuotient
  <2>5. UdpResult(sum + x) = requested
    <3>1. UdpResult(sum + x) = Mask - t
      BY <2>3, <2>4 DEF UdpResult, Complement
    <3> QED BY <1>1, <3>1
  <2>6. Swap(x) \in 0..(Word - 1) /\ Calculated(Swap(x)) = requested
    BY <1>1, <1>2, <2>5, SwapTwice
  <2> QED BY <2>6
<1>4. ~ Valid
  <2>1. SUFFICES ASSUME Valid PROVE FALSE
    OBVIOUS
  <2>2. requested = 0 /\ t = Mask
    BY <1>1, <2>1 DEF Valid
  <2>3. C \in Nat /\ L \in Nat /\ sum = Word * C + L
    BY <1>1, <1>2, Division
  <2> HIDE DEF t, C, L
  <2>4. C >= Mask /\ (C = Mask => L # 0)
    BY <1>1, <1>3, <2>2, <2>3
  <2>5. Word * C >= Word * Mask
    BY <1>1, <2>3, <2>4
  <2>6. Word * C \in Nat /\ Word * Mask \in Nat
    BY <1>1, <2>3
  <2>7. L = 0 /\ Word * C = Word * Mask
    BY <1>2, <2>3, <2>5, <2>6
  <2>8. C = Mask
    BY <1>1, <2>3, <2>7
  <2> QED BY <2>4, <2>7, <2>8
<1> QED BY <1>3, <1>4

\* What holds during the search.
LEMMA SearchHolds == SearchSpec => [](TypeOK /\ SumInv /\ SearchInv)
<1>1. SearchInit => SearchInv
  <2>1. 0 \in 0..Word
    BY WordAtLeastFour
  <2> QED BY <2>1 DEF SearchInit, SearchInv
<1> QED BY <1>1, SearchStep, SearchUsesChecksum, SumAgrees, PTL
        DEF SearchSpec

\* The packet solve_checksum_port sends carries the requested, valid checksum
\* exactly when the carries of its fixed words leave room below the requested
\* sum: so for every packet and every request.
THEOREM SentIsValid == SearchSpec => []SentIsValidUnlessCarry
<1>1. TypeOK /\ SumInv /\ SearchInv => SentIsValidUnlessCarry
  <2> SUFFICES ASSUME TypeOK, SumInv, SearchInv, sent
               PROVE  LET target == Mask - requested
                          carries == sum \div Word
                      IN  Valid <=> \/ target > carries
                                    \/ target = carries /\ sum % Word = 0
    BY DEF SentIsValidUnlessCarry
  <2>1. /\ requested \in Words /\ algorithm = "udp" /\ tail = -1 /\ result # -1
        /\ \A j \in 0..(i - 1) : Calculated(j) # requested
    BY DEF SearchInv
  <2>2. CASE i = Word /\ check = 0
    BY <2>1, <2>2, UnmatchedIsInvalid
  <2>3. CASE /\ check = requested
             /\ \E j \in 0..(Word - 1) : j = i /\ Calculated(j) = requested
    <3>1. PICK v \in 0..(Word - 1) : v = i /\ Calculated(v) = requested
      BY <2>3
    <3> QED BY <2>1, <2>3, <3>1, MatchedIsValid
  <2> QED BY <2>2, <2>3 DEF SearchInv
<1> QED BY <1>1, SearchHolds, PTL

-----------------------------------------------------------------------------
(* The loops come to an end.                                               *)

\* A bound on what a checksum function has still to do: the words to be added
\* first, then the sum to be folded.
Rank == IF result # -1 THEN 0 ELSE ((Len(words) + 1) - next) * Wide + sum + 1

\* With the search: the values still to be tried.
SearchRank ==
  IF sent THEN 0
  ELSE Rank + (IF requested = -1 THEN Word + 2 ELSE (Word - i) + 1)

\* While a function has not returned, or the packet has not been sent, there is
\* something left to count down.
RankInv == Rank \in Nat /\ (Rank = 0 <=> result # -1)
SearchRankInv == SearchRank \in Nat /\ (SearchRank = 0 <=> sent)

\* Every step of theirs counts down.
RankFalls == [][Next => Rank' < Rank]_vars
SearchRankFalls == [][SearchNext => SearchRank' < SearchRank]_<<vars, search>>

\* A fold of a sum that holds a carry is smaller.
LEMMA FoldShrinks ==
  ASSUME NEW s \in Nat, s >= Word
  PROVE  Fold(s) < s
<1> DEFINE C == s \div Word
           L == s % Word
<1>1. Word \in Nat /\ Word >= 4
  BY WordAtLeastFour
<1>2. C \in Nat /\ L \in 0..(Word - 1) /\ s = Word * C + L
  BY <1>1, Division
<1>3. Fold(s) = C + L
  BY DEF Fold
<1> HIDE DEF C, L
<1>4. C # 0
  <2>1. C = 0 => Word * C = 0
    BY <1>1
  <2> QED BY <1>1, <1>2, <2>1
<1>5. Word * C = 4 * C + (Word - 4) * C /\ (Word - 4) * C \in Nat
  BY <1>1, <1>2
<1> QED BY <1>2, <1>3, <1>4, <1>5

\* A word less to add outweighs any sum, and a smaller part makes a smaller
\* whole.
LEMMA WordOutweighs ==
  ASSUME NEW w \in Nat, NEW a \in Nat, NEW s \in Nat, NEW t \in Nat, t < w
  PROVE  a + t + 1 < (a + w) + s + 1
OBVIOUS

LEMMA PartCounts ==
  ASSUME NEW r \in Nat, NEW p \in Nat, NEW q \in Nat, p < q
  PROVE  p + r < q + r
OBVIOUS

\* The words still to be added, and what the next of them is worth.
LEMMA RankTypes ==
  ASSUME TypeOK
  PROVE  /\ Wide \in Nat /\ sum \in 0..(Wide - 1)
         /\ Len(words) \in Nat /\ next \in 0..(Len(words) + 1)
         /\ ((Len(words) + 1) - next) * Wide \in Nat
         /\ next <= Len(words) =>
              ((Len(words) + 1) - next) * Wide =
                ((Len(words) + 1) - (next + 1)) * Wide + Wide
<1>1. Wide \in Nat
  BY WordAtLeastFour DEF Wide
<1>2. Len(words) \in Nat /\ next \in 0..(Len(words) + 1)
  BY DEF TypeOK
<1>3. (Len(words) + 1) - next \in Nat
  BY <1>2
<1> QED BY <1>1, <1>2, <1>3 DEF TypeOK

LEMMA RankIsNatural == TypeOK => RankInv
<1> SUFFICES ASSUME TypeOK PROVE RankInv
  OBVIOUS
<1> QED BY RankTypes DEF RankInv, Rank

LEMMA FunctionCounts == TypeOK /\ TypeOK' /\ Next => Rank' < Rank
<1> SUFFICES ASSUME TypeOK, TypeOK', Next PROVE Rank' < Rank
  OBVIOUS
<1>1. result = -1
  BY DEF Next, AddWord, AddTail, FoldCarry, Return, Added
<1>2. Rank = ((Len(words) + 1) - next) * Wide + sum + 1
  BY <1>1 DEF Rank
<1>3. CASE AddWord \/ AddTail
  <2>1. /\ next <= Len(words) /\ next' = next + 1 /\ words' = words
        /\ result' = -1
    BY <1>3, RankTypes DEF AddWord, AddTail
  <2> DEFINE before == ((Len(words) + 1) - next) * Wide
             after == ((Len(words) + 1) - (next + 1)) * Wide
  <2>2. Rank = before + sum + 1 /\ Rank' = after + sum' + 1
    BY <1>2, <2>1 DEF Rank, Wide, Word
  <2>3. sum' \in Nat /\ sum' < Wide
    <3>1. sum' \in 0..(Wide - 1)
      BY DEF TypeOK, Wide, Word
    <3> QED BY <3>1, RankTypes
  <2>4. before = after + Wide /\ after \in Nat
    <3>1. (Len(words) + 1) - (next + 1) \in Nat
      BY <2>1, RankTypes
    <3> QED BY <2>1, <3>1, RankTypes
  <2>5. Wide \in Nat /\ sum \in Nat
    BY RankTypes
  <2> HIDE DEF before, after
  <2>6. Rank = (after + Wide) + sum + 1
    BY <2>2, <2>4
  <2> QED BY <2>2, <2>3, <2>4, <2>5, <2>6, WordOutweighs
<1>4. CASE FoldCarry
  <2>1. sum' < sum /\ sum' \in Nat
    <3>1. sum \in Nat /\ sum >= Word /\ sum' = Fold(sum)
      BY <1>4, RankTypes DEF FoldCarry
    <3>2. sum' \in 0..(Wide - 1)
      BY DEF TypeOK, Wide, Word
    <3>3. Wide \in Nat
      BY RankTypes
    <3> QED BY <3>1, <3>2, <3>3, FoldShrinks
  <2>2. Rank' = ((Len(words) + 1) - next) * Wide + sum' + 1
    BY <1>1, <1>4 DEF FoldCarry, Rank, Wide, Word
  <2> QED BY <1>2, <2>1, <2>2, RankTypes
<1>5. CASE Return
  <2>1. result' # -1
    <3>1. result' \in Words
      BY <1>5, ReturnsWord
    <3> QED BY <3>1, WordAtLeastFour DEF Words
  <2>2. Rank' = 0
    BY <2>1 DEF Rank
  <2> QED BY <1>2, <2>2, RankTypes
<1> QED BY <1>3, <1>4, <1>5 DEF Next

\* The three functions return, after a number of steps that the buffer bounds:
\* checksumCalc, too, folds only as long as the sum gets smaller.
THEOREM CountsDown == Spec => []RankInv /\ RankFalls
<1>1. TypeOK /\ TypeOK' /\ [Next]_vars => [Next => Rank' < Rank]_vars
  BY FunctionCounts
<1> QED BY <1>1, RankIsNatural, TypeCorrect, PTL DEF Spec, RankFalls

\* The search ends, with a value that matches or after the last one.
THEOREM SearchCountsDown == SearchSpec => []SearchRankInv /\ SearchRankFalls
<1>1. TypeOK /\ SearchInv => SearchRankInv
  <2> SUFFICES ASSUME TypeOK, SearchInv PROVE SearchRankInv
    OBVIOUS
  <2>1. Word \in Nat /\ Rank \in Nat /\ i \in 0..Word
    BY WordAtLeastFour, RankIsNatural DEF RankInv, SearchInv
  <2> QED BY <2>1 DEF SearchRankInv, SearchRank
<1>2. ASSUME TypeOK, TypeOK', SearchInv, RankInv, RankInv', SearchNext
      PROVE  SearchRank' < SearchRank
  <2>1. Word \in Nat /\ Rank \in Nat /\ i \in 0..Word
    BY <1>2, WordAtLeastFour DEF RankInv, SearchInv
  <2>2. Word' = Word
    BY DEF Word
  <2>3. CASE Next /\ UNCHANGED search
    <3>1. ~ sent
      BY <1>2, <2>3 DEF SearchInv, Next, AddWord, AddTail, FoldCarry, Return,
                        Added
    <3>2. Rank' < Rank /\ Rank' \in Nat
      BY <1>2, <2>3, FunctionCounts DEF RankInv
    <3> DEFINE rest == IF requested = -1 THEN Word + 2 ELSE (Word - i) + 1
    <3>3. rest \in Nat
      BY <2>1
    <3>4. SearchRank = Rank + rest /\ SearchRank' = Rank' + rest
      BY <2>2, <2>3, <3>1 DEF SearchRank, search
    <3> HIDE DEF rest
    <3>5. Rank \in Nat /\ Rank' \in Nat /\ Rank' < Rank
      BY <2>1, <3>2
    <3> QED BY <3>3, <3>4, <3>5, PartCounts
  <2>4. CASE Search
    <3>1. Rank' = Rank
      BY <2>4 DEF Search, Begin, Mismatch, Match, NoMatch, vars, Rank, Wide,
                  Word
    <3>2. CASE Begin
      <4>1. ~ sent /\ i = 0 /\ requested = -1
        BY <1>2, <3>2 DEF Begin, SearchInv
      <4>2. requested' # -1
        BY <3>2, WordAtLeastFour DEF Begin, Words
      <4> QED BY <2>1, <2>2, <3>1, <3>2, <4>1, <4>2 DEF Begin, SearchRank
    <3>3. CASE Mismatch
      BY <2>1, <2>2, <3>1, <3>3 DEF Mismatch, Searching, SearchRank
    <3>4. CASE Match \/ NoMatch
      BY <2>1, <2>2, <3>1, <3>4 DEF Match, NoMatch, Searching, SearchRank
    <3> QED BY <2>4, <3>2, <3>3, <3>4 DEF Search
  <2> QED BY <1>2, <2>3, <2>4 DEF SearchNext
<1>3. /\ TypeOK /\ SearchInv /\ TypeOK' /\ RankInv /\ RankInv'
      /\ [SearchNext]_<<vars, search>>
      => [SearchNext => SearchRank' < SearchRank]_<<vars, search>>
  BY <1>2
<1> QED BY <1>1, <1>3, SearchHolds, SearchUsesChecksum, CountsDown, PTL
        DEF SearchSpec, SearchRankFalls
=============================================================================
