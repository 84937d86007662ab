--------------------------- MODULE DispatchProofs ---------------------------
(***************************************************************************)
(* Proofs about Dispatch, for bodies of any bytes and of any length: the   *)
(* table the server calculates with gives the checksum of the standard,    *)
(* and a request is answered only if it is what the client sent.           *)
(*                                                                         *)
(* A register of 32 bits is the remainder of a polynomial, one round of    *)
(* the table multiplies it by x, and a bit of the message enters above its *)
(* highest coefficient (Serial).  Both the table, eight bits at a time,    *)
(* and the long division of the standard calculate that.  As a round is    *)
(* linear and loses nothing, what a damaged packet adds to the checksum    *)
(* depends on the changed bits alone.                                      *)
(***************************************************************************)
EXTENDS Dispatch, SequenceTheorems, WellFoundedInduction, TLAPS

Word == SUBSET (0..31)

-----------------------------------------------------------------------------
(* Every nonempty set of natural numbers has a least element.              *)
LEMMA LeastElement ==
  ASSUME NEW T \in SUBSET Nat, T # {} PROVE \E x \in T : \A y \in T : x <= y
<1> DEFINE R == OpToRel(<, Nat)
<1>1. \A x, y \in Nat : x < y => <<x, y>> \in R BY DEF OpToRel
<1>2. IsWellFoundedOn(R, Nat) BY NatLessThanWellFounded
<1> HIDE DEF R
<1>3. PICK x \in T : \A y \in T : ~(<<y, x>> \in R) BY <1>2, WFMin
<1>4. \A y \in T : ~(y < x) BY <1>1, <1>3
<1>5. QED BY <1>3, <1>4

(* What holds of the first of n + 1 numbers, and of the next when it holds *)
(* of one, holds of all of them.                                           *)
LEMMA FromTheFirst ==
  ASSUME NEW n \in Nat, NEW T, 0 \in T,
         \A k \in 0..(n - 1) : k \in T => k + 1 \in T
  PROVE  \A k \in 0..n : k \in T
<1> SUFFICES ASSUME NEW k0 \in 0..n, k0 \notin T PROVE FALSE OBVIOUS
<1> DEFINE U == {k \in 0..n : k \notin T}
<1>1. U \in SUBSET Nat /\ U # {} OBVIOUS
<1>2. PICK k \in U : \A j \in U : k <= j BY <1>1, LeastElement
<1>3. k # 0 /\ k \in 0..n OBVIOUS
<1>4. k - 1 \in 0..(n - 1) /\ k - 1 \notin U BY <1>2, <1>3
<1>5. k - 1 \in T BY <1>4
<1>6. (k - 1) + 1 \in T BY <1>4, <1>5
<1>7. QED BY <1>3, <1>6

(* The same of all numbers.                                                *)
LEMMA FromZero ==
  ASSUME NEW T, 0 \in T, \A k \in Nat : k \in T => k + 1 \in T
  PROVE  \A k \in Nat : k \in T
<1> TAKE n \in Nat
<1>1. \A k \in 0..(n - 1) : k \in T => k + 1 \in T OBVIOUS
<1>2. \A k \in 0..n : k \in T BY <1>1, FromTheFirst
<1>3. QED BY <1>2

-----------------------------------------------------------------------------
(* A sequence that begins with b and goes on as F says, from the number of *)
(* a step and what was there before it.                                    *)
GoesOn(f, n, b, F) ==
  f[0] = b /\ \A k \in 0..(n - 1) : f[k + 1] = F[<<k, f[k]>>]

(* There is only one way to go on.                                         *)
LEMMA GoesOnOneWay ==
  ASSUME NEW n \in Nat, NEW m \in Nat, n <= m, NEW b, NEW F, NEW f, NEW g,
         GoesOn(f, n, b, F), GoesOn(g, m, b, F)
  PROVE  \A k \in 0..n : f[k] = g[k]
<1> DEFINE T == {k \in 0..n : f[k] = g[k]}
<1>1. 0 \in T BY DEF GoesOn
<1>2. ASSUME NEW k \in 0..(n - 1), k \in T PROVE k + 1 \in T
  <2>1. k \in 0..(m - 1) /\ k + 1 \in 0..n OBVIOUS
  <2>2. f[k + 1] = F[<<k, f[k]>>] /\ g[k + 1] = F[<<k, g[k]>>]
    BY <2>1 DEF GoesOn
  <2>3. QED BY <1>2, <2>1, <2>2
<1> HIDE DEF T
<1>3. \A k \in 0..n : k \in T BY <1>1, <1>2, FromTheFirst
<1>4. QED BY <1>3 DEF T

(* One can go on as far as one likes.                                      *)
LEMMA GoesOnAsFar ==
  ASSUME NEW S, NEW b \in S, NEW F \in [Nat \X S -> S]
  PROVE  \A n \in Nat : \E f \in [0..n -> S] : GoesOn(f, n, b, F)
<1> DEFINE T == {n \in Nat : \E f \in [0..n -> S] : GoesOn(f, n, b, F)}
<1>1. 0 \in T
  <2>1. [k \in 0..0 |-> b] \in [0..0 -> S] OBVIOUS
  <2>2. GoesOn([k \in 0..0 |-> b], 0, b, F) BY DEF GoesOn
  <2>3. QED BY <2>1, <2>2
<1>2. ASSUME NEW n \in Nat, n \in T PROVE n + 1 \in T
  <2>1. PICK f \in [0..n -> S] : GoesOn(f, n, b, F) BY <1>2
  <2> DEFINE g == [k \in 0..(n + 1) |-> IF k = n + 1 THEN F[<<n, f[n]>>] ELSE f[k]]
  <2>2. F[<<n, f[n]>>] \in S OBVIOUS
  <2>3. g \in [0..(n + 1) -> S] BY <2>2
  <2>4. g[n + 1] = F[<<n, f[n]>>] /\ \A k \in 0..n : g[k] = f[k] OBVIOUS
  <2> HIDE DEF g
  <2>5. g[0] = b BY <2>1, <2>4 DEF GoesOn
  <2>6. \A k \in 0..n : g[k + 1] = F[<<k, g[k]>>]
    <3> TAKE k \in 0..n
    <3>1. CASE k = n BY <2>4, <3>1
    <3>2. CASE k # n
      <4>1. k \in 0..(n - 1) /\ k + 1 \in 0..n BY <3>2
      <4>2. f[k + 1] = F[<<k, f[k]>>] BY <2>1, <4>1 DEF GoesOn
      <4>3. QED BY <2>4, <4>1, <4>2
    <3>3. QED BY <3>1, <3>2
  <2>7. (n + 1) - 1 = n OBVIOUS
  <2>8. GoesOn(g, n + 1, b, F) BY <2>5, <2>6, <2>7 DEF GoesOn
  <2>9. QED BY <2>3, <2>8
<1> HIDE DEF T
<1>3. \A n \in Nat : n \in T BY <1>1, <1>2, FromZero
<1>4. QED BY <1>3 DEF T

(* One can go on for ever.                                                 *)
LEMMA GoesOnForEver ==
  \A b \in Word, F \in [Nat \X Word -> Word] :
    \E f \in [Nat -> Word] : f[0] = b /\ \A k \in Nat : f[k + 1] = F[<<k, f[k]>>]
<1> TAKE b \in Word, F \in [Nat \X Word -> Word]
<1> DEFINE S == Word
<1>0. b \in S /\ F \in [Nat \X S -> S] OBVIOUS
<1> HIDE DEF S
<1> DEFINE Upto(n) == CHOOSE f \in [0..n -> S] : GoesOn(f, n, b, F)
           f == [n \in Nat |-> Upto(n)[n]]
<1>1. \A n \in Nat : Upto(n) \in [0..n -> S] /\ GoesOn(Upto(n), n, b, F)
  BY <1>0, GoesOnAsFar
<1> HIDE DEF Upto
<1>2. f \in [Nat -> S] BY <1>1
<1>3. f[0] = b BY <1>1 DEF GoesOn
<1>4. ASSUME NEW k \in Nat PROVE f[k + 1] = F[<<k, f[k]>>]
  <2>1. k + 1 \in Nat /\ k <= k + 1 /\ k \in 0..k /\ k \in 0..((k + 1) - 1) OBVIOUS
  <2>2. GoesOn(Upto(k), k, b, F) /\ GoesOn(Upto(k + 1), k + 1, b, F) BY <1>1, <2>1
  <2>3. Upto(k)[k] = Upto(k + 1)[k] BY <1>0, <2>1, <2>2, GoesOnOneWay
  <2>4. Upto(k + 1)[k + 1] = F[<<k, Upto(k + 1)[k]>>] BY <2>1, <2>2 DEF GoesOn
  <2>5. QED BY <2>1, <2>3, <2>4
<1>5. QED BY <1>2, <1>3, <1>4 DEF S

(* A sequence that goes on within S stays in S.                            *)
LEMMA GoesOnInside ==
  ASSUME NEW S, NEW b \in S, NEW F \in [Nat \X S -> S], NEW n \in Nat, NEW f,
         GoesOn(f, n, b, F)
  PROVE  \A k \in 0..n : f[k] \in S
<1> DEFINE T == {k \in 0..n : f[k] \in S}
<1>1. 0 \in T BY DEF GoesOn
<1>2. ASSUME NEW k \in 0..(n - 1), k \in T PROVE k + 1 \in T
  <2>1. f[k + 1] = F[<<k, f[k]>>] BY DEF GoesOn
  <2>2. <<k, f[k]>> \in Nat \X S BY <1>2
  <2>3. F[<<k, f[k]>>] \in S BY <2>2
  <2>4. QED BY <2>1, <2>3
<1> HIDE DEF T
<1>3. \A k \in 0..n : k \in T BY <1>1, <1>2, FromTheFirst
<1>4. QED BY <1>3 DEF T

-----------------------------------------------------------------------------
(* Words and their sums, bit by bit.                                       *)
LEMMA XorBit ==
  \A x, y, i : i \in Xor(x, y) <=> ~(i \in x <=> i \in y)
BY DEF Xor

(* A sum is a set of what its parts are sets of.                           *)
LEMMA XorType ==
  ASSUME NEW S, NEW x \in SUBSET S, NEW y \in SUBSET S
  PROVE  Xor(x, y) \in SUBSET S
BY DEF Xor

(* The sum of two words is a word.                                         *)
LEMMA XorWord ==
  ASSUME NEW x \in Word, NEW y \in Word PROVE Xor(x, y) \in Word
BY DEF Xor, Word

(* The sum of four does not depend on how they are paired.                 *)
LEMMA XorPairs ==
  \A x, y, u, v : Xor(Xor(x, y), Xor(u, v)) = Xor(Xor(x, u), Xor(y, v))
BY DEF Xor

(* Sums may be put together in any way, and what is added twice is gone.   *)
LEMMA XorLaws ==
  /\ \A x, y, z : Xor(Xor(x, y), z) = Xor(x, Xor(y, z))
  /\ \A x, y : Xor(x, y) = Xor(y, x)
  /\ \A x : Xor(x, {}) = x /\ Xor({}, x) = x /\ Xor(x, x) = {}
  /\ \A x, y : Xor(x, y) = {} => x = y
  /\ \A x, y, z : Xor(x, y) = Xor(x, z) => y = z
<1>1. \A x, y, z : Xor(Xor(x, y), z) = Xor(x, Xor(y, z)) BY DEF Xor
<1>2. \A x, y : Xor(x, y) = Xor(y, x) BY DEF Xor
<1>3. \A x : Xor(x, {}) = x /\ Xor({}, x) = x /\ Xor(x, x) = {} BY DEF Xor
<1>4. \A x, y : Xor(x, y) = {} => x = y BY DEF Xor
<1>5. \A x, y, z : Xor(x, y) = Xor(x, z) => y = z BY DEF Xor
<1>6. QED BY <1>1, <1>2, <1>3, <1>4, <1>5

(* The bits of a word whose bits are in the other order.                   *)
LEMMA ReflectBit ==
  ASSUME NEW n \in Nat, NEW x
  PROVE  /\ Reflect(x, n) \in SUBSET (0..(n - 1))
         /\ \A i \in 0..(n - 1) : i \in Reflect(x, n) <=> n - 1 - i \in x
<1>1. Reflect(x, n) \in SUBSET (0..(n - 1)) BY DEF Reflect
<1>2. ASSUME NEW i \in 0..(n - 1) PROVE i \in Reflect(x, n) <=> n - 1 - i \in x
  <2>1. n - 1 - i \in 0..(n - 1) /\ n - 1 - (n - 1 - i) = i OBVIOUS
  <2>2. ASSUME n - 1 - i \in x PROVE i \in Reflect(x, n)
    BY <2>1, <2>2 DEF Reflect
  <2>3. ASSUME i \in Reflect(x, n) PROVE n - 1 - i \in x
    <3>1. PICK j \in x \cap (0..(n - 1)) : i = n - 1 - j BY <2>3 DEF Reflect
    <3>2. j = n - 1 - i BY <3>1
    <3>3. QED BY <3>1, <3>2
  <2>4. QED BY <2>2, <2>3
<1>3. QED BY <1>1, <1>2

(* The same of a word of 32 bits; and reflected twice it is as it was.     *)
LEMMA Reflect32 ==
  ASSUME NEW x
  PROVE  /\ Reflect(x, 32) \in Word
         /\ \A i \in 0..31 : i \in Reflect(x, 32) <=> 31 - i \in x
         /\ x \in Word => Reflect(Reflect(x, 32), 32) = x
<1>1. Reflect(x, 32) \in Word /\ \A i \in 0..31 : i \in Reflect(x, 32) <=> 31 - i \in x
  BY ReflectBit DEF Word
<1>2. Reflect(Reflect(x, 32), 32) \in Word
      /\ \A i \in 0..31 : i \in Reflect(Reflect(x, 32), 32) <=> 31 - i \in Reflect(x, 32)
  BY ReflectBit DEF Word
<1>3. ASSUME x \in Word PROVE Reflect(Reflect(x, 32), 32) = x
  <2>1. \A i \in 0..31 : 31 - i \in 0..31 /\ 31 - (31 - i) = i OBVIOUS
  <2>2. \A i \in 0..31 : i \in Reflect(Reflect(x, 32), 32) <=> i \in x
    BY <1>1, <1>2, <2>1
  <2>3. QED BY <1>2, <1>3, <2>2 DEF Word
<1>4. QED BY <1>1, <1>3

(* Two words are the same if their bits are.                               *)
LEMMA SameBits ==
  ASSUME NEW x \in Word, NEW y \in Word, \A i \in 0..31 : i \in x <=> i \in y
  PROVE  x = y
BY DEF Word

(* Reflecting is linear.                                                   *)
LEMMA ReflectLinear ==
  ASSUME NEW x \in Word, NEW y \in Word
  PROVE  Reflect(Xor(x, y), 32) = Xor(Reflect(x, 32), Reflect(y, 32))
<1>1. Reflect(x, 32) \in Word /\ Reflect(y, 32) \in Word BY Reflect32
<1>2. Reflect(Xor(x, y), 32) \in Word /\ Xor(Reflect(x, 32), Reflect(y, 32)) \in Word
  BY <1>1, Reflect32, XorWord
<1>3. ASSUME NEW i \in 0..31
      PROVE  i \in Reflect(Xor(x, y), 32) <=> i \in Xor(Reflect(x, 32), Reflect(y, 32))
  BY Reflect32, XorBit
<1>4. QED BY <1>2, <1>3, SameBits

-----------------------------------------------------------------------------
(* The polynomial without its highest term: the others are in a word, and  *)
(* one of them is 1.                                                       *)
LEMMA Polynomial == ulPolynomial \in Word /\ 0 \in ulPolynomial
BY DEF ulPolynomial, Word

(* What a round makes of each bit.                                         *)
LEMMA RoundBit ==
  ASSUME NEW x \in Word
  PROVE  /\ TableRound(x) \in Word
         /\ \A i \in 0..31 :
              i \in TableRound(x) <=> ~(i - 1 \in x <=> 31 \in x /\ i \in ulPolynomial)
<1> DEFINE p == IF 31 \in x THEN ulPolynomial ELSE {}
<1>1. p \in Word BY Polynomial DEF Word
<1>2. \A i : i \in p <=> 31 \in x /\ i \in ulPolynomial OBVIOUS
<1>3. ShiftLeft(x, 1) \in Word BY DEF ShiftLeft, Word
<1>4. ASSUME NEW i \in 0..31 PROVE i \in ShiftLeft(x, 1) <=> i - 1 \in x
  <2>1. ASSUME i - 1 \in x PROVE i \in ShiftLeft(x, 1)
    <3>1. i = (i - 1) + 1 OBVIOUS
    <3>2. QED BY <2>1, <3>1 DEF ShiftLeft
  <2>2. ASSUME i \in ShiftLeft(x, 1) PROVE i - 1 \in x
    <3>1. PICK j \in x : i = j + 1 BY <2>2 DEF ShiftLeft
    <3>2. j \in 0..31 BY DEF Word
    <3>3. j = i - 1 BY <3>1, <3>2
    <3>4. QED BY <3>3
  <2>3. QED BY <2>1, <2>2
<1>5. TableRound(x) = Xor(ShiftLeft(x, 1), p) BY DEF TableRound
<1> HIDE DEF p
<1>6. TableRound(x) \in Word BY <1>1, <1>3, <1>5, XorWord
<1>7. ASSUME NEW i \in 0..31
      PROVE  i \in TableRound(x) <=> ~(i - 1 \in x <=> 31 \in x /\ i \in ulPolynomial)
  BY <1>2, <1>4, <1>5, XorBit
<1>8. QED BY <1>6, <1>7

(* A round is linear.                                                      *)
LEMMA RoundLinear ==
  ASSUME NEW x \in Word, NEW y \in Word
  PROVE  TableRound(Xor(x, y)) = Xor(TableRound(x), TableRound(y))
<1>1. Xor(x, y) \in Word BY XorWord
<1>2. /\ TableRound(Xor(x, y)) \in Word
      /\ TableRound(x) \in Word /\ TableRound(y) \in Word
  BY <1>1, RoundBit
<1>3. Xor(TableRound(x), TableRound(y)) \in Word BY <1>2, XorWord
<1>4. ASSUME NEW i \in 0..31
      PROVE  i \in TableRound(Xor(x, y)) <=> i \in Xor(TableRound(x), TableRound(y))
  <2>1. i \in TableRound(Xor(x, y)) <=>
          ~(i - 1 \in Xor(x, y) <=> 31 \in Xor(x, y) /\ i \in ulPolynomial)
    BY <1>1, RoundBit
  <2>2. i \in TableRound(x) <=> ~(i - 1 \in x <=> 31 \in x /\ i \in ulPolynomial)
    BY RoundBit
  <2>3. i \in TableRound(y) <=> ~(i - 1 \in y <=> 31 \in y /\ i \in ulPolynomial)
    BY RoundBit
  <2>4. i - 1 \in Xor(x, y) <=> ~(i - 1 \in x <=> i - 1 \in y) BY XorBit
  <2>5. 31 \in Xor(x, y) <=> ~(31 \in x <=> 31 \in y) BY XorBit
  <2>6. i \in Xor(TableRound(x), TableRound(y)) <=>
          ~(i \in TableRound(x) <=> i \in TableRound(y))
    BY XorBit
  <2>7. QED BY <2>1, <2>2, <2>3, <2>4, <2>5, <2>6
<1>5. QED BY <1>2, <1>3, <1>4, SameBits

(* A round loses nothing: the bit that falls out is the lowest of the      *)
(* result, because the polynomial has a term of 1.                         *)
LEMMA RoundInjective ==
  ASSUME NEW x \in Word, NEW y \in Word, TableRound(x) = TableRound(y)
  PROVE  x = y
<1>1. 31 \in x <=> 31 \in y
  <2>1. 0 \in 0..31 /\ 0 - 1 \notin x /\ 0 - 1 \notin y BY DEF Word
  <2>2. 0 \in TableRound(x) <=> 31 \in x BY <2>1, RoundBit, Polynomial
  <2>3. 0 \in TableRound(y) <=> 31 \in y BY <2>1, RoundBit, Polynomial
  <2>4. QED BY <2>2, <2>3
<1>2. ASSUME NEW i \in 0..31 PROVE i \in x <=> i \in y
  <2>1. CASE i = 31 BY <1>1, <2>1
  <2>2. CASE i # 31
    <3>1. i + 1 \in 0..31 /\ (i + 1) - 1 = i BY <2>2
    <3>2. i + 1 \in TableRound(x) <=> ~(i \in x <=> 31 \in x /\ i + 1 \in ulPolynomial)
      BY <3>1, RoundBit
    <3>3. i + 1 \in TableRound(y) <=> ~(i \in y <=> 31 \in y /\ i + 1 \in ulPolynomial)
      BY <3>1, RoundBit
    <3>4. QED BY <1>1, <3>2, <3>3
  <2>3. QED BY <2>1, <2>2
<1>3. QED BY <1>2, SameBits

-----------------------------------------------------------------------------
(* What the recursion of AfterRounds says: a value after each round.       *)
LEMMA AfterRoundsUnfolds ==
  ASSUME NEW x \in Word
  PROVE  /\ AfterRounds(x)[0] = x
         /\ \A k \in Nat : /\ AfterRounds(x)[k] \in Word
                           /\ AfterRounds(x)[k + 1] = TableRound(AfterRounds(x)[k])
<1> DEFINE F == [p \in Nat \X Word |-> TableRound(p[2])]
           Def(f) == f = [j \in Nat |-> IF j = 0 THEN x ELSE TableRound(f[j - 1])]
<1>1. F \in [Nat \X Word -> Word] BY RoundBit
<1>2. \A k \in Nat, y \in Word : F[<<k, y>>] = TableRound(y) OBVIOUS
<1> HIDE DEF F
<1>3. PICK f \in [Nat -> Word] : f[0] = x /\ \A k \in Nat : f[k + 1] = F[<<k, f[k]>>]
  BY <1>1, GoesOnForEver
<1>4. \A k \in Nat : f[k] = IF k = 0 THEN x ELSE TableRound(f[k - 1])
  <2> TAKE k \in Nat
  <2>1. CASE k = 0 BY <1>3, <2>1
  <2>2. CASE k # 0
    <3>1. k - 1 \in Nat /\ (k - 1) + 1 = k BY <2>2
    <3>2. f[k] = F[<<k - 1, f[k - 1]>>] BY <1>3, <3>1
    <3>3. QED BY <1>2, <2>2, <3>1, <3>2
  <2>3. QED BY <2>1, <2>2
<1>5. Def(f) BY <1>4
<1>6. AfterRounds(x) = CHOOSE g : Def(g) BY DEF AfterRounds
<1>7. Def(AfterRounds(x)) BY <1>5, <1>6
<1> DEFINE g == AfterRounds(x)
<1>8. \A k \in Nat : g[k] = IF k = 0 THEN x ELSE TableRound(g[k - 1]) BY <1>7
<1> HIDE DEF g, Def
<1>9. g[0] = x BY <1>8
<1>10. \A k \in Nat : g[k + 1] = TableRound(g[k])
  <2> TAKE k \in Nat
  <2>1. k + 1 \in Nat /\ k + 1 # 0 /\ (k + 1) - 1 = k OBVIOUS
  <2>2. QED BY <1>8, <2>1
<1> DEFINE T == {k \in Nat : g[k] \in Word}
<1>11. 0 \in T BY <1>9
<1>12. \A k \in Nat : k \in T => k + 1 \in T BY <1>10, RoundBit
<1> HIDE DEF T
<1>13. \A k \in Nat : k \in T BY <1>11, <1>12, FromZero
<1>14. \A k \in Nat : g[k] \in Word BY <1>13 DEF T
<1>15. QED BY <1>9, <1>10, <1>14 DEF g

(* Rounds are linear.                                                      *)
LEMMA RoundsLinear ==
  ASSUME NEW x \in Word, NEW y \in Word
  PROVE  \A k \in Nat :
           AfterRounds(Xor(x, y))[k] = Xor(AfterRounds(x)[k], AfterRounds(y)[k])
<1>1. Xor(x, y) \in Word BY XorWord
<1> DEFINE T == {k \in Nat : AfterRounds(Xor(x, y))[k]
                               = Xor(AfterRounds(x)[k], AfterRounds(y)[k])}
<1>2. 0 \in T BY <1>1, AfterRoundsUnfolds
<1>3. ASSUME NEW k \in Nat, k \in T PROVE k + 1 \in T
  <2>1. /\ AfterRounds(x)[k] \in Word /\ AfterRounds(y)[k] \in Word
        /\ AfterRounds(x)[k + 1] = TableRound(AfterRounds(x)[k])
        /\ AfterRounds(y)[k + 1] = TableRound(AfterRounds(y)[k])
        /\ AfterRounds(Xor(x, y))[k + 1] = TableRound(AfterRounds(Xor(x, y))[k])
    BY <1>1, AfterRoundsUnfolds
  <2>2. AfterRounds(Xor(x, y))[k] = Xor(AfterRounds(x)[k], AfterRounds(y)[k]) BY <1>3
  <2>3. AfterRounds(Xor(x, y))[k + 1] = Xor(AfterRounds(x)[k + 1], AfterRounds(y)[k + 1])
    BY <2>1, <2>2, RoundLinear
  <2>4. QED BY <2>3
<1> HIDE DEF T
<1>4. \A k \in Nat : k \in T BY <1>2, <1>3, FromZero
<1>5. QED BY <1>4 DEF T

(* Rounds lose nothing.                                                    *)
LEMMA RoundsInjective ==
  ASSUME NEW x \in Word, NEW y \in Word
  PROVE  \A k \in Nat : AfterRounds(x)[k] = AfterRounds(y)[k] => x = y
<1> DEFINE T == {k \in Nat : AfterRounds(x)[k] = AfterRounds(y)[k] => x = y}
<1>1. 0 \in T BY AfterRoundsUnfolds
<1>2. ASSUME NEW k \in Nat, k \in T PROVE k + 1 \in T
  <2>1. /\ AfterRounds(x)[k] \in Word /\ AfterRounds(y)[k] \in Word
        /\ AfterRounds(x)[k + 1] = TableRound(AfterRounds(x)[k])
        /\ AfterRounds(y)[k + 1] = TableRound(AfterRounds(y)[k])
    BY AfterRoundsUnfolds
  <2>2. AfterRounds(x)[k + 1] = AfterRounds(y)[k + 1] =>
          AfterRounds(x)[k] = AfterRounds(y)[k]
    BY <2>1, RoundInjective
  <2>3. QED BY <1>2, <2>2
<1> HIDE DEF T
<1>3. \A k \in Nat : k \in T BY <1>1, <1>2, FromZero
<1>4. QED BY <1>3 DEF T

(* Rounds after rounds are more rounds.                                    *)
LEMMA RoundsAfterRounds ==
  ASSUME NEW x \in Word, NEW n \in Nat
  PROVE  \A k \in Nat : AfterRounds(AfterRounds(x)[n])[k] = AfterRounds(x)[n + k]
<1> DEFINE y == AfterRounds(x)[n]
           T == {k \in Nat : AfterRounds(y)[k] = AfterRounds(x)[n + k]}
<1>1. y \in Word BY AfterRoundsUnfolds
<1> HIDE DEF y
<1>2. 0 \in T BY <1>1, AfterRoundsUnfolds DEF y
<1>3. ASSUME NEW k \in Nat, k \in T PROVE k + 1 \in T
  <2>1. AfterRounds(y)[k + 1] = TableRound(AfterRounds(y)[k])
    BY <1>1, AfterRoundsUnfolds
  <2>2. AfterRounds(x)[(n + k) + 1] = TableRound(AfterRounds(x)[n + k])
    BY AfterRoundsUnfolds
  <2>3. (n + k) + 1 = n + (k + 1) OBVIOUS
  <2>4. QED BY <1>3, <2>1, <2>2, <2>3
<1> HIDE DEF T
<1>4. \A k \in Nat : k \in T BY <1>2, <1>3, FromZero
<1>5. QED BY <1>4 DEF T, y

(* While no bit falls out, rounds only shift.                              *)
LEMMA RoundsShift ==
  ASSUME NEW n \in 0..31, NEW x \in SUBSET (0..(31 - n))
  PROVE  AfterRounds(x)[n] = {i + n : i \in x}
<1>1. x \in Word BY DEF Word
<1> DEFINE T == {k \in 0..n : AfterRounds(x)[k] = {i + k : i \in x}}
<1>2. 0 \in T
  <2>1. \A i \in x : i + 0 = i OBVIOUS
  <2>2. {i + 0 : i \in x} = x BY <2>1
  <2>3. QED BY <1>1, <2>2, AfterRoundsUnfolds
<1>3. ASSUME NEW k \in 0..(n - 1), k \in T PROVE k + 1 \in T
  <2> DEFINE y == {i + k : i \in x}
             z == {i + (k + 1) : i \in x}
  <2>1. y \in Word /\ z \in Word /\ 31 \notin y BY DEF Word
  <2>2. \A i \in 0..31 : i \in z <=> i - 1 \in y
    <3> TAKE i \in 0..31
    <3>1. ASSUME i \in z PROVE i - 1 \in y
      <4>1. PICK j \in x : i = j + (k + 1) BY <3>1
      <4>2. i - 1 = j + k BY <4>1
      <4>3. QED BY <4>2
    <3>2. ASSUME i - 1 \in y PROVE i \in z
      <4>1. PICK j \in x : i - 1 = j + k BY <3>2
      <4>2. i = j + (k + 1) BY <4>1
      <4>3. QED BY <4>2
    <3>3. QED BY <3>1, <3>2
  <2> HIDE DEF y, z
  <2>3. TableRound(y) = z BY <2>1, <2>2, RoundBit, SameBits
  <2>4. AfterRounds(x)[k] = y BY <1>3 DEF y
  <2>5. AfterRounds(x)[k + 1] = TableRound(AfterRounds(x)[k])
    BY <1>1, AfterRoundsUnfolds
  <2>6. QED BY <2>3, <2>4, <2>5 DEF z
<1> HIDE DEF T
<1>4. \A k \in 0..n : k \in T BY <1>2, <1>3, FromTheFirst
<1>5. QED BY <1>4 DEF T

-----------------------------------------------------------------------------
(* Shifting up and down, bit by bit.                                       *)
LEMMA ShiftBit ==
  ASSUME NEW x \in SUBSET Int, NEW n \in Nat, NEW i \in 0..31
  PROVE  /\ i \in ShiftLeft(x, n) <=> i - n \in x
         /\ i \in ShiftRight(x, n) <=> i + n \in x
<1>1. ASSUME i - n \in x PROVE i \in ShiftLeft(x, n)
  <2>1. i = (i - n) + n OBVIOUS
  <2>2. QED BY <1>1, <2>1 DEF ShiftLeft
<1>2. ASSUME i \in ShiftLeft(x, n) PROVE i - n \in x
  <2>1. PICK j \in x : i = j + n BY <1>2 DEF ShiftLeft
  <2>2. j \in Int /\ j = i - n BY <2>1
  <2>3. QED BY <2>2
<1>3. ASSUME i + n \in x PROVE i \in ShiftRight(x, n)
  <2>1. i = (i + n) - n /\ i + n >= n OBVIOUS
  <2>2. QED BY <1>3, <2>1 DEF ShiftRight
<1>4. ASSUME i \in ShiftRight(x, n) PROVE i + n \in x
  <2>1. PICK j \in x : i = j - n BY <1>4 DEF ShiftRight
  <2>2. j \in Int /\ j = i + n BY <2>1
  <2>3. QED BY <2>2
<1>5. QED BY <1>1, <1>2, <1>3, <1>4

(* An entry of the table: eight rounds of its index, as the highest bits.  *)
LEMMA TableEntry ==
  ASSUME NEW byte \in Byte
  PROVE  /\ crc32_table[byte] \in Word
         /\ Reflect(crc32_table[byte], 32) = AfterRounds(Reflect(byte, 32))[8]
<1> DEFINE x == ShiftLeft(Reflect(byte, 8), 24)
<1>1. Reflect(byte, 8) \in SUBSET (0..7)
      /\ \A i \in 0..7 : i \in Reflect(byte, 8) <=> 7 - i \in byte
  BY ReflectBit
<1>2. x \in Word BY DEF ShiftLeft, Word
<1>3. Reflect(byte, 32) \in Word BY Reflect32
<1>4. ASSUME NEW i \in 0..31 PROVE i \in x <=> i \in Reflect(byte, 32)
  <2>1. i \in x <=> i - 24 \in Reflect(byte, 8) BY <1>1, ShiftBit
  <2>2. i \in Reflect(byte, 32) <=> 31 - i \in byte BY Reflect32
  <2>3. CASE i >= 24
    <3>1. i - 24 \in 0..7 /\ 7 - (i - 24) = 31 - i BY <2>3
    <3>2. QED BY <1>1, <2>1, <2>2, <3>1
  <2>4. CASE i < 24
    <3>1. i - 24 \notin 0..7 /\ 31 - i \notin 0..7 BY <2>4
    <3>2. 31 - i \notin byte BY <3>1 DEF Byte
    <3>3. QED BY <1>1, <2>1, <2>2, <3>1, <3>2
  <2>5. QED BY <2>3, <2>4
<1>5. x = Reflect(byte, 32) BY <1>2, <1>3, <1>4, SameBits
<1>6. crc32_table[byte] = Reflect(AfterRounds(x)[8], 32) BY DEF crc32_table
<1>7. AfterRounds(x)[8] \in Word BY <1>2, AfterRoundsUnfolds
<1>8. QED BY <1>5, <1>6, <1>7, Reflect32

(* A byte enters the register above its highest coefficients, and eight    *)
(* rounds follow: that is what the table is for.                           *)
LEMMA NextCrcIsEightRounds ==
  ASSUME NEW crc \in Word, NEW byte \in Byte
  PROVE  /\ NextCrc(crc, byte) \in Word
         /\ Reflect(NextCrc(crc, byte), 32)
              = AfterRounds(Xor(Reflect(crc, 32), Reflect(byte, 32)))[8]
<1> DEFINE high == ShiftRight(crc, 8)
           index == Xor(crc \cap (0..7), byte)
           p == Reflect(crc, 32)
           q == p \cap (0..23)
<1>1. index \in Byte BY DEF Byte, Xor
<1>2. high \in Word
  <2>1. ASSUME NEW i \in high PROVE i \in 0..31
    <3>1. PICK j \in crc : j >= 8 /\ i = j - 8 BY DEF ShiftRight
    <3>2. j \in 0..31 BY DEF Word
    <3>3. QED BY <3>1, <3>2
  <2>2. QED BY <2>1 DEF Word
<1>3. NextCrc(crc, byte) = Xor(high, crc32_table[index]) BY DEF NextCrc
<1>4. crc32_table[index] \in Word
      /\ Reflect(crc32_table[index], 32) = AfterRounds(Reflect(index, 32))[8]
  BY <1>1, TableEntry
<1>5. p \in Word /\ \A i \in 0..31 : i \in p <=> 31 - i \in crc BY Reflect32
<1>6. \A i \in 0..31 : i \in high <=> i + 8 \in crc
  <2>1. crc \in SUBSET Int BY DEF Word
  <2>2. QED BY <2>1, ShiftBit
<1>7. \A i : i \in index <=> ~(i \in crc /\ i \in 0..7 <=> i \in byte) BY XorBit
<1> HIDE DEF high, index, p
<1>8. Reflect(high, 32) = AfterRounds(q)[8]
  <2>1. q \in SUBSET (0..(31 - 8)) OBVIOUS
  <2>2. AfterRounds(q)[8] = {i + 8 : i \in q} BY <2>1, RoundsShift
  <2>3. {i + 8 : i \in q} \in Word BY DEF Word
  <2>4. ASSUME NEW i \in 0..31
        PROVE  i \in Reflect(high, 32) <=> i \in {j + 8 : j \in q}
    <3>1. i \in Reflect(high, 32) <=> 31 - i \in high BY Reflect32
    <3>2. 31 - i \in high <=> (31 - i) + 8 \in crc BY <1>6
    <3>3. CASE i < 8
      <4>1. (31 - i) + 8 \notin 0..31 BY <3>3
      <4>2. (31 - i) + 8 \notin crc BY <4>1 DEF Word
      <4>3. i \notin {j + 8 : j \in q} BY <3>3
      <4>4. QED BY <3>1, <3>2, <4>2, <4>3
    <3>4. CASE i >= 8
      <4>1. i - 8 \in 0..23 /\ 31 - (i - 8) = (31 - i) + 8 BY <3>4
      <4>2. i - 8 \in q <=> (31 - i) + 8 \in crc BY <1>5, <4>1
      <4>3. i \in {j + 8 : j \in q} <=> i - 8 \in q
        <5>1. ASSUME i - 8 \in q PROVE i \in {j + 8 : j \in q}
          <6>1. i = (i - 8) + 8 OBVIOUS
          <6>2. QED BY <5>1, <6>1
        <5>2. ASSUME i \in {j + 8 : j \in q} PROVE i - 8 \in q
          <6>1. PICK j \in q : i = j + 8 BY <5>2
          <6>2. j \in 0..23 OBVIOUS
          <6>3. i - 8 = j BY <6>1, <6>2
          <6>4. QED BY <6>3
        <5>3. QED BY <5>1, <5>2
      <4>4. QED BY <3>1, <3>2, <4>2, <4>3
    <3>5. QED BY <3>3, <3>4
  <2>5. Reflect(high, 32) \in Word BY Reflect32
  <2>6. QED BY <2>2, <2>3, <2>4, <2>5, SameBits
<1>9. Xor(q, Reflect(index, 32)) = Xor(p, Reflect(byte, 32))
  <2>1. q \in Word /\ Reflect(index, 32) \in Word /\ Reflect(byte, 32) \in Word
    BY <1>5, Reflect32 DEF Word
  <2>2. Xor(q, Reflect(index, 32)) \in Word /\ Xor(p, Reflect(byte, 32)) \in Word
    BY <1>5, <2>1, XorWord
  <2>3. ASSUME NEW i \in 0..31
        PROVE  i \in Xor(q, Reflect(index, 32)) <=> i \in Xor(p, Reflect(byte, 32))
    <3>1. i \in Reflect(index, 32) <=> 31 - i \in index BY Reflect32
    <3>2. i \in Reflect(byte, 32) <=> 31 - i \in byte BY Reflect32
    <3>3. 31 - i \in index <=> ~(31 - i \in crc /\ 31 - i \in 0..7 <=> 31 - i \in byte)
      BY <1>7
    <3>4. i \in p <=> 31 - i \in crc BY <1>5
    <3>5. i \in 0..23 <=> 31 - i \notin 0..7 OBVIOUS
    <3>6. 31 - i \in byte => 31 - i \in 0..7 BY DEF Byte
    <3>7. i \in q <=> i \in p /\ i \in 0..23 OBVIOUS
    <3> HIDE DEF q
    <3>8. QED BY <3>1, <3>2, <3>3, <3>4, <3>5, <3>6, <3>7, XorBit
  <2>4. QED BY <2>2, <2>3, SameBits
<1>10. Reflect(NextCrc(crc, byte), 32)
         = Xor(AfterRounds(q)[8], AfterRounds(Reflect(index, 32))[8])
  BY <1>2, <1>3, <1>4, <1>8, ReflectLinear
<1>11. q \in Word /\ Reflect(index, 32) \in Word BY <1>5, Reflect32 DEF Word
<1>12. Xor(AfterRounds(q)[8], AfterRounds(Reflect(index, 32))[8])
         = AfterRounds(Xor(q, Reflect(index, 32)))[8]
  BY <1>11, RoundsLinear
<1>13. NextCrc(crc, byte) \in Word BY <1>2, <1>3, <1>4, XorWord
<1>14. QED BY <1>9, <1>10, <1>12, <1>13 DEF p

-----------------------------------------------------------------------------
(* The register when the bits of a message enter one by one, each above    *)
(* the highest coefficient and followed by a round.                        *)
Top(t, bits) == IF t \in bits THEN {31} ELSE {}
Serial(start, bits) ==
  CHOOSE r \in [Nat -> Word] :
    r[0] = start /\ \A t \in Nat : r[t + 1] = TableRound(Xor(r[t], Top(t + 1, bits)))

(* A bit above the highest coefficient is a word.                          *)
LEMMA TopWord == \A t, bits : Top(t, bits) \in Word
<1>1. \A t, bits : Top(t, bits) = {31} \/ Top(t, bits) = {} BY DEF Top
<1>2. {31} \in Word /\ {} \in Word BY DEF Word
<1>3. QED BY <1>1, <1>2

(* There is such a register.                                               *)
LEMMA SerialUnfolds ==
  ASSUME NEW start \in Word, NEW bits
  PROVE  /\ Serial(start, bits) \in [Nat -> Word]
         /\ Serial(start, bits)[0] = start
         /\ \A t \in Nat : Serial(start, bits)[t + 1]
                             = TableRound(Xor(Serial(start, bits)[t], Top(t + 1, bits)))
<1> DEFINE F == [p \in Nat \X Word |-> TableRound(Xor(p[2], Top(p[1] + 1, bits)))]
           Good(r) == r[0] = start /\ \A t \in Nat :
                        r[t + 1] = TableRound(Xor(r[t], Top(t + 1, bits)))
<1>1. F \in [Nat \X Word -> Word]
  <2>1. ASSUME NEW p \in Nat \X Word
        PROVE  TableRound(Xor(p[2], Top(p[1] + 1, bits))) \in Word
    <3>1. p[2] \in Word OBVIOUS
    <3>2. Xor(p[2], Top(p[1] + 1, bits)) \in Word BY <3>1, TopWord, XorWord
    <3>3. QED BY <3>2, RoundBit
  <2>2. QED BY <2>1
<1>2. \A k \in Nat, y \in Word : F[<<k, y>>] = TableRound(Xor(y, Top(k + 1, bits)))
  OBVIOUS
<1> HIDE DEF F
<1>3. PICK f \in [Nat -> Word] : f[0] = start /\ \A k \in Nat : f[k + 1] = F[<<k, f[k]>>]
  BY <1>1, GoesOnForEver
<1>4. \A k \in Nat : f[k + 1] = TableRound(Xor(f[k], Top(k + 1, bits))) BY <1>2, <1>3
<1>5. Good(f) BY <1>3, <1>4
<1>6. Serial(start, bits) = CHOOSE r \in [Nat -> Word] : Good(r) BY DEF Serial
<1> HIDE DEF Good
<1>7. Serial(start, bits) \in [Nat -> Word] /\ Good(Serial(start, bits)) BY <1>5, <1>6
<1>8. QED BY <1>7 DEF Good

(* Eight bits at a time, and then eight rounds, give the same register.    *)
LEMMA SerialByte ==
  ASSUME NEW start \in Word, NEW bits, NEW t \in Nat, NEW b \in Byte,
         \A i \in 0..7 : i \in b <=> t + 1 + i \in bits
  PROVE  Serial(start, bits)[t + 8]
           = AfterRounds(Xor(Serial(start, bits)[t], Reflect(b, 32)))[8]
<1> DEFINE r == Serial(start, bits)
           x == Xor(r[t], Reflect(b, 32))
           Pending(j) == {i \in 0..31 : 31 + j - i \in j..7 /\ 31 + j - i \in b}
           T == {j \in 0..8 : AfterRounds(x)[j] = Xor(r[t + j], Pending(j))}
<1>1. r \in [Nat -> Word]
      /\ \A u \in Nat : r[u + 1] = TableRound(Xor(r[u], Top(u + 1, bits)))
  BY SerialUnfolds
<1> HIDE DEF r
<1>2. x \in Word BY <1>1, Reflect32, XorWord
<1>3. 0 \in T
  <2>1. ASSUME NEW i \in 0..31 PROVE i \in Pending(0) <=> i \in Reflect(b, 32)
    <3>1. i \in Reflect(b, 32) <=> 31 - i \in b BY Reflect32
    <3>2. 31 + 0 - i = 31 - i OBVIOUS
    <3>3. 31 - i \in b => 31 - i \in 0..7 BY DEF Byte
    <3>4. QED BY <3>1, <3>2, <3>3
  <2>2. Pending(0) \in Word /\ Reflect(b, 32) \in Word BY Reflect32 DEF Word
  <2>3. Pending(0) = Reflect(b, 32) BY <2>1, <2>2, SameBits
  <2> HIDE DEF Pending
  <2>4. t + 0 = t OBVIOUS
  <2>5. AfterRounds(x)[0] = x BY <1>2, AfterRoundsUnfolds
  <2>6. QED BY <2>3, <2>4, <2>5
<1>4. ASSUME NEW j \in 0..(8 - 1), j \in T PROVE j + 1 \in T
  <2> DEFINE top == Top(t + j + 1, bits)
             rest == Pending(j) \ {31}
  <2>1. Pending(j) \in Word /\ rest \in Word /\ Pending(j + 1) \in Word BY DEF Word
  <2>2. 31 \in Pending(j) <=> t + j + 1 \in bits
    <3>1. 31 + j - 31 = j /\ j \in j..7 /\ j \in 0..7 /\ t + 1 + j = t + j + 1 OBVIOUS
    <3>2. j \in b <=> t + j + 1 \in bits BY <3>1
    <3>3. QED BY <3>1, <3>2
  <2>3. Pending(j) = Xor(top, rest) BY <2>2 DEF Xor, Top
  <2>4. TableRound(rest) = Pending(j + 1)
    <3>1. ASSUME NEW i \in 0..31 PROVE i - 1 \in rest <=> i \in Pending(j + 1)
      <4>1. 31 + j - (i - 1) = 31 + (j + 1) - i OBVIOUS
      <4>2. i - 1 \in rest <=> i - 1 \in 0..30 /\ 31 + (j + 1) - i \in j..7
                                 /\ 31 + (j + 1) - i \in b
        BY <4>1
      <4>3. i \in Pending(j + 1) <=> 31 + (j + 1) - i \in (j + 1)..7
                                       /\ 31 + (j + 1) - i \in b
        OBVIOUS
      <4>4. i - 1 \in 0..30 /\ 31 + (j + 1) - i \in j..7 <=>
              31 + (j + 1) - i \in (j + 1)..7
        OBVIOUS
      <4> HIDE DEF rest, Pending
      <4>5. QED BY <4>2, <4>3, <4>4
    <3>2. 31 \notin rest OBVIOUS
    <3> HIDE DEF rest, Pending
    <3>3. QED BY <2>1, <3>1, <3>2, RoundBit, SameBits
  <2> HIDE DEF rest, Pending
  <2>5. top \in Word BY TopWord
  <2>6. r[t + j] \in Word BY <1>1
  <2>7. r[(t + j) + 1] = TableRound(Xor(r[t + j], top)) BY <1>1
  <2> HIDE DEF top
  <2>8. AfterRounds(x)[j + 1] = TableRound(AfterRounds(x)[j])
    BY <1>2, AfterRoundsUnfolds
  <2>9. AfterRounds(x)[j] = Xor(Xor(r[t + j], top), rest)
    BY <1>4, <2>3, XorLaws
  <2>10. Xor(r[t + j], top) \in Word BY <2>5, <2>6, XorWord
  <2>11. AfterRounds(x)[j + 1] = Xor(r[(t + j) + 1], Pending(j + 1))
    BY <2>1, <2>4, <2>7, <2>8, <2>9, <2>10, RoundLinear
  <2>12. (t + j) + 1 = t + (j + 1) /\ j + 1 \in 0..8 OBVIOUS
  <2>13. QED BY <2>11, <2>12
<1>5. Pending(8) = {} OBVIOUS
<1> HIDE DEF T, Pending
<1>6. \A j \in 0..8 : j \in T BY <1>3, <1>4, FromTheFirst
<1>7. AfterRounds(x)[8] = Xor(r[t + 8], Pending(8)) BY <1>6 DEF T
<1>8. QED BY <1>5, <1>7, XorLaws DEF r

-----------------------------------------------------------------------------
Body == Seq(Byte)

(* The bits of a body: bit i of byte k + 1 is the one after the first      *)
(* 8 * k + i.                                                              *)
LEMMA BitOfBody ==
  ASSUME NEW body \in Body, NEW k \in 0..(Len(body) - 1), NEW i \in 0..7
  PROVE  i \in body[k + 1] <=> 8 * k + 1 + i \in BitsSet(body)
<1>1. Len(body) \in Nat BY DEF Body
<1>2. 8 * k + 1 + i \in 1..(8 * Len(body)) BY <1>1
<1>3. (8 * k + 1 + i) - 1 = 8 * k + i OBVIOUS
<1>4. (8 * k + i) % 8 = i /\ (8 * k + i) \div 8 = k OBVIOUS
<1>5. QED BY <1>2, <1>3, <1>4 DEF BitsSet, Bits

(* What the loop of Get_CRC() says: a register after each byte.            *)
LEMMA CrcAfterUnfolds ==
  ASSUME NEW body \in Body
  PROVE  /\ CrcAfter(body)[0] = AllOnes
         /\ \A k \in 0..(Len(body) - 1) :
              /\ CrcAfter(body)[k] \in Word
              /\ CrcAfter(body)[k + 1] = NextCrc(CrcAfter(body)[k], body[k + 1])
         /\ CrcAfter(body)[Len(body)] \in Word
<1> DEFINE n == Len(body)
           F == [p \in Nat \X Word |->
                   IF p[1] < n THEN NextCrc(p[2], body[p[1] + 1]) ELSE p[2]]
           Def(f) == f = [k \in 0..n |->
                            IF k = 0 THEN AllOnes ELSE NextCrc(f[k - 1], body[k])]
<1>1. n \in Nat BY DEF Body
<1>2. \A k \in 0..(n - 1) : k + 1 \in 1..n /\ body[k + 1] \in Byte BY <1>1 DEF Body
<1>3. AllOnes \in Word BY DEF AllOnes, Word
<1>4. F \in [Nat \X Word -> Word]
  <2>1. ASSUME NEW p \in Nat \X Word, p[1] < n
        PROVE  NextCrc(p[2], body[p[1] + 1]) \in Word
    <3>1. p[1] \in 0..(n - 1) /\ p[2] \in Word BY <1>1, <2>1
    <3>2. body[p[1] + 1] \in Byte BY <1>2, <3>1
    <3>3. QED BY <3>1, <3>2, NextCrcIsEightRounds
  <2>2. QED BY <2>1
<1>5. \A k \in 0..(n - 1), y \in Word : F[<<k, y>>] = NextCrc(y, body[k + 1]) BY <1>1
<1> HIDE DEF F, n
<1>6. PICK f \in [0..n -> Word] : GoesOn(f, n, AllOnes, F)
  BY <1>1, <1>3, <1>4, GoesOnAsFar
<1>7. \A k \in 0..n : f[k] = IF k = 0 THEN AllOnes ELSE NextCrc(f[k - 1], body[k])
  <2> TAKE k \in 0..n
  <2>1. CASE k = 0 BY <1>6, <2>1 DEF GoesOn
  <2>2. CASE k # 0
    <3>1. k - 1 \in 0..(n - 1) /\ k - 1 \in 0..n /\ (k - 1) + 1 = k BY <1>1, <2>2
    <3>2. f[k] = F[<<k - 1, f[k - 1]>>] BY <1>6, <3>1 DEF GoesOn
    <3>3. F[<<k - 1, f[k - 1]>>] = NextCrc(f[k - 1], body[k]) BY <1>5, <3>1
    <3>4. QED BY <2>2, <3>2, <3>3
  <2>3. QED BY <2>1, <2>2
<1>8. Def(f) BY <1>7
<1>9. CrcAfter(body) = CHOOSE g : Def(g) BY DEF CrcAfter, n
<1>10. Def(CrcAfter(body)) BY <1>8, <1>9
<1> DEFINE g == CrcAfter(body)
<1>11. \A k \in 0..n : g[k] = IF k = 0 THEN AllOnes ELSE NextCrc(g[k - 1], body[k])
  BY <1>10
<1> HIDE DEF g, Def
<1>12. g[0] = AllOnes BY <1>1, <1>11
<1>13. \A k \in 0..(n - 1) : g[k + 1] = NextCrc(g[k], body[k + 1])
  <2> TAKE k \in 0..(n - 1)
  <2>1. k + 1 \in 0..n /\ k + 1 # 0 /\ (k + 1) - 1 = k BY <1>1
  <2>2. QED BY <1>11, <2>1
<1> DEFINE T == {k \in 0..n : g[k] \in Word}
<1>14. 0 \in T BY <1>1, <1>3, <1>12
<1>15. ASSUME NEW k \in 0..(n - 1), k \in T PROVE k + 1 \in T
  <2>1. g[k] \in Word BY <1>15
  <2>2. NextCrc(g[k], body[k + 1]) \in Word BY <1>2, <2>1, NextCrcIsEightRounds
  <2>3. k + 1 \in 0..n BY <1>1
  <2>4. QED BY <1>13, <2>2, <2>3
<1> HIDE DEF T
<1>16. \A k \in 0..n : k \in T BY <1>1, <1>14, <1>15, FromTheFirst
<1>17. \A k \in 0..n : g[k] \in Word BY <1>16 DEF T
<1>18. n \in 0..n /\ \A k \in 0..(n - 1) : k \in 0..n BY <1>1
<1>19. QED BY <1>12, <1>13, <1>17, <1>18 DEF g, n

(* The loop of Get_CRC() calculates the register of the message's bits.    *)
LEMMA TableIsSerial ==
  ASSUME NEW body \in Body
  PROVE  Reflect(CrcAfter(body)[Len(body)], 32)
           = Serial(AllOnes, BitsSet(body))[Bits(body)]
<1> DEFINE n == Len(body)
           r == Serial(AllOnes, BitsSet(body))
           T == {k \in 0..n : Reflect(CrcAfter(body)[k], 32) = r[8 * k]}
<1>1. n \in Nat BY DEF Body
<1>2. AllOnes \in Word BY DEF AllOnes, Word
<1>3. 0 \in T
  <2>1. r[0] = AllOnes BY <1>2, SerialUnfolds
  <2>2. Reflect(AllOnes, 32) \in Word
        /\ \A i \in 0..31 : i \in Reflect(AllOnes, 32) <=> 31 - i \in AllOnes
    BY Reflect32
  <2>3. \A i \in 0..31 : i \in AllOnes /\ 31 - i \in AllOnes BY DEF AllOnes
  <2>4. Reflect(AllOnes, 32) = AllOnes BY <1>2, <2>2, <2>3, SameBits
  <2>5. CrcAfter(body)[0] = AllOnes BY CrcAfterUnfolds
  <2>6. 8 * 0 = 0 /\ 0 \in 0..n BY <1>1
  <2> HIDE DEF n, r
  <2>7. Reflect(CrcAfter(body)[0], 32) = r[8 * 0] BY <2>1, <2>4, <2>5, <2>6
  <2>8. QED BY <2>6, <2>7
<1>4. ASSUME NEW k \in 0..(n - 1), k \in T PROVE k + 1 \in T
  <2> DEFINE crc == CrcAfter(body)[k]
             b == body[k + 1]
  <2>1. crc \in Word /\ CrcAfter(body)[k + 1] = NextCrc(crc, b) BY CrcAfterUnfolds
  <2>2. b \in Byte
    <3>1. k + 1 \in 1..Len(body) BY <1>1
    <3>2. QED BY <3>1 DEF Body
  <2>3. \A i \in 0..7 : i \in b <=> 8 * k + 1 + i \in BitsSet(body) BY BitOfBody
  <2>4. 8 * k \in Nat /\ 8 * k + 8 = 8 * (k + 1) /\ k + 1 \in 0..n BY <1>1
  <2> HIDE DEF crc, b
  <2>5. r[8 * k + 8] = AfterRounds(Xor(r[8 * k], Reflect(b, 32)))[8]
    BY <1>2, <2>2, <2>3, <2>4, SerialByte
  <2>6. Reflect(NextCrc(crc, b), 32)
          = AfterRounds(Xor(Reflect(crc, 32), Reflect(b, 32)))[8]
    BY <2>1, <2>2, NextCrcIsEightRounds
  <2>7. Reflect(crc, 32) = r[8 * k] BY <1>4 DEF crc
  <2> HIDE DEF r, n
  <2>8. Reflect(CrcAfter(body)[k + 1], 32) = r[8 * (k + 1)]
    BY <2>1, <2>4, <2>5, <2>6, <2>7
  <2>9. QED BY <2>4, <2>8
<1> HIDE DEF T, r
<1>5. \A k \in 0..n : k \in T BY <1>1, <1>3, <1>4, FromTheFirst
<1>6. n \in T BY <1>1, <1>5
<1>7. QED BY <1>6 DEF T, r, Bits

-----------------------------------------------------------------------------
(* A set moved by c, and a set turned around c.                            *)
LEMMA MovedBit ==
  ASSUME NEW x \in SUBSET Int, NEW c \in Int, NEW p \in Int
  PROVE  /\ p \in {i + c : i \in x} <=> p - c \in x
         /\ p \in {c - i : i \in x} <=> c - p \in x
<1>1. ASSUME p - c \in x PROVE p \in {i + c : i \in x}
  <2>1. p = (p - c) + c OBVIOUS
  <2>2. QED BY <1>1, <2>1
<1>2. ASSUME p \in {i + c : i \in x} PROVE p - c \in x
  <2>1. PICK i \in x : p = i + c BY <1>2
  <2>2. i \in Int /\ p - c = i BY <2>1
  <2>3. QED BY <2>2
<1>3. ASSUME c - p \in x PROVE p \in {c - i : i \in x}
  <2>1. p = c - (c - p) OBVIOUS
  <2>2. QED BY <1>3, <2>1
<1>4. ASSUME p \in {c - i : i \in x} PROVE c - p \in x
  <2>1. PICK i \in x : p = c - i BY <1>4
  <2>2. i \in Int /\ c - p = i BY <2>1
  <2>3. QED BY <2>2
<1>5. QED BY <1>1, <1>2, <1>3, <1>4

(* What a subtraction makes of each coefficient.                           *)
LEMMA SubtractBit ==
  ASSUME NEW m \in Nat, NEW rest \in SUBSET (0..(m + 31)), NEW e \in 32..(m + 31)
  PROVE  /\ Subtract(rest, e) \in SUBSET (0..(m + 31))
         /\ \A p \in Int :
              p \in Subtract(rest, e) <=>
                ~(p \in rest <=> e \in rest /\ p - (e - 32) \in ulPolynomial \cup {32})
<1> DEFINE G == ulPolynomial \cup {32}
           d == {e - 32 + g : g \in G}
<1>1. G \in SUBSET (0..32) BY Polynomial DEF Word
<1>2. d \in SUBSET (0..(m + 31)) BY <1>1
<1>3. \A p \in Int : p \in d <=> p - (e - 32) \in G
  <2> TAKE p \in Int
  <2>1. G \in SUBSET Int /\ e - 32 \in Int BY <1>1
  <2>2. d = {g + (e - 32) : g \in G}
    <3>1. \A g \in G : e - 32 + g = g + (e - 32) BY <2>1
    <3>2. QED BY <3>1
  <2> HIDE DEF d, G
  <2>3. QED BY <2>1, <2>2, MovedBit
<1> HIDE DEF G
<1>4. CASE e \notin rest BY <1>4 DEF Subtract
<1>5. CASE e \in rest
  <2>1. Subtract(rest, e) = Xor(rest, d) BY <1>5 DEF Subtract, G
  <2>2. Subtract(rest, e) \in SUBSET (0..(m + 31)) BY <1>2, <2>1, XorType, ZenonT(60)
  <2> HIDE DEF d
  <2>3. QED BY <1>3, <1>5, <2>1, <2>2, XorBit DEF G
<1>6. QED BY <1>4, <1>5

(* What the recursion of the division says: a rest after each subtraction. *)
LEMMA DivisionUnfolds ==
  ASSUME NEW body \in Body
  PROVE  /\ Division(body)[0] = Dividend(body)
         /\ \A t \in 0..(Bits(body) - 1) :
              Division(body)[t + 1] = Subtract(Division(body)[t], Bits(body) + 31 - t)
         /\ \A t \in 0..Bits(body) : Division(body)[t] \in SUBSET (0..(Bits(body) + 31))
<1> DEFINE n == Bits(body)
           S == SUBSET (0..(n + 31))
           F == [p \in Nat \X S |->
                   IF p[1] < n THEN Subtract(p[2], n + 31 - p[1]) ELSE p[2]]
           Def(f) == f = [t \in 0..n |-> IF t = 0 THEN Dividend(body)
                                         ELSE Subtract(f[t - 1], n + 32 - t)]
<1>1. n \in Nat
  <2>1. Len(body) \in Nat BY DEF Body
  <2>2. QED BY <2>1 DEF Bits
<1>2. Dividend(body) \in S
  <2>1. BitsSet(body) \in SUBSET (1..n) BY DEF BitsSet
  <2> HIDE DEF n
  <2>2. {n + 32 - t : t \in BitsSet(body)} \in S /\ n..n + 31 \in S BY <1>1, <2>1
  <2>3. Dividend(body) = Xor({n + 32 - t : t \in BitsSet(body)}, n..n + 31)
    BY DEF Dividend, n
  <2> HIDE DEF S
  <2>4. \A x, y : x \subseteq 0..(n + 31) /\ y \subseteq 0..(n + 31) =>
                  Xor(x, y) \subseteq 0..(n + 31)
    BY DEF Xor
  <2>5. QED BY <2>2, <2>3, <2>4 DEF S
<1> HIDE DEF n
<1>3. F \in [Nat \X S -> S]
  <2>1. ASSUME NEW p \in Nat \X S, p[1] < n
        PROVE  Subtract(p[2], n + 31 - p[1]) \in S
    <3>1. p[1] \in 0..(n - 1) /\ p[2] \in S BY <1>1, <2>1
    <3>2. n + 31 - p[1] \in 32..(n + 31) BY <1>1, <3>1
    <3>3. QED BY <1>1, <3>1, <3>2, SubtractBit
  <2>2. QED BY <2>1
<1>4. \A k \in 0..(n - 1), y \in S : F[<<k, y>>] = Subtract(y, n + 31 - k)
  <2> HIDE DEF S
  <2>1. QED BY <1>1
<1> HIDE DEF F
<1>5. PICK f \in [0..n -> S] : GoesOn(f, n, Dividend(body), F)
  <2> HIDE DEF S
  <2>1. QED BY <1>1, <1>2, <1>3, GoesOnAsFar
<1>6. \A t \in 0..n : f[t] = IF t = 0 THEN Dividend(body)
                             ELSE Subtract(f[t - 1], n + 32 - t)
  <2> TAKE t \in 0..n
  <2>1. CASE t = 0 BY <1>5, <2>1 DEF GoesOn
  <2>2. CASE t # 0
    <3>1. t - 1 \in 0..(n - 1) /\ t - 1 \in 0..n /\ (t - 1) + 1 = t
          /\ n + 31 - (t - 1) = n + 32 - t
      BY <1>1, <2>2
    <3>2. f[t] = F[<<t - 1, f[t - 1]>>] BY <1>5, <3>1 DEF GoesOn
    <3>3. f[t - 1] \in S BY <3>1
    <3>4. F[<<t - 1, f[t - 1]>>] = Subtract(f[t - 1], n + 32 - t) BY <1>4, <3>1, <3>3
    <3>5. QED BY <2>2, <3>2, <3>4
  <2>3. QED BY <2>1, <2>2
<1>7. Def(f) BY <1>6
<1>8. Division(body) = CHOOSE g : Def(g) BY DEF Division, n
<1>9. Def(Division(body)) BY <1>7, <1>8
<1> DEFINE g == Division(body)
<1>10. \A t \in 0..n : g[t] = IF t = 0 THEN Dividend(body)
                              ELSE Subtract(g[t - 1], n + 32 - t)
  BY <1>9
<1> HIDE DEF g, Def
<1>11. g[0] = Dividend(body) BY <1>1, <1>10
<1>12. \A t \in 0..(n - 1) : g[t + 1] = Subtract(g[t], n + 31 - t)
  <2> TAKE t \in 0..(n - 1)
  <2>1. t + 1 \in 0..n /\ t + 1 # 0 /\ (t + 1) - 1 = t /\ n + 32 - (t + 1) = n + 31 - t
    BY <1>1
  <2>2. QED BY <1>10, <2>1
<1> DEFINE T == {t \in 0..n : g[t] \in S}
<1>14. 0 \in T BY <1>1, <1>2, <1>11
<1>15. ASSUME NEW t \in 0..(n - 1), t \in T PROVE t + 1 \in T
  <2>1. g[t] \in S BY <1>15
  <2>2. n + 31 - t \in 32..(n + 31) /\ t + 1 \in 0..n BY <1>1
  <2> DEFINE rest == g[t]
             e == n + 31 - t
  <2> HIDE DEF rest, e
  <2>3. rest \in SUBSET (0..(n + 31)) /\ e \in 32..(n + 31) BY <2>1, <2>2 DEF rest, e
  <2>4. Subtract(rest, e) \in S BY <1>1, <2>3, SubtractBit
  <2>5. QED BY <1>12, <2>2, <2>4 DEF rest, e
<1> HIDE DEF T
<1>16. \A t \in 0..n : t \in T BY <1>1, <1>14, <1>15, FromTheFirst
<1>17. \A t \in 0..n : g[t] \in S BY <1>16 DEF T
<1>18. QED BY <1>11, <1>12, <1>17 DEF g, n

(* What is divided: the bits turned around, the first 32 complemented.     *)
LEMMA DividendBit ==
  ASSUME NEW body, Bits(body) \in Nat, NEW p \in Int
  PROVE  p \in Dividend(body) <=>
           ~(Bits(body) + 32 - p \in BitsSet(body) <=> p - Bits(body) \in AllOnes)
<1> DEFINE n == Bits(body)
           B == BitsSet(body)
           U == {n + 32 - t : t \in B}
           V == n..n + 31
<1>1. n \in Nat /\ B \in SUBSET (1..n) BY DEF BitsSet
<1>2. Dividend(body) = Xor(U, V) BY DEF Dividend
<1> HIDE DEF n, B
<1>3. p \in U <=> n + 32 - p \in B
  <2>1. ASSUME p \in U PROVE n + 32 - p \in B
    <3>1. PICK t \in B : p = n + 32 - t BY <2>1
    <3>2. t \in Int /\ t = n + 32 - p BY <1>1, <3>1
    <3>3. QED BY <3>2
  <2>2. ASSUME n + 32 - p \in B PROVE p \in U
    <3>1. p = n + 32 - (n + 32 - p) BY <1>1
    <3>2. QED BY <2>2, <3>1
  <2>3. QED BY <2>1, <2>2
<1>4. p \in V <=> p - n \in AllOnes BY <1>1 DEF AllOnes
<1> HIDE DEF U, V
<1>5. p \in Xor(U, V) <=> ~(p \in U <=> p \in V) BY XorBit
<1>6. QED BY <1>2, <1>3, <1>4, <1>5 DEF n, B

(* The rest after t subtractions: the register after t bits, and the bits  *)
(* that have not entered it.                                               *)
LEMMA DivisionIsSerial ==
  ASSUME NEW body \in Body
  PROVE  Division(body)[Bits(body)] = Serial(AllOnes, BitsSet(body))[Bits(body)]
<1> DEFINE n == Bits(body)
           B == BitsSet(body)
           D == Division(body)
           r == Serial(AllOnes, B)
           Agree(t) == \A p \in Int :
             p \in D[t] <=> ~(p - (n - t) \in r[t] <=> n + 32 - p \in B /\ n + 32 - p > t)
           T == {t \in 0..n : Agree(t)}
<1>1. n \in Nat
  <2>1. Len(body) \in Nat BY DEF Body
  <2>2. QED BY <2>1 DEF Bits
<1>2. AllOnes \in Word BY DEF AllOnes, Word
<1>3. r \in [Nat -> Word] /\ r[0] = AllOnes
      /\ \A t \in Nat : r[t + 1] = TableRound(Xor(r[t], Top(t + 1, B)))
  BY <1>2, SerialUnfolds
<1>4. /\ D[0] = Dividend(body)
      /\ \A t \in 0..(n - 1) : D[t + 1] = Subtract(D[t], n + 31 - t)
      /\ \A t \in 0..n : D[t] \in SUBSET (0..(n + 31))
  BY DivisionUnfolds
<1>5. B \in SUBSET (1..n) BY DEF BitsSet
<1> HIDE DEF n, B, D, r
<1>6. 0 \in T
  <2> SUFFICES ASSUME NEW p \in Int
               PROVE  p \in D[0] <=>
                        ~(p - (n - 0) \in r[0] <=> n + 32 - p \in B /\ n + 32 - p > 0)
    BY <1>1
  <2>1. p \in D[0] <=> ~(n + 32 - p \in B <=> p - n \in AllOnes)
    BY <1>1, <1>4, DividendBit DEF n, B
  <2>2. n + 32 - p \in B => n + 32 - p > 0 BY <1>1, <1>5
  <2>3. p - (n - 0) = p - n BY <1>1
  <2>4. QED BY <1>3, <2>1, <2>2, <2>3
<1>7. ASSUME NEW t \in 0..(n - 1), t \in T PROVE t + 1 \in T
  <2> DEFINE y == Xor(r[t], Top(t + 1, B))
             e == n + 31 - t
             d == n - (t + 1)
  <2>1. e \in 32..(n + 31) /\ d \in Nat /\ e - 32 = d /\ t + 1 \in 0..n BY <1>1
  <2>2. r[t] \in Word /\ y \in Word /\ TableRound(y) \in Word
    BY <1>3, TopWord, XorWord, RoundBit
  <2>3. \A i \in Int : i # 31 => (i \in y <=> i \in r[t])
    BY XorBit DEF Top
  <2>4. 31 \in y <=> ~(31 \in r[t] <=> t + 1 \in B) BY XorBit DEF Top
  <2>5. r[t + 1] = TableRound(y) BY <1>3
  <2>6. D[t] \in SUBSET (0..(n + 31)) /\ D[t + 1] = Subtract(D[t], e) BY <1>1, <1>4
  <2>7. \A p \in Int : p \in D[t] <=>
          ~(p - (n - t) \in r[t] <=> n + 32 - p \in B /\ n + 32 - p > t)
    BY <1>7
  <2> HIDE DEF y
  <2>8. e \in D[t] <=> 31 \in y
    <3>1. e \in Int /\ e - (n - t) = 31 /\ n + 32 - e = t + 1 /\ t + 1 > t BY <1>1
    <3>2. QED BY <2>4, <2>7, <3>1
  <2>9. \A p \in Int : p \in D[t + 1] <=>
          ~(p \in D[t] <=> 31 \in y /\ p - d \in ulPolynomial \cup {32})
    <3> HIDE DEF e, d
    <3>1. QED BY <1>1, <2>1, <2>6, <2>8, SubtractBit
  <2>10. ASSUME NEW p \in Int
         PROVE  p \in D[t + 1] <=>
                  ~(p - d \in TableRound(y) <=> n + 32 - p \in B /\ n + 32 - p > t + 1)
    <3>1. p - (n - t) = (p - d) - 1 BY <1>1
    <3>2. p \in D[t] <=> ~((p - d) - 1 \in r[t] <=> n + 32 - p \in B /\ n + 32 - p > t)
      BY <2>7, <3>1
    <3>3. n + 32 - p = t + 33 - (p - d) BY <1>1
    <3>4. CASE p - d = 32
      <4>1. p = e BY <1>1, <3>4
      <4>2. p \in D[t] <=> 31 \in y BY <2>8, <4>1
      <4>3. p \notin D[t + 1] BY <2>9, <3>4, <4>2
      <4>4. p - d \notin TableRound(y) BY <2>2, <3>4 DEF Word
      <4>5. ~(n + 32 - p > t + 1) BY <3>3, <3>4
      <4>6. QED BY <4>3, <4>4, <4>5
    <3>5. CASE p - d \in 0..31
      <4>1. p - d \in TableRound(y) <=>
              ~((p - d) - 1 \in y <=> 31 \in y /\ p - d \in ulPolynomial)
        BY <2>2, <3>5, RoundBit
      <4>2. (p - d) - 1 \in Int /\ (p - d) - 1 # 31 BY <3>5
      <4>3. (p - d) - 1 \in y <=> (p - d) - 1 \in r[t] BY <2>3, <4>2
      <4>4. n + 32 - p > t /\ n + 32 - p > t + 1 BY <3>3, <3>5
      <4>5. p - d # 32 BY <3>5
      <4>6. QED BY <2>9, <3>2, <4>1, <4>3, <4>4, <4>5
    <3>6. CASE ~(p - d \in 0..32)
      <4>1. p - d \notin TableRound(y) BY <2>2, <3>6 DEF Word
      <4>2. p - d \notin ulPolynomial \cup {32}
        <5>1. \A i \in ulPolynomial \cup {32} : i \in 0..32 BY Polynomial DEF Word
        <5>2. QED BY <3>6, <5>1
      <4>3. (p - d) - 1 \notin r[t]
        <5>1. (p - d) - 1 \notin 0..31 BY <2>1, <3>6
        <5>2. QED BY <2>2, <5>1 DEF Word
      <4>4. n + 32 - p > t <=> n + 32 - p > t + 1 BY <2>1, <3>3, <3>6
      <4>5. QED BY <2>9, <3>2, <4>1, <4>2, <4>3, <4>4
    <3>7. p - d \in Int /\ (p - d = 32 \/ p - d \in 0..31 \/ ~(p - d \in 0..32)) BY <2>1
    <3>8. QED BY <3>4, <3>5, <3>6, <3>7
  <2>11. Agree(t + 1) BY <2>5, <2>10
  <2> HIDE DEF Agree
  <2>12. QED BY <2>1, <2>11
<1> HIDE DEF T
<1>8. \A t \in 0..n : t \in T BY <1>1, <1>6, <1>7, FromTheFirst
<1>9. Agree(n) BY <1>1, <1>8 DEF T
<1>10. \A p \in Int : p \in D[n] <=> p \in r[n]
  <2> TAKE p \in Int
  <2>1. p - (n - n) = p BY <1>1
  <2>2. ~(n + 32 - p \in B /\ n + 32 - p > n)
    BY <1>1, <1>5
  <2>3. QED BY <1>9, <2>1, <2>2
<1>11. D[n] \in SUBSET Int /\ r[n] \in SUBSET Int
  <2>1. n \in 0..n BY <1>1
  <2>2. D[n] \in SUBSET (0..(n + 31)) BY <1>4, <2>1
  <2>3. r[n] \in Word BY <1>1, <1>3
  <2>4. QED BY <2>2, <2>3 DEF Word
<1>12. D[n] = r[n] BY <1>10, <1>11
<1>13. QED BY <1>12 DEF D, r, n, B

(* For every body the table gives the checksum that the definition of      *)
(* CRC-32 gives: the shifts and reflections of Init_CRC32_Table() and      *)
(* Get_CRC() fit together.                                                 *)
THEOREM TableCalculatesCRC ==
  ASSUME NEW body \in Body PROVE Get_CRC(body) = StandardCRC(body)
<1> DEFINE crc == CrcAfter(body)[Len(body)]
           r == Serial(AllOnes, BitsSet(body))[Bits(body)]
<1>1. crc \in Word BY CrcAfterUnfolds
<1>2. Reflect(crc, 32) = r BY TableIsSerial
<1>3. Division(body)[Bits(body)] = r BY DivisionIsSerial
<1>4. Get_CRC(body) = Xor(crc, AllOnes) BY DEF Get_CRC
<1>5. StandardCRC(body) = {i \in 0..31 : 31 - i \notin r} BY <1>3 DEF StandardCRC
<1> HIDE DEF crc, r
<1>6. \A i \in 0..31 : 31 - i \in r <=> i \in crc
  <2> TAKE i \in 0..31
  <2>1. 31 - i \in 0..31 /\ 31 - (31 - i) = i OBVIOUS
  <2>2. QED BY <1>2, <2>1, Reflect32
<1>7. AllOnes \in Word /\ \A i \in 0..31 : i \in AllOnes BY DEF AllOnes, Word
<1>8. Xor(crc, AllOnes) \in Word BY <1>1, <1>7, XorWord
<1>9. {i \in 0..31 : 31 - i \notin r} \in Word BY DEF Word
<1>10. ASSUME NEW i \in 0..31
       PROVE  i \in Xor(crc, AllOnes) <=> i \in {j \in 0..31 : 31 - j \notin r}
  BY <1>6, <1>7, XorBit
<1>11. QED BY <1>4, <1>5, <1>8, <1>9, <1>10, SameBits

-----------------------------------------------------------------------------
(* The register is linear in what it starts from and in the bits.          *)
LEMMA SerialLinear ==
  \A x, y \in Word, n \in Nat : \A A, B :
    Serial(Xor(x, y), Xor(A, B))[n] = Xor(Serial(x, A)[n], Serial(y, B)[n])
<1> SUFFICES ASSUME NEW x \in Word, NEW y \in Word, NEW n \in Nat, NEW A, NEW B
             PROVE  Serial(Xor(x, y), Xor(A, B))[n]
                      = Xor(Serial(x, A)[n], Serial(y, B)[n])
  OBVIOUS
<1> DEFINE r == Serial(x, A)
           s == Serial(y, B)
           u == Serial(Xor(x, y), Xor(A, B))
           T == {t \in Nat : u[t] = Xor(r[t], s[t])}
<1>1. Xor(x, y) \in Word BY XorWord
<1>2. /\ r \in [Nat -> Word] /\ r[0] = x
      /\ \A t \in Nat : r[t + 1] = TableRound(Xor(r[t], Top(t + 1, A)))
  BY SerialUnfolds
<1>3. /\ s \in [Nat -> Word] /\ s[0] = y
      /\ \A t \in Nat : s[t + 1] = TableRound(Xor(s[t], Top(t + 1, B)))
  BY SerialUnfolds
<1>4. /\ u[0] = Xor(x, y)
      /\ \A t \in Nat : u[t + 1] = TableRound(Xor(u[t], Top(t + 1, Xor(A, B))))
  BY <1>1, SerialUnfolds
<1> HIDE DEF r, s, u
<1>5. \A t : Top(t, Xor(A, B)) = Xor(Top(t, A), Top(t, B))
  <2> TAKE t
  <2>1. t \in Xor(A, B) <=> ~(t \in A <=> t \in B) BY XorBit
  <2>2. CASE t \in A /\ t \in B BY <2>1, <2>2, XorLaws DEF Top
  <2>3. CASE t \in A /\ t \notin B BY <2>1, <2>3, XorLaws DEF Top
  <2>4. CASE t \notin A /\ t \in B BY <2>1, <2>4, XorLaws DEF Top
  <2>5. CASE t \notin A /\ t \notin B BY <2>1, <2>5, XorLaws DEF Top
  <2>6. QED BY <2>2, <2>3, <2>4, <2>5
<1>6. 0 \in T BY <1>2, <1>3, <1>4
<1>7. ASSUME NEW t \in Nat, t \in T PROVE t + 1 \in T
  <2> DEFINE a == Xor(r[t], Top(t + 1, A))
             b == Xor(s[t], Top(t + 1, B))
  <2>1. a \in Word /\ b \in Word BY <1>2, <1>3, TopWord, XorWord
  <2>2. Xor(u[t], Top(t + 1, Xor(A, B))) = Xor(a, b) BY <1>5, <1>7, XorPairs
  <2>3. u[t + 1] = TableRound(Xor(a, b)) BY <1>4, <2>2
  <2>4. r[t + 1] = TableRound(a) /\ s[t + 1] = TableRound(b) BY <1>2, <1>3
  <2> HIDE DEF a, b
  <2>5. u[t + 1] = Xor(r[t + 1], s[t + 1]) BY <2>1, <2>3, <2>4, RoundLinear
  <2>6. QED BY <2>5
<1> HIDE DEF T
<1>8. \A t \in Nat : t \in T BY <1>6, <1>7, FromZero
<1>9. QED BY <1>8 DEF T, r, s, u

(* The remainder of a power of x.                                          *)
Power(k) == AfterRounds({0})[k]

(* A round makes nothing of nothing.                                       *)
LEMMA RoundOfNothing == TableRound({}) = {}
<1>1. {} \in Word BY DEF Word
<1>2. TableRound({}) \in Word BY <1>1, RoundBit
<1>3. \A i \in 0..31 : i \in TableRound({}) <=> i \in {} BY <1>1, RoundBit
<1>4. QED BY <1>1, <1>2, <1>3, SameBits

(* The powers below 32 are single coefficients; none is zero.              *)
LEMMA Powers ==
  /\ {0} \in Word /\ {} \in Word
  /\ \A k \in Nat : Power(k) \in Word /\ Power(k) # {}
  /\ \A k \in 0..31 : Power(k) = {k}
<1>1. {0} \in Word /\ {} \in Word BY DEF Word
<1>2. \A k \in Nat : AfterRounds({})[k] = {}
  <2> DEFINE T == {k \in Nat : AfterRounds({})[k] = {}}
  <2>1. 0 \in T BY <1>1, AfterRoundsUnfolds
  <2>2. ASSUME NEW k \in Nat, k \in T PROVE k + 1 \in T
    <3>1. AfterRounds({})[k + 1] = TableRound(AfterRounds({})[k])
      BY <1>1, AfterRoundsUnfolds
    <3>2. QED BY <2>2, <3>1, RoundOfNothing
  <2> HIDE DEF T
  <2>3. \A k \in Nat : k \in T BY <2>1, <2>2, FromZero
  <2>4. QED BY <2>3 DEF T
<1>3. ASSUME NEW k \in Nat PROVE Power(k) \in Word /\ Power(k) # {}
  <2>1. Power(k) \in Word BY <1>1, AfterRoundsUnfolds DEF Power
  <2>2. {0} # {} OBVIOUS
  <2>3. Power(k) # {} BY <1>1, <1>2, <2>2, RoundsInjective, ZenonT(60) DEF Power
  <2>4. QED BY <2>1, <2>3
<1>4. ASSUME NEW k \in 0..31 PROVE Power(k) = {k}
  <2>1. {0} \in SUBSET (0..(31 - k)) OBVIOUS
  <2>2. AfterRounds({0})[k] = {i + k : i \in {0}} BY <2>1, RoundsShift
  <2>3. {i + k : i \in {0}} = {k} OBVIOUS
  <2>4. QED BY <2>2, <2>3 DEF Power
<1>5. QED BY <1>1, <1>3, <1>4

(* Powers less apart than PowersDiffer says are different.                 *)
LEMMA PowersApart ==
  ASSUME NEW bits \in Nat, PowersDiffer(bits),
         NEW a \in 0..(bits - 1), NEW b \in 0..(bits - 1), a # b
  PROVE  Power(a) # Power(b)
<1>1. ASSUME NEW c \in 0..(bits - 1), NEW d \in 0..(bits - 1), c < d
      PROVE  Power(c) # Power(d)
  <2>1. d - c \in 1..(bits - 1) /\ d - c \in Nat /\ (d - c) + c = d /\ c \in Nat
    BY <1>1
  <2>2. Power(d - c) # {0} BY <2>1 DEF PowersDiffer, Power
  <2>3. AfterRounds(Power(d - c))[c] = Power(d)
    BY <2>1, Powers, RoundsAfterRounds DEF Power
  <2>4. Power(d - c) \in Word /\ {0} \in Word BY <2>1, Powers
  <2>5. AfterRounds({0})[c] = AfterRounds(Power(d - c))[c] => {0} = Power(d - c)
    BY <2>1, <2>4, RoundsInjective
  <2>6. QED BY <2>2, <2>3, <2>5 DEF Power
<1>2. a < b \/ b < a OBVIOUS
<1>3. QED BY <1>1, <1>2

(* A register that starts from nothing holds nothing until the first bit.  *)
LEMMA SerialQuiet ==
  ASSUME NEW A, NEW n \in Nat, \A t \in 1..n : t \notin A
  PROVE  Serial({}, A)[n] = {}
<1> DEFINE r == Serial({}, A)
           T == {t \in 0..n : r[t] = {}}
<1>1. /\ r[0] = {}
      /\ \A t \in Nat : r[t + 1] = TableRound(Xor(r[t], Top(t + 1, A)))
  BY Powers, SerialUnfolds
<1> HIDE DEF r
<1>2. 0 \in T BY <1>1
<1>3. TableRound({}) = {} BY RoundOfNothing
<1>4. ASSUME NEW t \in 0..(n - 1), t \in T PROVE t + 1 \in T
  <2>1. t + 1 \in 1..n /\ t + 1 \in 0..n BY <1>4
  <2>2. Top(t + 1, A) = {} BY <2>1 DEF Top
  <2>3. Xor({}, {}) = {} BY XorLaws
  <2>4. r[t + 1] = {} BY <1>1, <1>3, <1>4, <2>2, <2>3
  <2>5. QED BY <2>1, <2>4
<1> HIDE DEF T
<1>5. \A t \in 0..n : t \in T BY <1>2, <1>4, FromTheFirst
<1>6. QED BY <1>5 DEF T, r

(* One bit leaves a power of x behind, according to its place.             *)
LEMMA SerialOneBit ==
  ASSUME NEW n \in Nat, NEW u \in 1..n
  PROVE  Serial({}, {u})[n] = Power(n + 32 - u)
<1> DEFINE r == Serial({}, {u})
           T == {k \in 0..(n - u) : r[u + k] = Power(32 + k)}
<1>1. \A t \in Nat : /\ r[t + 1] = TableRound(Xor(r[t], Top(t + 1, {u})))
                     /\ r[t] \in Word
  BY Powers, SerialUnfolds
<1>2. r[u - 1] = {} BY SerialQuiet
<1> HIDE DEF r
<1>3. \A k \in Nat : Power(k + 1) = TableRound(Power(k))
  BY Powers, AfterRoundsUnfolds DEF Power
<1>4. 0 \in T
  <2>1. u - 1 \in Nat /\ (u - 1) + 1 = u OBVIOUS
  <2>2. Top(u, {u}) = {31} BY DEF Top
  <2>3. r[u] = TableRound(Xor({}, {31})) BY <1>1, <1>2, <2>1, <2>2
  <2>4. Power(31) = {31} /\ 31 \in Nat /\ 31 + 1 = 32 BY Powers
  <2>5. r[u] = Power(32) BY <1>3, <2>3, <2>4, XorLaws
  <2>6. u + 0 = u /\ 32 + 0 = 32 /\ 0 \in 0..(n - u) OBVIOUS
  <2>7. QED BY <2>5, <2>6
<1>5. ASSUME NEW k \in 0..((n - u) - 1), k \in T PROVE k + 1 \in T
  <2>1. u + k \in Nat /\ (u + k) + 1 = u + (k + 1) /\ (u + k) + 1 # u
        /\ k + 1 \in 0..(n - u)
    BY <1>5
  <2>2. Top((u + k) + 1, {u}) = {} BY <2>1 DEF Top
  <2>3. r[(u + k) + 1] = TableRound(r[u + k])
    <3>1. r[(u + k) + 1] = TableRound(Xor(r[u + k], Top((u + k) + 1, {u})))
      BY <1>1, <2>1
    <3>2. Xor(r[u + k], {}) = r[u + k] BY XorLaws
    <3>3. QED BY <2>2, <3>1, <3>2
  <2>4. r[u + k] = Power(32 + k) BY <1>5
  <2>5. 32 + k \in Nat /\ (32 + k) + 1 = 32 + (k + 1) OBVIOUS
  <2>6. r[u + (k + 1)] = Power(32 + (k + 1)) BY <1>3, <2>1, <2>3, <2>4, <2>5
  <2>7. QED BY <2>1, <2>6
<1> HIDE DEF T
<1>6. n - u \in Nat OBVIOUS
<1>7. \A k \in 0..(n - u) : k \in T BY <1>4, <1>5, <1>6, FromTheFirst
<1>8. n - u \in T BY <1>6, <1>7
<1>9. u + (n - u) = n /\ 32 + (n - u) = n + 32 - u OBVIOUS
<1>10. QED BY <1>8, <1>9 DEF T, r

-----------------------------------------------------------------------------
(* Where ntohl() puts bit i.                                               *)
Turned(i) == IF i < 8 THEN i + 24 ELSE IF i < 16 THEN i + 8
             ELSE IF i < 24 THEN i - 8 ELSE i - 24

(* Turning the bytes around twice changes nothing.                         *)
LEMMA TurnedTwice ==
  ASSUME NEW i \in 0..31
  PROVE  Turned(i) \in 0..31 /\ Turned(Turned(i)) = i
BY DEF Turned

(* ntohl(), bit by bit.                                                    *)
LEMMA NtohlBit ==
  ASSUME NEW x \in Word
  PROVE  /\ ntohl(x) \in Word /\ ntohl(ntohl(x)) = x
         /\ \A i \in 0..31 : i \in ntohl(x) <=> Turned(i) \in x
<1>1. \A i \in 0..31 : 8 * (4 - 1 - i \div 8) + (i % 8) = Turned(i)
  <2> TAKE i \in 0..31
  <2>1. CASE i < 8
    <3>1. i \div 8 = 0 /\ i % 8 = i BY <2>1
    <3>2. QED BY <2>1, <3>1 DEF Turned
  <2>2. CASE 8 <= i /\ i < 16
    <3>1. i \div 8 = 1 /\ i % 8 = i - 8 BY <2>2
    <3>2. QED BY <2>2, <3>1 DEF Turned
  <2>3. CASE 16 <= i /\ i < 24
    <3>1. i \div 8 = 2 /\ i % 8 = i - 16 BY <2>3
    <3>2. QED BY <2>3, <3>1 DEF Turned
  <2>4. CASE 24 <= i
    <3>1. i \div 8 = 3 /\ i % 8 = i - 24 BY <2>4
    <3>2. QED BY <2>4, <3>1 DEF Turned
  <2>5. QED BY <2>1, <2>2, <2>3, <2>4
<1>2. ASSUME NEW y \in Word PROVE ntohl(y) = {Turned(i) : i \in y}
  <2>1. ntohl(y) = {8 * (4 - 1 - i \div 8) + (i % 8) : i \in y} BY DEF ntohl, Swap
  <2>2. \A i \in y : 8 * (4 - 1 - i \div 8) + (i % 8) = Turned(i) BY <1>1 DEF Word
  <2>3. QED BY <2>1, <2>2
<1>3. ASSUME NEW y \in Word
      PROVE  ntohl(y) \in Word /\ \A i \in 0..31 : i \in ntohl(y) <=> Turned(i) \in y
  <2>1. \A i \in y : i \in 0..31 BY DEF Word
  <2>2. ntohl(y) \in Word BY <1>2, <2>1, TurnedTwice DEF Word
  <2>3. ASSUME NEW i \in 0..31 PROVE i \in ntohl(y) <=> Turned(i) \in y
    <3>1. ASSUME Turned(i) \in y PROVE i \in ntohl(y)
      BY <1>2, <3>1, TurnedTwice
    <3>2. ASSUME i \in ntohl(y) PROVE Turned(i) \in y
      <4>1. PICK j \in y : i = Turned(j) BY <1>2, <3>2
      <4>2. Turned(i) = j BY <2>1, <4>1, TurnedTwice
      <4>3. QED BY <4>2
    <3>3. QED BY <3>1, <3>2
  <2>4. QED BY <2>2, <2>3
<1>4. ntohl(x) \in Word /\ \A i \in 0..31 : i \in ntohl(x) <=> Turned(i) \in x
  BY <1>3
<1>5. ntohl(ntohl(x)) \in Word
      /\ \A i \in 0..31 : i \in ntohl(ntohl(x)) <=> Turned(i) \in ntohl(x)
  BY <1>3, <1>4
<1>6. \A i \in 0..31 : i \in ntohl(ntohl(x)) <=> i \in x BY <1>4, <1>5, TurnedTwice
<1>7. ntohl(ntohl(x)) = x BY <1>5, <1>6, SameBits
<1>8. QED BY <1>4, <1>7

(* ntohl() is linear.                                                      *)
LEMMA NtohlLinear ==
  ASSUME NEW x \in Word, NEW y \in Word
  PROVE  ntohl(Xor(x, y)) = Xor(ntohl(x), ntohl(y))
<1>1. Xor(x, y) \in Word /\ ntohl(x) \in Word /\ ntohl(y) \in Word
  BY XorWord, NtohlBit
<1>2. ntohl(Xor(x, y)) \in Word /\ Xor(ntohl(x), ntohl(y)) \in Word
  BY <1>1, XorWord, NtohlBit
<1>3. ASSUME NEW i \in 0..31
      PROVE  i \in ntohl(Xor(x, y)) <=> i \in Xor(ntohl(x), ntohl(y))
  BY <1>1, XorBit, NtohlBit
<1>4. QED BY <1>2, <1>3, SameBits

-----------------------------------------------------------------------------
(* What the changed bits of a packet add to its checksum: those of the     *)
(* body through the register, those of the checksum as they are.           *)
Marks(H, n) == {t \in 1..n : t + 47 \in H}
Hits(H) == {b - 16 : b \in H \cap (16..47)}
Syndrome(H, n) == Xor(Serial({}, Marks(H, n))[n], Reflect(ntohl(Hits(H)), 32))
Checked(n) == 16..(n + 47)

(* The changed bits of the checksum.                                       *)
LEMMA HitsBit ==
  ASSUME NEW H
  PROVE  Hits(H) \in Word /\ \A i \in 0..31 : i \in Hits(H) <=> i + 16 \in H
<1>1. Hits(H) \in Word
  <2>1. \A b \in 16..47 : b - 16 \in 0..31 OBVIOUS
  <2>2. QED BY <2>1 DEF Hits, Word
<1>2. ASSUME NEW i \in 0..31 PROVE i \in Hits(H) <=> i + 16 \in H
  <2>1. ASSUME i + 16 \in H PROVE i \in Hits(H)
    <3>1. i + 16 \in 16..47 /\ i = (i + 16) - 16 OBVIOUS
    <3>2. QED BY <2>1, <3>1 DEF Hits
  <2>2. ASSUME i \in Hits(H) PROVE i + 16 \in H
    <3>1. PICK b \in H \cap (16..47) : i = b - 16 BY <2>2 DEF Hits
    <3>2. i + 16 = b BY <3>1
    <3>3. QED BY <3>2
  <2>3. QED BY <2>1, <2>2
<1>3. QED BY <1>1, <1>2

(* What two sets of changes add is what each of them adds.                 *)
LEMMA SyndromeSum ==
  ASSUME NEW n \in Nat, NEW H, NEW K
  PROVE  Syndrome(Xor(H, K), n) = Xor(Syndrome(H, n), Syndrome(K, n))
<1>1. Marks(Xor(H, K), n) = Xor(Marks(H, n), Marks(K, n)) BY DEF Marks, Xor
<1>2. Hits(Xor(H, K)) = Xor(Hits(H), Hits(K))
  <2>1. Hits(Xor(H, K)) \in Word /\ Xor(Hits(H), Hits(K)) \in Word
    BY HitsBit, XorWord
  <2>2. ASSUME NEW i \in 0..31
        PROVE  i \in Hits(Xor(H, K)) <=> i \in Xor(Hits(H), Hits(K))
    BY HitsBit, XorBit
  <2>3. QED BY <2>1, <2>2, SameBits
<1> DEFINE a == Serial({}, Marks(H, n))[n]
           b == Serial({}, Marks(K, n))[n]
           c == Reflect(ntohl(Hits(H)), 32)
           d == Reflect(ntohl(Hits(K)), 32)
<1>3. Serial({}, Marks(Xor(H, K), n))[n] = Xor(a, b)
  <2>1. {} \in Word /\ Xor({}, {}) = {} BY Powers, XorLaws
  <2>2. Serial(Xor({}, {}), Xor(Marks(H, n), Marks(K, n)))[n] = Xor(a, b)
    BY <2>1, SerialLinear
  <2>3. QED BY <1>1, <2>1, <2>2
<1>4. Reflect(ntohl(Hits(Xor(H, K))), 32) = Xor(c, d)
  <2>1. Hits(H) \in Word /\ Hits(K) \in Word BY HitsBit
  <2>2. ntohl(Hits(H)) \in Word /\ ntohl(Hits(K)) \in Word BY <2>1, NtohlBit
  <2>3. ntohl(Hits(Xor(H, K))) = Xor(ntohl(Hits(H)), ntohl(Hits(K)))
    BY <1>2, <2>1, NtohlLinear
  <2>4. QED BY <2>2, <2>3, ReflectLinear
<1>5. Syndrome(H, n) = Xor(a, c) /\ Syndrome(K, n) = Xor(b, d) BY DEF Syndrome
<1>6. Syndrome(Xor(H, K), n) = Xor(Xor(a, b), Xor(c, d)) BY <1>3, <1>4 DEF Syndrome
<1> HIDE DEF a, b, c, d
<1>7. QED BY <1>5, <1>6, XorPairs

(* A bit's place as the power of x that it stands for: the checksum's are  *)
(* below 32, the first of the body has the highest.                        *)
Exponent(q, n) == IF q < 48 THEN 31 - Turned(q - 16) ELSE n + 79 - q

(* Different bits stand for different powers.                              *)
LEMMA ExponentsDiffer ==
  ASSUME NEW n \in Nat, NEW p \in Checked(n), NEW q \in Checked(n)
  PROVE  /\ Exponent(q, n) \in 0..((n + 32) - 1)
         /\ p # q => Exponent(p, n) # Exponent(q, n)
<1>1. ASSUME NEW r \in Checked(n), r < 48
      PROVE  Exponent(r, n) \in 0..31 /\ Turned(31 - Exponent(r, n)) + 16 = r
  <2>1. r - 16 \in 0..31 BY <1>1 DEF Checked
  <2>2. Turned(r - 16) \in 0..31 /\ Turned(Turned(r - 16)) = r - 16
    BY <2>1, TurnedTwice
  <2>3. 31 - (31 - Turned(r - 16)) = Turned(r - 16) BY <2>2
  <2>4. Exponent(r, n) = 31 - Turned(r - 16) BY <1>1 DEF Exponent
  <2>5. (r - 16) + 16 = r BY DEF Checked
  <2>6. QED BY <2>2, <2>3, <2>4, <2>5
<1>2. ASSUME NEW r \in Checked(n), ~(r < 48)
      PROVE  Exponent(r, n) \in 32..(n + 31) /\ n + 79 - Exponent(r, n) = r
  BY <1>2 DEF Checked, Exponent
<1>3. Exponent(q, n) \in 0..((n + 32) - 1) BY <1>1, <1>2
<1>4. ASSUME p # q PROVE Exponent(p, n) # Exponent(q, n)
  <2>1. CASE p < 48 /\ q < 48 BY <1>1, <1>4, <2>1
  <2>2. CASE ~(p < 48) /\ ~(q < 48) BY <1>2, <1>4, <2>2
  <2>3. CASE p < 48 /\ ~(q < 48) BY <1>1, <1>2, <2>3
  <2>4. CASE ~(p < 48) /\ q < 48 BY <1>1, <1>2, <2>4
  <2>5. QED BY <2>1, <2>2, <2>3, <2>4
<1>5. QED BY <1>3, <1>4

(* A single changed bit adds the power it stands for.                      *)
LEMMA SyndromeOfOne ==
  ASSUME NEW n \in Nat, NEW q \in Checked(n)
  PROVE  Syndrome({q}, n) = Power(Exponent(q, n))
<1> DEFINE c == Reflect(ntohl(Hits({q})), 32)
<1>1. Hits({q}) \in Word /\ \A i \in 0..31 : i \in Hits({q}) <=> i + 16 = q
  BY HitsBit
<1>2. c \in Word /\ \A i \in 0..31 : i \in c <=> 31 - i \in ntohl(Hits({q}))
  BY Reflect32
<1>3. ASSUME NEW i \in 0..31 PROVE i \in c <=> Turned(31 - i) + 16 = q
  <2>1. 31 - i \in 0..31 OBVIOUS
  <2>2. 31 - i \in ntohl(Hits({q})) <=> Turned(31 - i) \in Hits({q})
    BY <1>1, <2>1, NtohlBit
  <2>3. Turned(31 - i) \in 0..31 BY <2>1, TurnedTwice
  <2>4. QED BY <1>1, <1>2, <2>2, <2>3
<1> HIDE DEF c
<1>4. Syndrome({q}, n) = Xor(Serial({}, Marks({q}, n))[n], c) BY DEF Syndrome, c
<1>5. CASE q < 48
  <2> DEFINE e == 31 - Turned(q - 16)
  <2>1. q - 16 \in 0..31 BY <1>5 DEF Checked
  <2>2. Turned(q - 16) \in 0..31 /\ Turned(Turned(q - 16)) = q - 16
    BY <2>1, TurnedTwice
  <2>3. e \in 0..31 BY <2>2
  <2>4. ASSUME NEW i \in 0..31 PROVE i \in c <=> i \in {e}
    <3>1. 31 - i \in 0..31 OBVIOUS
    <3>2. Turned(31 - i) \in 0..31 /\ Turned(Turned(31 - i)) = 31 - i
      BY <3>1, TurnedTwice
    <3>3. ASSUME Turned(31 - i) + 16 = q PROVE i = e
      <4>1. Turned(31 - i) = q - 16 BY <2>1, <3>2, <3>3
      <4>2. 31 - i = Turned(q - 16) BY <3>2, <4>1
      <4>3. QED BY <2>2, <4>2
    <3>4. ASSUME i = e PROVE Turned(31 - i) + 16 = q
      <4>1. 31 - i = Turned(q - 16) BY <2>2, <3>4
      <4>2. Turned(31 - i) = q - 16 BY <2>2, <4>1
      <4>3. QED BY <2>1, <3>2, <4>2 DEF Checked
    <3>5. QED BY <1>3, <3>3, <3>4
  <2>5. {e} \in Word BY <2>3 DEF Word
  <2>6. c = {e} BY <1>2, <2>4, <2>5, SameBits
  <2>7. Power(e) = {e} BY <2>3, Powers
  <2>8. Exponent(q, n) = e BY <1>5 DEF Exponent
  <2>9. \A t \in 1..n : t \notin Marks({q}, n) BY <1>5 DEF Marks
  <2>10. Serial({}, Marks({q}, n))[n] = {} BY <2>9, SerialQuiet
  <2> HIDE DEF e
  <2>11. QED BY <1>4, <2>6, <2>7, <2>8, <2>10, XorLaws
<1>6. CASE ~(q < 48)
  <2>1. q \in Int /\ q - 47 \in 1..n /\ n + 32 - (q - 47) = n + 79 - q
    BY <1>6 DEF Checked
  <2>2. Marks({q}, n) = {q - 47} BY <2>1 DEF Marks
  <2>3. Serial({}, {q - 47})[n] = Power(n + 79 - q) BY <2>1, SerialOneBit
  <2>4. ASSUME NEW i \in 0..31 PROVE i \notin c
    <3>1. 31 - i \in 0..31 OBVIOUS
    <3>2. Turned(31 - i) \in 0..31 BY <3>1, TurnedTwice
    <3>3. Turned(31 - i) + 16 # q BY <1>6, <3>2
    <3>4. QED BY <1>3, <3>3
  <2>5. c = {} BY <1>2, <2>4 DEF Word
  <2>6. Exponent(q, n) = n + 79 - q BY <1>6 DEF Exponent
  <2>7. Xor(Power(n + 79 - q), {}) = Power(n + 79 - q) BY XorLaws
  <2>8. QED BY <1>4, <2>2, <2>3, <2>5, <2>6, <2>7
<1>7. QED BY <1>5, <1>6

(* One or two changed bits show.                                           *)
LEMMA FewBitsShow ==
  ASSUME NEW n \in Nat, PowersDiffer(n + 32), NEW H, NEW a, NEW b,
         H \cap Checked(n) \subseteq {a, b}, H \cap Checked(n) # {}
  PROVE  Syndrome(H, n) # {}
<1> DEFINE K == H \cap Checked(n)
<1>1. Syndrome(H, n) = Syndrome(K, n)
  <2>1. Marks(H, n) = Marks(K, n) BY DEF Marks, Checked
  <2>2. Hits(H) = Hits(K)
    <3>1. H \cap (16..47) = K \cap (16..47) BY DEF Checked
    <3> HIDE DEF K
    <3>2. QED BY <3>1 DEF Hits
  <2> HIDE DEF K
  <2>3. QED BY <2>1, <2>2 DEF Syndrome
<1>2. PICK q \in K : TRUE OBVIOUS
<1>3. q \in Checked(n) OBVIOUS
<1>4. Exponent(q, n) \in Nat BY <1>3, ExponentsDiffer
<1>5. CASE K = {q}
  <2>1. Syndrome(K, n) = Power(Exponent(q, n)) BY <1>3, <1>5, SyndromeOfOne
  <2>2. QED BY <1>1, <1>4, <2>1, Powers
<1>6. CASE K # {q}
  <2>1. PICK p \in K : p # q BY <1>2, <1>6
  <2>2. p \in Checked(n) OBVIOUS
  <2>3. K = {p, q} BY <1>2, <2>1
  <2>4. K = Xor({p}, {q}) BY <2>1, <2>3 DEF Xor
  <2> HIDE DEF K
  <2>5. Syndrome(K, n) = Xor(Power(Exponent(p, n)), Power(Exponent(q, n)))
    <3>1. Syndrome(Xor({p}, {q}), n) = Xor(Syndrome({p}, n), Syndrome({q}, n))
      BY SyndromeSum
    <3>2. /\ Syndrome({p}, n) = Power(Exponent(p, n))
          /\ Syndrome({q}, n) = Power(Exponent(q, n))
      BY <1>3, <2>2, SyndromeOfOne
    <3>3. QED BY <2>4, <3>1, <3>2
  <2>6. Power(Exponent(p, n)) # Power(Exponent(q, n))
    <3>1. Exponent(p, n) # Exponent(q, n) BY <1>3, <2>1, <2>2, ExponentsDiffer
    <3>2. /\ Exponent(p, n) \in 0..((n + 32) - 1)
          /\ Exponent(q, n) \in 0..((n + 32) - 1)
      BY <1>3, <2>2, ExponentsDiffer
    <3>3. n + 32 \in Nat OBVIOUS
    <3>4. QED BY <3>1, <3>2, <3>3, PowersApart
  <2>7. QED BY <1>1, <2>5, <2>6, XorLaws
<1>7. QED BY <1>5, <1>6

-----------------------------------------------------------------------------
(* The checksums of two bodies differ by what their difference leaves in   *)
(* the register.                                                           *)
LEMMA ChecksumsDiffer ==
  ASSUME NEW body \in Body, NEW other \in Body, Len(other) = Len(body)
  PROVE  Xor(Get_CRC(body), Get_CRC(other))
           = Reflect(Serial({}, Xor(BitsSet(body), BitsSet(other)))[Bits(body)], 32)
<1> DEFINE n == Bits(body)
           c == CrcAfter(body)[Len(body)]
           d == CrcAfter(other)[Len(other)]
           r == Serial(AllOnes, BitsSet(body))[n]
           s == Serial(AllOnes, BitsSet(other))[n]
<1>1. n \in Nat /\ Bits(other) = n
  <2>1. Len(body) \in Nat BY DEF Body
  <2>2. QED BY <2>1 DEF Bits
<1>2. AllOnes \in Word BY DEF AllOnes, Word
<1>3. c \in Word /\ d \in Word BY CrcAfterUnfolds
<1>4. Reflect(c, 32) = r /\ Reflect(d, 32) = s BY <1>1, TableIsSerial
<1>5. Serial(Xor(AllOnes, AllOnes), Xor(BitsSet(body), BitsSet(other)))[n] = Xor(r, s)
  <2> HIDE DEF n
  <2>1. QED BY <1>1, <1>2, SerialLinear
<1>6. Get_CRC(body) = Xor(c, AllOnes) /\ Get_CRC(other) = Xor(d, AllOnes)
  BY DEF Get_CRC
<1> HIDE DEF c, d, r, s, n
<1>7. Xor(Xor(c, AllOnes), Xor(d, AllOnes)) = Xor(Xor(c, d), Xor(AllOnes, AllOnes))
  BY XorPairs
<1>8. Xor(AllOnes, AllOnes) = {} BY XorLaws
<1>9. Xor(Get_CRC(body), Get_CRC(other)) = Xor(c, d) BY <1>6, <1>7, <1>8, XorLaws
<1>10. r \in Word /\ s \in Word BY <1>4, Reflect32
<1>11. Reflect(r, 32) = c /\ Reflect(s, 32) = d BY <1>3, <1>4, Reflect32
<1>12. Reflect(Xor(r, s), 32) = Xor(c, d) BY <1>10, <1>11, ReflectLinear
<1>13. QED BY <1>5, <1>8, <1>9, <1>12 DEF n

Packet == [code : SUBSET (0..15), crc : Word, body : Body]

(* The parts of a damaged packet.                                          *)
LEMMA DamagedParts ==
  ASSUME NEW packet \in Packet, NEW H
  PROVE  /\ Damaged(packet, H) \in Packet
         /\ Damaged(packet, H).code = Xor(packet.code, H \cap (0..15))
         /\ Damaged(packet, H).crc = Xor(packet.crc, Hits(H))
         /\ Len(Damaged(packet, H).body) = Len(packet.body)
         /\ \A k \in 1..Len(packet.body), i \in 0..7 :
              i \in Damaged(packet, H).body[k] <=>
                ~(i \in packet.body[k] <=> 40 + 8 * k + i \in H)
<1> DEFINE Hit(first, n) == {b - first : b \in H \cap (first..first + n - 1)}
           body == packet.body
           d == [k \in 1..Len(body) |-> Xor(body[k], Hit(40 + 8 * k, 8))]
           D == Damaged(packet, H)
<1>1. D = [code |-> Xor(packet.code, Hit(0, 16)),
           crc |-> Xor(packet.crc, Hit(16, 32)), body |-> d]
  BY DEF Damaged
<1>2. /\ D.code = Xor(packet.code, Hit(0, 16)) /\ D.crc = Xor(packet.crc, Hit(16, 32))
      /\ D.body = d
  <2> HIDE DEF D, d, Hit
  <2>1. QED BY <1>1
<1>3. /\ packet.code \in SUBSET (0..15) /\ packet.crc \in Word
      /\ body \in Body /\ Len(body) \in Nat
  BY DEF Packet, Body
<1>4. Hit(0, 16) = H \cap (0..15)
  <2>1. 0..(0 + 16 - 1) = 0..15 OBVIOUS
  <2>2. \A b \in 0..15 : b - 0 = b OBVIOUS
  <2>3. QED BY <2>1, <2>2
<1>5. Hit(16, 32) = Hits(H)
  <2>1. 16..(16 + 32 - 1) = 16..47 OBVIOUS
  <2>2. QED BY <2>1 DEF Hits
<1>6. ASSUME NEW k \in 1..Len(body)
      PROVE  /\ Hit(40 + 8 * k, 8) \in Byte
             /\ \A i \in 0..7 : i \in Hit(40 + 8 * k, 8) <=> 40 + 8 * k + i \in H
  <2> DEFINE first == 40 + 8 * k
  <2>1. first \in Nat BY <1>3
  <2> HIDE DEF first
  <2>2. \A b \in first..(first + 8 - 1) : b - first \in 0..7 BY <2>1
  <2>3. Hit(first, 8) \in Byte BY <2>2 DEF Byte
  <2>4. ASSUME NEW i \in 0..7 PROVE i \in Hit(first, 8) <=> first + i \in H
    <3>1. ASSUME first + i \in H PROVE i \in Hit(first, 8)
      <4>1. first + i \in first..(first + 8 - 1) /\ i = (first + i) - first BY <2>1
      <4>2. QED BY <3>1, <4>1
    <3>2. ASSUME i \in Hit(first, 8) PROVE first + i \in H
      <4>1. PICK b \in H \cap (first..first + 8 - 1) : i = b - first BY <3>2
      <4>2. first + i = b BY <2>1, <4>1
      <4>3. QED BY <4>2
    <3>3. QED BY <3>1, <3>2
  <2>5. QED BY <2>3, <2>4 DEF first
<1> HIDE DEF Hit, body
<1>7. \A k \in 1..Len(body) : body[k] \in Byte BY <1>3 DEF Body
<1>8. \A k \in 1..Len(body) : d[k] \in Byte
  <2> TAKE k \in 1..Len(body)
  <2>1. Hit(40 + 8 * k, 8) \in Byte /\ body[k] \in Byte BY <1>6, <1>7
  <2>2. Xor(body[k], Hit(40 + 8 * k, 8)) \in Byte BY <2>1 DEF Xor, Byte
  <2>3. QED BY <2>2
<1>9. d \in Body /\ Len(d) = Len(body)
  <2>1. d \in [1..Len(body) -> Byte] BY <1>8
  <2> HIDE DEF d
  <2>2. QED BY <1>3, <2>1 DEF Body
<1>10. D \in Packet
  <2>1. Xor(packet.code, H \cap (0..15)) \in SUBSET (0..15) BY <1>3 DEF Xor
  <2>2. Xor(packet.crc, Hits(H)) \in Word BY <1>3, HitsBit, XorWord
  <2> HIDE DEF d, D
  <2>3. QED BY <1>1, <1>4, <1>5, <1>9, <2>1, <2>2 DEF Packet
<1>11. ASSUME NEW k \in 1..Len(body), NEW i \in 0..7
       PROVE  i \in D.body[k] <=> ~(i \in body[k] <=> 40 + 8 * k + i \in H)
  <2>1. D.body[k] = Xor(body[k], Hit(40 + 8 * k, 8)) BY <1>2
  <2>2. i \in Hit(40 + 8 * k, 8) <=> 40 + 8 * k + i \in H BY <1>6
  <2> HIDE DEF D
  <2>3. i \in D.body[k] <=> ~(i \in body[k] <=> i \in Hit(40 + 8 * k, 8))
    BY <2>1, XorBit
  <2>4. QED BY <2>2, <2>3
<1> HIDE DEF d, D
<1>12. QED BY <1>2, <1>4, <1>5, <1>9, <1>10, <1>11 DEF D, body

(* The bits in which the bodies of a packet and of the damaged one differ. *)
LEMMA DamagedBits ==
  ASSUME NEW packet \in Packet, NEW H
  PROVE  Xor(BitsSet(packet.body), BitsSet(Damaged(packet, H).body))
           = Marks(H, Bits(packet.body))
<1> DEFINE body == packet.body
           d == Damaged(packet, H).body
           n == Bits(body)
<1>1. Len(body) \in Nat /\ Len(d) = Len(body)
  <2>1. packet.body \in Seq(Byte) BY DEF Packet, Body
  <2>2. Len(d) = Len(body) BY DamagedParts
  <2>3. QED BY <2>1, <2>2
<1>2. \A k \in 1..Len(body), i \in 0..7 :
        i \in d[k] <=> ~(i \in body[k] <=> 40 + 8 * k + i \in H)
  BY DamagedParts
<1> HIDE DEF body, d
<1>3. n = 8 * Len(body) /\ Bits(d) = n BY <1>1 DEF Bits
<1> HIDE DEF n
<1>4. n \in Nat BY <1>1, <1>3
<1>5. ASSUME NEW t \in 1..n
      PROVE  t \in Xor(BitsSet(body), BitsSet(d)) <=> t + 47 \in H
  <2> DEFINE k == (t - 1) \div 8 + 1
             i == (t - 1) % 8
  <2>1. k \in 1..Len(body) /\ i \in 0..7 /\ 40 + 8 * k + i = t + 47
    BY <1>1, <1>3, <1>4
  <2>2. t \in BitsSet(body) <=> i \in body[k] BY DEF BitsSet, n
  <2>3. t \in BitsSet(d) <=> i \in d[k] BY <1>3 DEF BitsSet
  <2> HIDE DEF k, i
  <2>4. i \in d[k] <=> ~(i \in body[k] <=> t + 47 \in H) BY <1>2, <2>1
  <2>5. QED BY <2>2, <2>3, <2>4, XorBit
<1>6. BitsSet(body) \in SUBSET (1..n) BY DEF BitsSet, n
<1>7. BitsSet(d) \in SUBSET (1..n) BY <1>3 DEF BitsSet
<1>8. Xor(BitsSet(body), BitsSet(d)) = {t \in 1..n : t + 47 \in H}
  <2>1. Xor(BitsSet(body), BitsSet(d)) \in SUBSET (1..n)
    <3> HIDE DEF n
    <3>1. QED BY <1>6, <1>7, XorType
  <2>2. QED BY <1>5, <2>1
<1>9. QED BY <1>8 DEF Marks, n, body, d

(* The server drops a packet of which one or two bits of the checksum or   *)
(* of the body were changed on the way: its checksum does not fit any more.*)
THEOREM DamageIsNoticed ==
  ASSUME NEW packet \in Packet, CRCFits(packet), PowersDiffer(Bits(packet.body) + 32),
         NEW H, NEW a, NEW b, H \cap Checked(Bits(packet.body)) \subseteq {a, b},
         H \cap Checked(Bits(packet.body)) # {}
  PROVE  ~CRCFits(Damaged(packet, H))
<1> DEFINE body == packet.body
           n == Bits(body)
           damaged == Damaged(packet, H)
           P == Hits(H)
<1>1. body \in Body /\ Len(body) \in Nat /\ packet.crc \in Word BY DEF Packet, Body
<1>2. n \in Nat BY <1>1 DEF Bits
<1>3. Syndrome(H, n) # {} BY <1>2, FewBitsShow
<1>4. damaged \in Packet /\ Len(damaged.body) = Len(body) BY DamagedParts
<1>5. damaged.body \in Body BY <1>4 DEF Packet
<1>6. damaged.crc = Xor(packet.crc, P) BY DamagedParts
<1>7. Xor(BitsSet(body), BitsSet(damaged.body)) = Marks(H, n) BY DamagedBits
<1>8. P \in Word BY HitsBit
<1> SUFFICES ASSUME CRCFits(damaged) PROVE Syndrome(H, n) = {} BY <1>3
<1>9. Syndrome(H, n) = Xor(Serial({}, Marks(H, n))[n], Reflect(ntohl(P), 32))
  BY DEF Syndrome
<1>10. CASE body = <<>>
  <2>1. damaged.body = <<>> BY <1>4, <1>5, <1>10, EmptySeq DEF Body
  <2>2. packet.crc = {} /\ damaged.crc = {} BY <1>10, <2>1 DEF CRCFits
  <2>3. P = {} BY <1>6, <2>2, XorLaws
  <2>4. n = 0 BY <1>10 DEF Bits
  <2>5. Serial({}, Marks(H, n))[n] = {} BY <2>4, SerialQuiet
  <2>6. ntohl(P) = {} BY <2>3 DEF ntohl, Swap
  <2>7. Reflect({}, 32) = {} BY DEF Reflect
  <2> HIDE DEF n, P
  <2>8. QED BY <1>9, <2>5, <2>6, <2>7, XorLaws
<1>11. CASE body # <<>>
  <2>1. damaged.body # <<>> BY <1>1, <1>4, <1>11, EmptySeq DEF Body
  <2>2. ntohl(packet.crc) = Get_CRC(body) BY <1>11 DEF CRCFits
  <2>3. ntohl(damaged.crc) = Get_CRC(damaged.body) BY <2>1 DEF CRCFits
  <2>4. ntohl(damaged.crc) = Xor(ntohl(packet.crc), ntohl(P))
    BY <1>1, <1>6, <1>8, NtohlLinear
  <2>5. Xor(Get_CRC(body), Get_CRC(damaged.body))
          = Reflect(Serial({}, Marks(H, n))[n], 32)
    BY <1>1, <1>4, <1>5, <1>7, ChecksumsDiffer
  <2> DEFINE x == ntohl(packet.crc)
             s == Serial({}, Marks(H, n))[n]
             y == ntohl(P)
  <2>6. Xor(x, Xor(x, y)) = Reflect(s, 32) BY <2>2, <2>3, <2>4, <2>5
  <2>7. s \in Word BY <1>2, Powers, SerialUnfolds
  <2> HIDE DEF x, y, s
  <2>8. Xor(x, Xor(x, y)) = y
    <3>1. Xor(Xor(x, x), y) = Xor(x, Xor(x, y)) BY XorLaws
    <3>2. Xor(x, x) = {} /\ Xor({}, y) = y BY XorLaws
    <3>3. QED BY <3>1, <3>2
  <2>9. Reflect(y, 32) = s BY <2>6, <2>7, <2>8, Reflect32
  <2>10. Xor(s, Reflect(y, 32)) = {} BY <2>9, XorLaws
  <2>11. QED BY <1>9, <2>10 DEF s, y
<1>12. QED BY <1>10, <1>11

-----------------------------------------------------------------------------
(* Turning the two bytes of a code around, twice, changes nothing.         *)
LEMMA NtohsTwice ==
  ASSUME NEW x \in SUBSET (0..15)
  PROVE  ntohs(x) \in SUBSET (0..15) /\ ntohs(ntohs(x)) = x
<1> DEFINE Other(i) == IF i < 8 THEN i + 8 ELSE i - 8
<1>1. \A i \in 0..15 : /\ 8 * (2 - 1 - i \div 8) + (i % 8) = Other(i)
                       /\ Other(i) \in 0..15 /\ Other(Other(i)) = i
  <2> TAKE i \in 0..15
  <2>1. CASE i < 8
    <3>1. i \div 8 = 0 /\ i % 8 = i BY <2>1
    <3>2. QED BY <2>1, <3>1
  <2>2. CASE 8 <= i
    <3>1. i \div 8 = 1 /\ i % 8 = i - 8 BY <2>2
    <3>2. QED BY <2>2, <3>1
  <2>3. QED BY <2>1, <2>2
<1> HIDE DEF Other
<1>2. ASSUME NEW y \in SUBSET (0..15)
      PROVE  ntohs(y) = {Other(i) : i \in y} /\ ntohs(y) \in SUBSET (0..15)
  <2>1. ntohs(y) = {8 * (2 - 1 - i \div 8) + (i % 8) : i \in y} BY DEF ntohs, Swap
  <2>2. \A i \in y : 8 * (2 - 1 - i \div 8) + (i % 8) = Other(i) BY <1>1
  <2>3. ntohs(y) = {Other(i) : i \in y} BY <2>1, <2>2
  <2>4. \A i \in y : Other(i) \in 0..15 BY <1>1
  <2>5. QED BY <2>3, <2>4
<1>3. ntohs(x) = {Other(i) : i \in x} /\ ntohs(x) \in SUBSET (0..15) BY <1>2
<1>4. ntohs(ntohs(x)) = {Other(j) : j \in ntohs(x)} BY <1>2, <1>3
<1>5. ntohs(ntohs(x)) = {Other(Other(i)) : i \in x} BY <1>3, <1>4
<1>6. \A i \in x : Other(Other(i)) = i BY <1>1
<1>7. {Other(Other(i)) : i \in x} = x BY <1>6
<1>8. QED BY <1>3, <1>5, <1>7

Commands == {_CMD_PING, _CMD_REGISTER, _CMD_LOGIN}

(* The codes are 16 bits; the commands among them differ.                  *)
LEMMA CommandsDiffer ==
  /\ Codes \subseteq SUBSET (0..15) /\ Commands \subseteq SUBSET (0..15)
  /\ _CMD_PING # _CMD_REGISTER /\ _CMD_PING # _CMD_LOGIN
  /\ _CMD_REGISTER # _CMD_LOGIN
  /\ \A c \in Commands : InTable(c)
<1> USE DEF _CMD_PING, _CMD_REGISTER, _CMD_LOGIN
<1>1. Codes \subseteq SUBSET (0..15) BY DEF Codes
<1>2. Commands \subseteq SUBSET (0..15) BY DEF Commands
<1>3. 0 \in _CMD_REGISTER /\ 0 \notin _CMD_PING /\ 0 \notin _CMD_LOGIN
      /\ 1 \in _CMD_LOGIN /\ 1 \notin _CMD_PING
  OBVIOUS
<1>4. \A c \in Commands : InTable(c)
  <2>1. \A c \in Commands : c \in SUBSET (0..2) BY DEF Commands
  <2>2. \A c \in Commands : 0 \notin c \/ 1 \notin c BY DEF Commands
  <2>3. 0 \in {0, 1, 2} /\ 1 \in {0, 1, 2} OBVIOUS
  <2> HIDE DEF _CMD_PING, _CMD_REGISTER, _CMD_LOGIN
  <2>4. \A c \in Commands : c # {0, 1, 2} BY <2>2, <2>3
  <2>5. QED BY <2>1, <2>4 DEF InTable
<1>5. QED BY <1>1, <1>2, <1>3, <1>4

(* Which code has which handler.                                           *)
LEMMA HandlerOfCode ==
  /\ statusHandler(_CMD_PING) = "_HandlePing"
  /\ statusHandler(_CMD_REGISTER) = "_HandleRegister"
  /\ statusHandler(_CMD_LOGIN) = "_HandleLogIn"
  /\ \A c : c \notin Commands => statusHandler(c) = "NULL"
BY CommandsDiffer DEF statusHandler, Commands

(* A handler is called for its command only.                               *)
LEMMA CodeOfHandler ==
  ASSUME NEW c
  PROVE  /\ statusHandler(c) = "_HandlePing" => c = _CMD_PING
         /\ statusHandler(c) = "_HandleRegister" => c = _CMD_REGISTER
         /\ statusHandler(c) = "_HandleLogIn" => c = _CMD_LOGIN
         /\ statusHandler(c) = "NULL" => c \notin Commands
<1>1. CASE c \notin Commands
  <2>1. statusHandler(c) = "NULL" BY <1>1, HandlerOfCode
  <2>2. QED BY <1>1, <2>1
<1>2. CASE c = _CMD_PING
  <2>1. statusHandler(c) = "_HandlePing" BY <1>2, HandlerOfCode
  <2>2. QED BY <1>2, <2>1
<1>3. CASE c = _CMD_REGISTER
  <2>1. statusHandler(c) = "_HandleRegister" BY <1>3, HandlerOfCode
  <2>2. QED BY <1>3, <2>1
<1>4. CASE c = _CMD_LOGIN
  <2>1. statusHandler(c) = "_HandleLogIn" BY <1>4, HandlerOfCode
  <2>2. QED BY <1>4, <2>1
<1>5. QED BY <1>1, <1>2, <1>3, <1>4 DEF Commands

(* The length of the body that goes with a code, by the code as the server *)
(* reads it.                                                               *)
LEMMA LengthOfCode ==
  ASSUME NEW code \in SUBSET (0..15)
  PROVE  /\ ntohs(code) = _CMD_PING => BodyLen(code) = 0
         /\ ntohs(code) = _CMD_REGISTER => BodyLen(code) = RegisterLen
         /\ ntohs(code) = _CMD_LOGIN => BodyLen(code) = LoginLen
         /\ ntohs(code) \notin Commands => BodyLen(code) = -1
<1>1. \A c \in Commands : ntohs(c) = code <=> ntohs(code) = c
  BY CommandsDiffer, NtohsTwice
<1>2. /\ ntohs(_CMD_PING) # ntohs(_CMD_REGISTER)
      /\ ntohs(_CMD_PING) # ntohs(_CMD_LOGIN)
      /\ ntohs(_CMD_REGISTER) # ntohs(_CMD_LOGIN)
  <2>1. \A c \in Commands : ntohs(ntohs(c)) = c BY CommandsDiffer, NtohsTwice
  <2>2. QED BY <2>1, CommandsDiffer DEF Commands
<1>3. _CMD_PING \in Commands /\ _CMD_REGISTER \in Commands /\ _CMD_LOGIN \in Commands
  BY DEF Commands
<1>4. ASSUME ntohs(code) = _CMD_PING PROVE BodyLen(code) = 0
  <2>1. code = ntohs(_CMD_PING) BY <1>1, <1>3, <1>4
  <2>2. QED BY <1>2, <2>1 DEF BodyLen
<1>5. ASSUME ntohs(code) = _CMD_REGISTER PROVE BodyLen(code) = RegisterLen
  <2>1. code = ntohs(_CMD_REGISTER) BY <1>1, <1>3, <1>5
  <2>2. QED BY <1>2, <2>1 DEF BodyLen
<1>6. ASSUME ntohs(code) = _CMD_LOGIN PROVE BodyLen(code) = LoginLen
  <2>1. code = ntohs(_CMD_LOGIN) BY <1>1, <1>3, <1>6
  <2>2. QED BY <1>2, <2>1 DEF BodyLen
<1>7. ASSUME ntohs(code) \notin Commands PROVE BodyLen(code) = -1
  <2>1. /\ code # ntohs(_CMD_PING) /\ code # ntohs(_CMD_REGISTER)
        /\ code # ntohs(_CMD_LOGIN)
    BY <1>1, <1>3, <1>7
  <2>2. QED BY <2>1 DEF BodyLen
<1>8. QED BY <1>4, <1>5, <1>6, <1>7

(* A body that goes with a code is of a command, and of which one its      *)
(* length tells.                                                           *)
LEMMA LengthTellsCode ==
  ASSUME NEW code \in SUBSET (0..15), BodyLen(code) \in Nat
  PROVE  /\ ntohs(code) \in Commands
         /\ \A other \in SUBSET (0..15) : BodyLen(other) = BodyLen(code) => other = code
<1>1. ntohs(code) \in Commands
  <2>1. -1 \notin Nat OBVIOUS
  <2>2. QED BY <2>1, LengthOfCode
<1>2. ASSUME NEW other \in SUBSET (0..15), BodyLen(other) = BodyLen(code)
      PROVE  other = code
  <2>1. ntohs(other) \in Commands
    <3>1. -1 \notin Nat OBVIOUS
    <3>2. QED BY <1>2, <3>1, LengthOfCode
  <2>2. ntohs(other) = ntohs(code)
    <3>1. RegisterLen # 0 /\ LoginLen # 0 /\ LoginLen # RegisterLen
      BY BodiesAssumption DEF BodiesAssumption
    <3>2. \A c \in {code, other} : ntohs(c) = _CMD_PING => BodyLen(c) = 0
      BY LengthOfCode
    <3>3. \A c \in {code, other} : ntohs(c) = _CMD_REGISTER => BodyLen(c) = RegisterLen
      BY LengthOfCode
    <3>4. \A c \in {code, other} : ntohs(c) = _CMD_LOGIN => BodyLen(c) = LoginLen
      BY LengthOfCode
    <3>5. QED BY <1>1, <1>2, <2>1, <3>1, <3>2, <3>3, <3>4 DEF Commands
  <2>3. ntohs(ntohs(other)) = other /\ ntohs(ntohs(code)) = code BY NtohsTwice
  <2>4. QED BY <2>2, <2>3
<1>3. QED BY <1>1, <1>2

-----------------------------------------------------------------------------
(* The checksum of a body is a word.                                       *)
LEMMA ChecksumWord ==
  ASSUME NEW body \in Body
  PROVE  Checksum(body) \in Word /\ Get_CRC(body) \in Word
<1>1. CrcAfter(body)[Len(body)] \in Word BY CrcAfterUnfolds
<1>2. AllOnes \in Word BY DEF AllOnes, Word
<1>3. Get_CRC(body) \in Word BY <1>1, <1>2, XorWord DEF Get_CRC
<1>4. StandardCRC(body) \in Word BY <1>3, TableCalculatesCRC
<1>5. ntohl(StandardCRC(body)) \in Word BY <1>4, NtohlBit
<1>6. {} \in Word BY DEF Word
<1>7. QED BY <1>3, <1>5, <1>6 DEF Checksum

(* The server's test accepts exactly the checksums that the client makes.  *)
LEMMA FitsIfChecksum ==
  ASSUME NEW packet \in Packet
  PROVE  CRCFits(packet) <=> packet.crc = Checksum(packet.body)
<1> DEFINE body == packet.body
<1>1. packet.crc \in Word /\ body \in Body BY DEF Packet
<1>2. CASE body = <<>> BY <1>2 DEF CRCFits, Checksum
<1>3. CASE body # <<>>
  <2>1. Get_CRC(body) = StandardCRC(body) /\ Get_CRC(body) \in Word
    BY <1>1, ChecksumWord, TableCalculatesCRC
  <2>2. CRCFits(packet) <=> ntohl(packet.crc) = Get_CRC(body) BY <1>3 DEF CRCFits
  <2>3. Checksum(body) = ntohl(Get_CRC(body)) BY <1>3, <2>1 DEF Checksum
  <2>4. ntohl(ntohl(packet.crc)) = packet.crc BY <1>1, NtohlBit
  <2>5. ntohl(ntohl(Get_CRC(body))) = Get_CRC(body) BY <2>1, NtohlBit
  <2>6. QED BY <2>2, <2>3, <2>4, <2>5
<1>4. QED BY <1>2, <1>3

(* The longest body is as long as the longer structure.                    *)
LEMMA LongestBody ==
  Longest \in Nat /\ RegisterLen <= Longest /\ LoginLen <= Longest
<1> USE BodiesAssumption DEF BodiesAssumption
<1>1. \E m \in {LoginLen, RegisterLen} : \A k \in {LoginLen, RegisterLen} : k <= m
  OBVIOUS
<1>2. /\ Longest \in {LoginLen, RegisterLen}
      /\ \A k \in {LoginLen, RegisterLen} : Longest >= k
  BY <1>1 DEF Longest, Max
<1>3. QED BY <1>2

(* A client's body is one of bytes, no longer than the longest.            *)
LEMMA BodiesAreBodies ==
  ASSUME NEW body \in Bodies PROVE body \in Body /\ Len(body) <= Longest
<1>1. PICK m \in 0..Longest : body \in [1..m -> ByteValues]
  BY DEF Bodies, SeqOf
<1>2. m \in Nat /\ m <= Longest BY <1>1, LongestBody
<1>3. ByteValues \subseteq Byte BY BodiesAssumption DEF BodiesAssumption
<1>4. body \in [1..m -> Byte] BY <1>1, <1>3
<1>5. body \in Seq(Byte) /\ Len(body) = m BY <1>2, <1>4
<1>6. QED BY <1>2, <1>5 DEF Body

(* A packet of which nothing was changed is the same.                      *)
LEMMA DamagedByNothing ==
  ASSUME NEW packet \in Packet, NEW H, H \cap (0..15) = {},
         H \cap Checked(Bits(packet.body)) = {}
  PROVE  Damaged(packet, H) = packet
<1> DEFINE D == Damaged(packet, H)
           body == packet.body
           n == Len(body)
<1>1. D \in Packet /\ D.code = Xor(packet.code, H \cap (0..15))
      /\ D.crc = Xor(packet.crc, Hits(H)) /\ Len(D.body) = Len(body)
  BY DamagedParts
<1>2. \A k \in 1..Len(body), i \in 0..7 :
        i \in D.body[k] <=> ~(i \in body[k] <=> 40 + 8 * k + i \in H)
  BY DamagedParts
<1>3. body \in Body /\ D.body \in Body /\ n \in Nat BY <1>1 DEF Packet, Body
<1>4. D.code = packet.code BY <1>1, XorLaws
<1>5. Hits(H) = {}
  <2>1. 16..47 \subseteq Checked(Bits(body)) BY <1>3 DEF Checked, Bits
  <2>2. H \cap (16..47) = {} BY <2>1
  <2>3. QED BY <2>2 DEF Hits
<1>6. D.crc = packet.crc BY <1>1, <1>5, XorLaws
<1>7. ASSUME NEW k \in 1..n PROVE D.body[k] = body[k]
  <2>1. D.body[k] \in Byte /\ body[k] \in Byte BY <1>1, <1>3, <1>7 DEF Body
  <2>2. ASSUME NEW i \in 0..7 PROVE i \in D.body[k] <=> i \in body[k]
    <3>1. 40 + 8 * k + i \in Checked(Bits(body)) BY <1>3 DEF Checked, Bits
    <3>2. 40 + 8 * k + i \notin H BY <3>1
    <3>3. QED BY <1>2, <3>2
  <2>3. QED BY <2>1, <2>2 DEF Byte
<1> HIDE DEF D, body
<1>8. D.body = body
  <2>1. D.body \in Seq(Byte) /\ body \in Seq(Byte) BY <1>3 DEF Body
  <2>2. QED BY <1>1, <1>7, <2>1, SeqEqual
<1>9. D = packet BY <1>1, <1>4, <1>6, <1>8 DEF Packet, body
<1>10. QED BY <1>9 DEF D

(* The bits that change on the way are one or two.                         *)
LEMMA FewFlips ==
  ASSUME NEW E, NEW hit \in [1..MaxFlips -> E]
  PROVE  Range(hit) \subseteq E /\ \E a, b : Range(hit) \subseteq {a, b}
<1>1. MaxFlips \in Nat /\ MaxFlips <= 2
  BY BodiesAssumption, DetectionAssumption DEF BodiesAssumption, DetectionAssumption
<1>2. Range(hit) = {hit[k] : k \in 1..MaxFlips} BY DEF Range
<1>3. \A k \in 1..MaxFlips : k = 1 \/ k = 2 BY <1>1
<1>4. Range(hit) \subseteq {hit[1], hit[2]} BY <1>2, <1>3
<1>5. QED BY <1>2, <1>4

(* How a packet may arrive.                                                *)
Arrives(packet, arriving) ==
  \/ arriving = packet
  \/ \E hit \in [1..MaxFlips -> Exposed(packet.body)] :
       arriving = Damaged(packet, Range(hit))

(* What arrives is a packet, with a body of the same length.               *)
LEMMA ArrivesPacket ==
  ASSUME NEW packet \in Packet, NEW arriving, Arrives(packet, arriving)
  PROVE  arriving \in Packet /\ Len(arriving.body) = Len(packet.body)
<1>1. CASE arriving = packet BY <1>1
<1>2. ASSUME NEW hit \in [1..MaxFlips -> Exposed(packet.body)],
             arriving = Damaged(packet, Range(hit))
      PROVE  arriving \in Packet /\ Len(arriving.body) = Len(packet.body)
  <2> DEFINE H == Range(hit)
  <2>1. arriving = Damaged(packet, H) BY <1>2
  <2> HIDE DEF H
  <2>2. QED BY <2>1, DamagedParts
<1>3. QED BY <1>1, <1>2 DEF Arrives

(* A request that is valid when it arrives, as the request that was sent   *)
(* was, is that request.                                                   *)
LEMMA ValidIsUndamaged ==
  ASSUME NEW packet \in Packet, Len(packet.body) <= Longest, Proper(packet),
         NEW arriving, Arrives(packet, arriving), Proper(arriving)
  PROVE  arriving = packet
<1> SUFFICES ASSUME NEW hit \in [1..MaxFlips -> Exposed(packet.body)],
                    arriving = Damaged(packet, Range(hit))
             PROVE  arriving = packet
  BY DEF Arrives
<1> DEFINE H == Range(hit)
           n == Bits(packet.body)
<1>1. PICK a, b : H \subseteq {a, b} BY FewFlips
<1>2. H \subseteq Exposed(packet.body) BY FewFlips
<1>3. arriving \in Packet /\ Len(arriving.body) = Len(packet.body) BY ArrivesPacket
<1>4. Len(packet.body) \in Nat BY DEF Packet, Body
<1>5. n \in Nat /\ n = 8 * Len(packet.body) BY <1>4 DEF Bits
<1>6. CRCFits(packet) /\ CRCFits(arriving) BY <1>3, FitsIfChecksum DEF Proper
<1>7. PowersDiffer(n + 32)
  <2>1. PowersDiffer(8 * Longest + 32) BY DetectionAssumption DEF DetectionAssumption
  <2>2. 1..((n + 32) - 1) \subseteq 1..((8 * Longest + 32) - 1)
    BY <1>4, <1>5, LongestBody
  <2> HIDE DEF n
  <2>3. QED BY <2>1, <2>2 DEF PowersDiffer
<1> HIDE DEF H
<1>8. H \cap Checked(n) = {}
  <2>1. H \cap Checked(n) \subseteq {a, b} BY <1>1
  <2>2. QED BY <1>6, <1>7, <2>1, DamageIsNoticed DEF H
<1>9. arriving.code = packet.code
  <2>1. arriving.code \in SUBSET (0..15) /\ packet.code \in SUBSET (0..15)
    BY <1>3 DEF Packet
  <2>2. BodyLen(arriving.code) = BodyLen(packet.code) /\ BodyLen(packet.code) \in Nat
    BY <1>3, <1>4 DEF Proper
  <2>3. QED BY <2>1, <2>2, LengthTellsCode
<1>10. H \cap (0..15) = {}
  <2> DEFINE z == H \cap (0..15)
  <2>1. arriving.code = Xor(packet.code, z) BY DamagedParts DEF H
  <2> HIDE DEF z
  <2>2. Xor(packet.code, {}) = packet.code BY XorLaws
  <2>3. Xor(packet.code, z) = Xor(packet.code, {}) BY <1>9, <2>1, <2>2
  <2>4. z = {} BY <2>3, XorLaws
  <2>5. QED BY <2>4 DEF z
<1>11. Damaged(packet, H) = packet BY <1>8, <1>10, DamagedByNothing
<1>12. QED BY <1>11 DEF H

-----------------------------------------------------------------------------
(* What is under way is a packet with the checksum of its body, and what   *)
(* has arrived is it or what became of it.                                 *)
SentRight ==
  stage # "none" =>
    /\ sent \in Packet /\ Len(sent.body) <= Longest
    /\ sent.crc = Checksum(sent.body) /\ Arrives(sent, wire)

(* Behind the server's test the checksum fits.                             *)
Tested == stage \in {"verified", "answered"} => CRCFits(wire)

DispatchInv == SentRight /\ Tested /\ AnsweredAsMeant

(* Before anything is sent.                                                *)
LEMMA InitDispatch == DispatchInit => DispatchInv
BY DEF DispatchInit, DispatchInv, SentRight, Tested, AnsweredAsMeant

(* What the client sends has the checksum of its body.                     *)
LEMMA StepSends ==
  ASSUME DispatchInv, NEW code \in Codes, NEW body \in Bodies,
         ClientSendsPacket(code, body)
  PROVE  DispatchInv'
<1> DEFINE p == [code |-> ntohs(code), crc |-> Checksum(body), body |-> body]
<1>1. stage' = "wire" /\ sent' = p BY DEF ClientSendsPacket
<1>2. body \in Body /\ Len(body) <= Longest BY BodiesAreBodies
<1>3. code \in SUBSET (0..15) BY CommandsDiffer
<1>4. ntohs(code) \in SUBSET (0..15) BY <1>3, NtohsTwice
<1>5. Checksum(body) \in Word BY <1>2, ChecksumWord
<1>6. p \in Packet /\ p.body = body /\ p.crc = Checksum(body)
  BY <1>2, <1>4, <1>5 DEF Packet
<1>7. Arrives(p, wire')
  <2>1. \/ wire' = sent'
        \/ \E hit \in [1..MaxFlips -> Exposed(body)] : wire' = Damaged(sent', Range(hit))
    BY DEF ClientSendsPacket
  <2> HIDE DEF p
  <2>2. QED BY <1>1, <1>6, <2>1 DEF Arrives
<1> HIDE DEF p
<1>8. SentRight' BY <1>1, <1>2, <1>6, <1>7 DEF SentRight
<1>9. Tested' /\ AnsweredAsMeant' BY <1>1 DEF Tested, AnsweredAsMeant
<1>10. QED BY <1>8, <1>9 DEF DispatchInv

(* Where the packets stay as they are, what is said of them stays true.    *)
LEMMA StaysRight ==
  ASSUME SentRight, stage # "none", UNCHANGED <<sent, wire>>
  PROVE  SentRight'
BY DEF SentRight

(* A proper request that arrives as it was sent passes every test: there   *)
(* is no reason to drop it.                                                *)
LEMMA ProperPasses ==
  ASSUME SentRight, stage # "none", wire = sent, Proper(sent)
  PROVE  /\ CRCFits(wire) /\ imsgCode \in Commands
         /\ Len(wire.body) = BodyLen(wire.code) /\ wire.code \in SUBSET (0..15)
<1>1. sent \in Packet BY DEF SentRight
<1>2. sent.code \in SUBSET (0..15) /\ Len(sent.body) \in Nat BY <1>1 DEF Packet, Body
<1>3. CRCFits(sent) BY <1>1, FitsIfChecksum DEF Proper
<1>4. Len(sent.body) = BodyLen(sent.code) BY DEF Proper
<1>5. ntohs(sent.code) \in Commands BY <1>2, <1>4, LengthTellsCode
<1>6. QED BY <1>2, <1>3, <1>4, <1>5 DEF imsgCode

(* A packet may be dropped that is not a proper request as it was sent.    *)
LEMMA StepDrops ==
  ASSUME DispatchInv, stage # "none", Drop, wire = sent => ~Proper(sent)
  PROVE  DispatchInv'
<1>1. stage' = "dropped" /\ UNCHANGED <<sent, wire, reply>> BY DEF Drop, Reach
<1>2. SentRight' BY <1>1, StaysRight DEF DispatchInv
<1>3. Tested' BY <1>1 DEF Tested
<1>4. (wire # sent \/ ~Proper(sent))' BY <1>1 DEF Proper
<1>5. AnsweredAsMeant' BY <1>1, <1>4 DEF AnsweredAsMeant
<1>6. QED BY <1>2, <1>3, <1>5 DEF DispatchInv

(* A packet that is answered has the right length, and so has its answer,  *)
(* which is to the same command.                                           *)
LEMMA StepAnswers ==
  ASSUME DispatchInv, stage = "verified", NEW packet \in Packet, Answer(packet),
         packet.code = wire.code, Len(wire.body) = BodyLen(wire.code),
         Len(packet.body) = BodyLen(packet.code), CRCFits(packet)
  PROVE  DispatchInv'
<1>1. stage' = "answered" /\ reply' = packet /\ UNCHANGED <<sent, wire>>
  BY DEF Answer
<1>2. SentRight /\ CRCFits(wire) BY DEF DispatchInv, Tested
<1>3. sent \in Packet /\ Len(sent.body) <= Longest /\ Arrives(sent, wire)
  BY <1>2 DEF SentRight
<1>4. wire \in Packet BY <1>3, ArrivesPacket
<1>5. Proper(wire) BY <1>2, <1>4, FitsIfChecksum DEF Proper
<1>6. Proper(sent) => wire = sent BY <1>3, <1>5, ValidIsUndamaged
<1>7. Proper(packet) BY FitsIfChecksum DEF Proper
<1>8. SentRight' BY <1>1, <1>2, StaysRight
<1>9. Tested' BY <1>1, <1>2 DEF Tested, CRCFits
<1>10. AnsweredAsMeant' BY <1>1, <1>5, <1>6, <1>7 DEF AnsweredAsMeant
<1>11. QED BY <1>8, <1>9, <1>10 DEF DispatchInv

(* The handler of pings.                                                   *)
LEMMA StepPing == ASSUME DispatchInv, HandlePing PROVE DispatchInv'
<1>1. stage = "verified" /\ statusHandler(imsgCode) = "_HandlePing"
  BY DEF HandlePing, Called
<1>2. imsgCode = _CMD_PING BY <1>1, CodeOfHandler
<1>3. wire \in Packet BY <1>1, ArrivesPacket DEF DispatchInv, SentRight
<1>4. wire.code \in SUBSET (0..15) /\ wire.body \in Body BY <1>3 DEF Packet
<1>5. ntohs(wire.code) = _CMD_PING BY <1>2 DEF imsgCode
<1>6. BodyLen(wire.code) = 0 BY <1>4, <1>5, LengthOfCode
<1>7. CASE wire.body # <<>>
  <2>1. Drop BY <1>7 DEF HandlePing
  <2>2. Len(wire.body) # 0 BY <1>4, <1>7, EmptySeq DEF Body
  <2>3. wire = sent => ~Proper(sent) BY <1>6, <2>2 DEF Proper
  <2>4. QED BY <1>1, <2>1, <2>3, StepDrops
<1>8. CASE wire.body = <<>>
  <2> DEFINE p == [code |-> ntohs(_CMD_PING), crc |-> {}, body |-> <<>>]
  <2>1. Answer(p) BY <1>8 DEF HandlePing
  <2>2. ntohs(_CMD_PING) = wire.code BY <1>4, <1>5, NtohsTwice
  <2>3. {} \in Word /\ <<>> \in Body BY DEF Word, Body
  <2>4. p \in Packet BY <1>4, <2>2, <2>3 DEF Packet
  <2>5. p.code = wire.code /\ p.body = <<>> /\ p.crc = {} BY <2>2
  <2> HIDE DEF p
  <2>6. CRCFits(p) BY <2>5 DEF CRCFits
  <2>7. Len(wire.body) = BodyLen(wire.code) /\ Len(p.body) = BodyLen(p.code)
    BY <1>6, <1>8, <2>5
  <2>8. QED BY <1>1, <2>1, <2>4, <2>5, <2>6, <2>7, StepAnswers
<1>9. QED BY <1>7, <1>8

(* A handler of a structure.                                               *)
LEMMA StepStruct ==
  ASSUME DispatchInv, NEW handler, NEW code \in Commands, NEW len \in Nat \ {0},
         HandleStruct(handler, code, len),
         statusHandler(imsgCode) = handler => imsgCode = code,
         \A c \in SUBSET (0..15) : ntohs(c) = code => BodyLen(c) = len
  PROVE  DispatchInv'
<1>1. stage = "verified" /\ imsgCode = code BY DEF HandleStruct, Called
<1>2. wire \in Packet BY <1>1, ArrivesPacket DEF DispatchInv, SentRight
<1>3. wire.code \in SUBSET (0..15) /\ wire.body \in Body BY <1>2 DEF Packet
<1>4. ntohs(wire.code) = code BY <1>1 DEF imsgCode
<1>5. BodyLen(wire.code) = len BY <1>3, <1>4
<1>6. CASE Len(wire.body) # len
  <2>1. Drop BY <1>6 DEF HandleStruct
  <2>2. wire = sent => ~Proper(sent) BY <1>5, <1>6 DEF Proper
  <2>3. QED BY <1>1, <2>1, <2>2, StepDrops
<1>7. CASE Len(wire.body) = len
  <2>1. PICK body \in [1..len -> ByteValues] :
          Answer([code |-> ntohs(code), crc |-> ntohl(Get_CRC(body)), body |-> body])
    BY <1>7 DEF HandleStruct
  <2> DEFINE p == [code |-> ntohs(code), crc |-> ntohl(Get_CRC(body)), body |-> body]
  <2>2. body \in [1..len -> Byte] BY BodiesAssumption DEF BodiesAssumption
  <2>3. body \in Body /\ Len(body) = len BY <2>2 DEF Body
  <2>4. Get_CRC(body) \in Word BY <2>3, ChecksumWord
  <2>5. ntohl(Get_CRC(body)) \in Word /\ ntohl(ntohl(Get_CRC(body))) = Get_CRC(body)
    BY <2>4, NtohlBit
  <2>6. ntohs(code) = wire.code BY <1>3, <1>4, NtohsTwice
  <2>7. p \in Packet BY <1>3, <2>3, <2>5, <2>6 DEF Packet
  <2>8. p.code = wire.code /\ p.body = body /\ p.crc = ntohl(Get_CRC(body)) BY <2>6
  <2>9. Answer(p) BY <2>1
  <2> HIDE DEF p
  <2>10. body # <<>> BY <2>3
  <2>11. CRCFits(p) BY <2>5, <2>8, <2>10 DEF CRCFits
  <2>12. Len(p.body) = BodyLen(p.code) BY <1>5, <2>3, <2>8
  <2>13. QED BY <1>1, <1>5, <1>7, <2>7, <2>8, <2>9, <2>11, <2>12, StepAnswers
<1>8. QED BY <1>6, <1>7

(* Every step.                                                             *)
LEMMA StepDispatch == DispatchInv /\ [DispatchNext]_dispatchVars => DispatchInv'
<1> SUFFICES ASSUME DispatchInv, [DispatchNext]_dispatchVars PROVE DispatchInv'
  OBVIOUS
<1>1. ASSUME NEW code \in Codes, NEW body \in Bodies, ClientSendsPacket(code, body)
      PROVE  DispatchInv'
  BY <1>1, StepSends
<1>2. CASE DropDamaged
  <2>1. stage = "wire" /\ ~CRCFits(wire) /\ Drop BY <1>2 DEF DropDamaged
  <2>2. wire = sent => ~Proper(sent) BY <2>1, ProperPasses DEF DispatchInv
  <2>3. QED BY <2>1, <2>2, StepDrops
<1>3. CASE Verify
  <2>1. stage = "wire" /\ CRCFits(wire) /\ stage' = "verified"
        /\ UNCHANGED <<sent, wire, reply>>
    BY <1>3 DEF Verify, Reach
  <2>2. SentRight' BY <2>1, StaysRight DEF DispatchInv
  <2>3. Tested' BY <2>1 DEF Tested, CRCFits
  <2>4. AnsweredAsMeant' BY <2>1 DEF AnsweredAsMeant
  <2>5. QED BY <2>2, <2>3, <2>4 DEF DispatchInv
<1>4. CASE DropStaleMessage
  <2>1. stage = "verified" /\ stage' = "gone" /\ UNCHANGED <<sent, wire, reply>>
    BY <1>4 DEF DropStaleMessage, Reach
  <2>2. SentRight' BY <2>1, StaysRight DEF DispatchInv
  <2>3. Tested' /\ AnsweredAsMeant' BY <2>1 DEF Tested, AnsweredAsMeant
  <2>4. QED BY <2>2, <2>3 DEF DispatchInv
<1>5. CASE DropUnknown
  <2>1. stage = "verified" /\ ~InTable(imsgCode) /\ Drop BY <1>5 DEF DropUnknown
  <2>2. imsgCode \notin Commands BY <2>1, CommandsDiffer
  <2>3. wire = sent => ~Proper(sent) BY <2>1, <2>2, ProperPasses DEF DispatchInv
  <2>4. QED BY <2>1, <2>3, StepDrops
<1>6. CASE DropReserved
  <2>1. stage = "verified" /\ statusHandler(imsgCode) = "NULL" /\ Drop
    BY <1>6 DEF DropReserved, Called
  <2>2. imsgCode \notin Commands BY <2>1, CodeOfHandler
  <2>3. wire = sent => ~Proper(sent) BY <2>1, <2>2, ProperPasses DEF DispatchInv
  <2>4. QED BY <2>1, <2>3, StepDrops
<1>7. CASE HandlePing BY <1>7, StepPing
<1>8. CASE HandleRegister
  <2>1. HandleStruct("_HandleRegister", _CMD_REGISTER, RegisterLen)
    BY <1>8 DEF HandleRegister
  <2>2. statusHandler(imsgCode) = "_HandleRegister" => imsgCode = _CMD_REGISTER
    BY CodeOfHandler
  <2>3. \A c \in SUBSET (0..15) : ntohs(c) = _CMD_REGISTER => BodyLen(c) = RegisterLen
    BY LengthOfCode
  <2>4. _CMD_REGISTER \in Commands /\ RegisterLen \in Nat \ {0}
    BY BodiesAssumption DEF BodiesAssumption, Commands
  <2>5. QED BY <2>1, <2>2, <2>3, <2>4, StepStruct
<1>9. CASE HandleLogIn
  <2>1. HandleStruct("_HandleLogIn", _CMD_LOGIN, LoginLen)
    BY <1>9 DEF HandleLogIn
  <2>2. statusHandler(imsgCode) = "_HandleLogIn" => imsgCode = _CMD_LOGIN
    BY CodeOfHandler
  <2>3. \A c \in SUBSET (0..15) : ntohs(c) = _CMD_LOGIN => BodyLen(c) = LoginLen
    BY LengthOfCode
  <2>4. _CMD_LOGIN \in Commands /\ LoginLen \in Nat \ {0}
    BY BodiesAssumption DEF BodiesAssumption, Commands
  <2>5. QED BY <2>1, <2>2, <2>3, <2>4, StepStruct
<1>10. CASE UNCHANGED dispatchVars
  <2>1. /\ stage' = stage /\ sent' = sent /\ wire' = wire /\ reply' = reply
    BY <1>10 DEF dispatchVars
  <2>2. QED BY <2>1 DEF DispatchInv, SentRight, Tested, AnsweredAsMeant, Proper, CRCFits
<1>11. QED BY <1>1, <1>2, <1>3, <1>4, <1>5, <1>6, <1>7, <1>8, <1>9, <1>10
       DEF DispatchNext

(* threadRecvProcFunc() and its handlers answer a request exactly if it    *)
(* arrives as its client sent it, though up to two bits of it may change   *)
(* on the way; the answer is to this command, of its length, and its       *)
(* checksum is one the client finds right.                                 *)
THEOREM AnsweredRequestsAreGenuine == DispatchSpec => []AnsweredAsMeant
<1>1. DispatchInit => DispatchInv BY InitDispatch
<1>2. DispatchInv /\ [DispatchNext]_dispatchVars => DispatchInv' BY StepDispatch
<1>3. DispatchInv => AnsweredAsMeant BY DEF DispatchInv
<1>4. QED BY <1>1, <1>2, <1>3, PTL DEF DispatchSpec
=============================================================================
