---------------------------- MODULE TarfsProofs ----------------------------
(***************************************************************************)
(* What tarfs_init, getElfHeader and the look-ups compute, proved for every *)
(* archive: by induction over the octal digits of a size field and over    *)
(* the headers of the image.                                               *)
(***************************************************************************)
EXTENDS Tarfs, WellFoundedInduction, TLAPS

-----------------------------------------------------------------------------
(* Induction and recursion over the naturals, with sets and functions as   *)
(* parameters.                                                             *)

\* A set of numbers has a least one.
LEMMA LeastNumber ==
    ASSUME NEW T \in SUBSET Nat, T # {}
    PROVE  \E m \in T : \A k \in T : m <= k
<1> DEFINE R == OpToRel(<, Nat)
<1>1. IsWellFoundedOn(R, Nat)
  BY NatLessThanWellFounded
<1>2. \A x, y \in Nat : x < y => <<x, y>> \in R
  BY DEF OpToRel
<1> HIDE DEF R
<1>3. PICK m \in T : \A y \in T : ~(<<y, m>> \in R)
  BY <1>1, WFMin
<1>4. \A k \in T : ~(k < m)
  <2>1. \A k \in T : k \in Nat
    OBVIOUS
  <2> QED BY <1>2, <1>3, <2>1, Zenon
<1>5. \A k \in T : m <= k
  BY <1>4
<1> QED BY <1>5

\* A set that holds 0 and the successor of each of its members holds them all.
LEMMA Induction ==
    ASSUME NEW T \in SUBSET Nat, 0 \in T, \A n \in T : n + 1 \in T
    PROVE  \A n \in Nat : n \in T
<1> SUFFICES ASSUME NEW n \in Nat, n \notin T PROVE FALSE
  OBVIOUS
<1>1. PICK m \in Nat \ T : \A k \in Nat \ T : m <= k
  <2> DEFINE B == Nat \ T
  <2>1. B \in SUBSET Nat /\ B # {}
    OBVIOUS
  <2>2. \E m \in B : \A k \in B : m <= k
    <3> HIDE DEF B
    <3> QED BY <2>1, LeastNumber
  <2> QED BY <2>2
<1>2. m - 1 \in Nat /\ m - 1 \in T
  BY <1>1
<1> QED BY <1>1, <1>2

\* f is defined from c by step, up to n.
Recurs(S, c, pred, step, f, n) ==
    /\ f \in [Nat -> S]
    /\ f[0] = c
    /\ \A k \in 1..n : f[k] = step[<<k, f[pred[k]]>>]

Defined(S, c, pred, step) ==
    \E f \in [Nat -> S] : /\ f[0] = c
                          /\ \A n \in Nat \ {0} : f[n] = step[<<n, f[pred[n]]>>]

Decreases(pred) == pred \in [Nat -> Nat] /\ \A n \in Nat \ {0} : pred[n] < n

\* A function over the naturals may be defined by recursion to smaller ones.
LEMMA Recursion ==
    ASSUME NEW S, NEW c \in S, NEW pred, Decreases(pred), NEW step \in [Nat \X S -> S]
    PROVE  Defined(S, c, pred, step)
<1>0. pred \in [Nat -> Nat] /\ \A n \in Nat \ {0} : pred[n] < n
  BY DEF Decreases
<1> DEFINE Good(f, n) == Recurs(S, c, pred, step, f, n)
           T == {n \in Nat : \E f : Good(f, n)}
<1>1. 0 \in T
  <2>1. Good([n \in Nat |-> c], 0)
    BY DEF Recurs
  <2> QED BY <2>1
<1>2. ASSUME NEW n \in T PROVE n + 1 \in T
  <2>1. PICK f : Good(f, n)
    BY <1>2
  <2> DEFINE v == step[<<n + 1, f[pred[n + 1]]>>]
             g == [f EXCEPT ![n + 1] = v]
  <2>2. f \in [Nat -> S] /\ f[0] = c /\ \A k \in 1..n : f[k] = step[<<k, f[pred[k]]>>]
    BY <2>1 DEF Recurs
  <2>3. pred[n + 1] \in Nat /\ pred[n + 1] < n + 1 /\ n + 1 \in Nat \ {0}
    BY <1>0
  <2>4. v \in S
    BY <2>2, <2>3
  <2>5. g \in [Nat -> S] /\ g[0] = c /\ g[n + 1] = v /\ \A k \in 0..n : g[k] = f[k]
    <3> HIDE DEF v
    <3> QED BY <2>2, <2>3, <2>4
  <2>6. ASSUME NEW k \in 1..(n + 1) PROVE g[k] = step[<<k, g[pred[k]]>>]
    <3>1. pred[k] \in 0..n /\ k \in Nat \ {0}
      BY <1>0
    <3>2. g[pred[k]] = f[pred[k]]
      BY <2>5, <3>1
    <3>3. CASE k = n + 1
      BY <2>5, <3>2, <3>3
    <3>4. CASE k \in 1..n
      BY <2>2, <2>5, <3>2, <3>4
    <3> QED BY <3>3, <3>4
  <2>7. Good(g, n + 1)
    <3> HIDE DEF g
    <3> QED BY <2>5, <2>6 DEF Recurs
  <2> QED BY <2>7
<1>3. \A n \in Nat : \E f : Good(f, n)
  <2>1. T \in SUBSET Nat
    OBVIOUS
  <2>2. \A n \in Nat : n \in T
    <3> HIDE DEF T
    <3> QED BY <1>1, <1>2, <2>1, Induction
  <2> QED BY <2>2
<1>4. ASSUME NEW n \in Nat, NEW m \in Nat, NEW f, NEW g, Good(f, n), Good(g, m),
             NEW i \in Nat, i <= n, i <= m
      PROVE  f[i] = g[i]
  <2> DEFINE U == {k \in Nat : \A j \in 0..k : j <= n /\ j <= m => f[j] = g[j]}
  <2>0. f[0] = g[0]
    BY <1>4 DEF Recurs
  <2>1. 0 \in U
    BY <2>0
  <2>2. ASSUME NEW k \in U PROVE k + 1 \in U
    <3>1. SUFFICES ASSUME k + 1 <= n, k + 1 <= m PROVE f[k + 1] = g[k + 1]
      OBVIOUS
    <3>2. pred[k + 1] \in 0..k /\ k + 1 \in 1..n /\ k + 1 \in 1..m
      BY <1>0, <3>1
    <3>3. f[pred[k + 1]] = g[pred[k + 1]]
      BY <2>2, <3>1, <3>2
    <3> QED BY <1>4, <3>2, <3>3 DEF Recurs
  <2>3. U \in SUBSET Nat
    OBVIOUS
  <2>4. i \in U
    <3> HIDE DEF U
    <3> QED BY <2>1, <2>2, <2>3, Induction
  <2> QED BY <1>4, <2>4
<1> DEFINE h(n) == CHOOSE f : Good(f, n)
           F == [n \in Nat |-> h(n)[n]]
<1>5. \A n \in Nat : Good(h(n), n)
  BY <1>3
<1> HIDE DEF h
<1>6. \A n \in Nat : h(n) \in [Nat -> S] /\ h(n)[0] = c
  BY <1>5 DEF Recurs
<1>7. F \in [Nat -> S] /\ F[0] = c
  BY <1>6
<1>8. ASSUME NEW n \in Nat \ {0} PROVE F[n] = step[<<n, F[pred[n]]>>]
  <2>1. pred[n] \in Nat /\ pred[n] < n /\ n \in 1..n
    BY <1>0
  <2>2. h(n)[n] = step[<<n, h(n)[pred[n]]>>]
    BY <1>5, <2>1 DEF Recurs
  <2>3. h(n)[pred[n]] = h(pred[n])[pred[n]]
    BY <1>4, <1>5, <2>1
  <2> QED BY <2>1, <2>2, <2>3
<1> HIDE DEF F
<1> QED BY <1>7, <1>8 DEF Defined
-----------------------------------------------------------------------------
(* Size fields.                                                            *)

LEMMA Octal == \A n \in Nat : /\ n \div 8 \in Nat /\ n % 8 \in 0..7
                              /\ n = 8 * (n \div 8) + (n % 8)
OBVIOUS

DefinedTo(S, c, d, step) ==
    \E f \in [0..d -> S] : f[0] = c /\ \A k \in 1..d : f[k] = step[<<k, f[k - 1]>>]

\* A loop that runs d times has its k-th value.
LEMMA Steps ==
    ASSUME NEW S, NEW c \in S, NEW d \in Nat, NEW step \in [Nat \X S -> S]
    PROVE  DefinedTo(S, c, d, step)
<1> DEFINE pred == [n \in Nat |-> IF n = 0 THEN 0 ELSE n - 1]
<1>1. pred \in [Nat -> Nat] /\ \A n \in Nat \ {0} : pred[n] = n - 1
  OBVIOUS
<1>a. Decreases(pred)
  BY DEF Decreases
<1> HIDE DEF pred
<1>b. Defined(S, c, pred, step)
  BY <1>a, Recursion
<1>2. PICK f \in [Nat -> S] : f[0] = c /\ \A n \in Nat \ {0} : f[n] = step[<<n, f[pred[n]]>>]
  BY <1>b DEF Defined
<1> DEFINE g == [k \in 0..d |-> f[k]]
<1>3. g \in [0..d -> S] /\ g[0] = c
  BY <1>2
<1>4. ASSUME NEW k \in 1..d PROVE g[k] = step[<<k, g[k - 1]>>]
  <2>1. k \in 0..d /\ k - 1 \in 0..d /\ k \in Nat \ {0}
    OBVIOUS
  <2> QED BY <1>1, <1>2, <2>1
<1> HIDE DEF g
<1> QED BY <1>3, <1>4 DEF DefinedTo

\* What the loop's values have at the start and keep, they all have.
LEMMA Stays ==
    ASSUME NEW S, NEW d \in Nat, NEW g, g[0] \in S,
           \A k \in 1..d : g[k - 1] \in S => g[k] \in S
    PROVE  \A k \in 0..d : g[k] \in S
<1> DEFINE T == {k \in Nat : k <= d => g[k] \in S}
<1>1. 0 \in T
  OBVIOUS
<1>2. ASSUME NEW k \in T PROVE k + 1 \in T
  <2>1. CASE k + 1 <= d
    <3>1. k + 1 \in 1..d /\ (k + 1) - 1 = k /\ g[k] \in S
      BY <1>2, <2>1
    <3> QED BY <3>1
  <2> QED BY <2>1
<1>3. T \in SUBSET Nat
  OBVIOUS
<1>4. \A k \in Nat : k \in T
  <2> HIDE DEF T
  <2> QED BY <1>1, <1>2, <1>3, Induction
<1> QED BY <1>4

LEMMA RestValues ==
    ASSUME NEW n \in Nat
    PROVE  /\ Rest(n) \in [0..Digits -> Nat] /\ Rest(n)[0] = n
           /\ \A k \in 1..Digits : Rest(n)[k] = Rest(n)[k - 1] \div 8
<1> USE TarfsAssumption
<1> DEFINE Is(r) == r = [k \in 0..Digits |-> IF k = 0 THEN n ELSE r[k - 1] \div 8]
           step == [p \in Nat \X Nat |-> p[2] \div 8]
<1>1. \E r : Is(r)
  <2>0. Digits \in Nat
    OBVIOUS
  <2>1. step \in [Nat \X Nat -> Nat] /\ \A k, v \in Nat : step[<<k, v>>] = v \div 8
    BY Octal
  <2> HIDE DEF step
  <2>2. PICK f \in [0..Digits -> Nat] :
               f[0] = n /\ \A k \in 1..Digits : f[k] = step[<<k, f[k - 1]>>]
    <3>1. DefinedTo(Nat, n, Digits, step)
      BY <2>0, <2>1, Steps
    <3> QED BY <3>1 DEF DefinedTo
  <2>3. ASSUME NEW k \in 1..Digits PROVE f[k] = f[k - 1] \div 8
    <3>1. k \in Nat /\ k - 1 \in 0..Digits
      OBVIOUS
    <3>2. f[k - 1] \in Nat
      BY <2>2, <3>1
    <3> QED BY <2>1, <2>2, <3>1, <3>2
  <2>4. Is(f)
    BY <2>2, <2>3
  <2> QED BY <2>4
<1>2. Rest(n) = CHOOSE r : Is(r)
  BY DEF Rest
<1>3. Is(Rest(n))
  BY <1>1, <1>2
<1>4. Rest(n)[0] = n /\ \A k \in 1..Digits : Rest(n)[k] = Rest(n)[k - 1] \div 8
  BY <1>3
<1>5. \A k \in 0..Digits : Rest(n)[k] \in Nat
  <2>1. \A k \in 1..Digits : Rest(n)[k - 1] \in Nat => Rest(n)[k] \in Nat
    BY <1>4, Octal
  <2> QED BY <1>4, <2>1, Stays
<1> QED BY <1>3, <1>4, <1>5

\* stoi's loop over the digits.
LEMMA StoiValues ==
    ASSUME NEW f \in Seq(0..7)
    PROVE  \E r \in [0..Len(f) -> Nat] :
              /\ r[0] = 0 /\ stoi(f) = r[Len(f)]
              /\ \A k \in 1..Len(f) : r[k] = r[k - 1] * 10 + f[k]
<1> DEFINE Is(r) == r = [i \in 0..Len(f) |-> IF i = 0 THEN 0 ELSE r[i - 1] * 10 + f[i]]
           digit(i) == IF i \in 1..Len(f) THEN f[i] ELSE 0
           step == [p \in Nat \X Nat |-> p[2] * 10 + digit(p[1])]
<1>0. Len(f) \in Nat /\ \A i \in 1..Len(f) : f[i] \in Nat
  OBVIOUS
<1>1. \E r : Is(r)
  <2>1. \A i : digit(i) \in Nat
    BY <1>0
  <2>2. step \in [Nat \X Nat -> Nat]
    BY <2>1
  <2>3. \A k \in 1..Len(f), v \in Nat : step[<<k, v>>] = v * 10 + f[k]
    BY <1>0
  <2> HIDE DEF step, digit
  <2>4. DefinedTo(Nat, 0, Len(f), step)
    BY <1>0, <2>2, Steps
  <2>5. PICK g \in [0..Len(f) -> Nat] :
               g[0] = 0 /\ \A k \in 1..Len(f) : g[k] = step[<<k, g[k - 1]>>]
    BY <2>4 DEF DefinedTo
  <2>6. ASSUME NEW k \in 1..Len(f) PROVE g[k] = g[k - 1] * 10 + f[k]
    <3>0. k - 1 \in 0..Len(f)
      BY <1>0
    <3>1. g[k - 1] \in Nat
      BY <3>0
    <3> QED BY <2>3, <2>5, <3>1
  <2>7. Is(g)
    BY <1>0, <2>5, <2>6
  <2> QED BY <2>7
<1> DEFINE r == CHOOSE r : Is(r)
<1>2. Is(r) /\ stoi(f) = r[Len(f)]
  BY <1>1 DEF stoi
<1> HIDE DEF r
<1>3. r[0] = 0 /\ \A k \in 1..Len(f) : r[k] = r[k - 1] * 10 + f[k]
  BY <1>0, <1>2
<1>4. \A k \in 0..Len(f) : r[k] \in Nat
  <2>1. \A k \in 1..Len(f) : r[k - 1] \in Nat => r[k] \in Nat
    BY <1>0, <1>3
  <2>2. r[0] \in Nat
    BY <1>3
  <2> QED BY <1>0, <2>1, <2>2, Stays
<1>5. r \in [0..Len(f) -> Nat]
  BY <1>2, <1>4
<1> QED BY <1>2, <1>3, <1>5

\* octalToDecimal's loop over the decimal digits.
LEMMA OctalSteps ==
    /\ octalToDecimal(0) = 0
    /\ \A m \in Nat \ {0} : octalToDecimal(m) = (m % 10) + 8 * octalToDecimal(m \div 10)
<1> DEFINE Is(f) == f = [m \in Nat |-> IF m = 0 THEN 0 ELSE (m % 10) + 8 * f[m \div 10]]
           pred == [m \in Nat |-> m \div 10]
           step == [p \in Nat \X Nat |-> (p[1] % 10) + 8 * p[2]]
<1>1. \E f : Is(f)
  <2>1. Decreases(pred) /\ \A m \in Nat : pred[m] = m \div 10
    BY DEF Decreases
  <2>2. step \in [Nat \X Nat -> Nat] /\ \A m, v \in Nat : step[<<m, v>>] = (m % 10) + 8 * v
    <3>1. \A m \in Nat : m % 10 \in Nat
      OBVIOUS
    <3> QED BY <3>1
  <2> HIDE DEF pred, step
  <2>3. Defined(Nat, 0, pred, step)
    BY <2>1, <2>2, Recursion
  <2>4. PICK f \in [Nat -> Nat] : f[0] = 0 /\ \A n \in Nat \ {0} : f[n] = step[<<n, f[pred[n]]>>]
    BY <2>3 DEF Defined
  <2>5. ASSUME NEW m \in Nat \ {0} PROVE f[m] = (m % 10) + 8 * f[m \div 10]
    <3>1. m \div 10 \in Nat
      OBVIOUS
    <3> QED BY <2>1, <2>2, <2>4, <3>1
  <2>6. Is(f)
    BY <2>4, <2>5
  <2> QED BY <2>6
<1> DEFINE f == CHOOSE f : Is(f)
<1>2. Is(f) /\ \A m : octalToDecimal(m) = f[m]
  BY <1>1 DEF octalToDecimal
<1> HIDE DEF f
<1>3. \A m \in Nat \ {0} : m \div 10 \in Nat
  OBVIOUS
<1> QED BY <1>2, <1>3

\* the field tar writes for the size n
Field(n) == [i \in 1..Digits |-> Rest(n)[Digits - i] % 8]

LEMMA FieldDigits ==
    ASSUME NEW n \in Nat
    PROVE  /\ Field(n) \in Seq(0..7) /\ Len(Field(n)) = Digits
           /\ \A i \in 1..Digits : Field(n)[i] = Rest(n)[Digits - i] % 8
<1> USE TarfsAssumption
<1>1. \A i \in 1..Digits : Rest(n)[Digits - i] \in Nat
  BY RestValues
<1>2. \A i \in 1..Digits : Rest(n)[Digits - i] % 8 \in 0..7
  BY <1>1, Octal
<1>3. Digits \in Nat
  OBVIOUS
<1>4. Field(n) \in [1..Digits -> 0..7]
  BY <1>2 DEF Field
<1> QED BY <1>3, <1>4 DEF Field

\* One more digit, read and converted.
LEMMA OctalDigit ==
    ASSUME NEW q \in Nat, NEW x \in Nat, octalToDecimal(x) = q \div 8
    PROVE  octalToDecimal(x * 10 + (q % 8)) = q
<1> DEFINE d == q % 8
           e == q \div 8
           y == x * 10 + d
<1>1. d \in 0..7 /\ e \in Nat /\ q = 8 * e + d /\ octalToDecimal(x) = e
  BY Octal
<1> HIDE DEF d, e
<1>2. y \in Nat /\ y % 10 = d /\ y \div 10 = x /\ (y = 0 => d = 0 /\ x = 0)
  BY <1>1
<1> HIDE DEF y
<1>3. CASE y = 0
  BY <1>1, <1>2, <1>3, OctalSteps DEF y, d
<1>4. CASE y # 0
  <2>1. octalToDecimal(y) = d + 8 * e
    BY <1>1, <1>2, <1>4, OctalSteps
  <2>2. octalToDecimal(y) = q
    BY <1>1, <2>1
  <2> QED BY <2>2 DEF y, d
<1> QED BY <1>3, <1>4

\* Reading the octal digits as a decimal number and converting that gives the
\* size back.
LEMMA SizeByStoi ==
    ASSUME NEW n \in Nat, Rest(n)[Digits] = 0
    PROVE  octalToDecimal(stoi(Field(n))) = n
<1>0. Digits \in Nat /\ Digits > 0
  BY TarfsAssumption
<1>a. PICK R \in [0..Digits -> Nat] :
             R = Rest(n) /\ R[0] = n /\ \A k \in 1..Digits : R[k] = R[k - 1] \div 8
  BY RestValues
<1>b. PICK f \in Seq(0..7) :
             f = Field(n) /\ Len(f) = Digits /\ \A i \in 1..Digits : f[i] = R[Digits - i] % 8
  BY <1>a, FieldDigits
<1>1. PICK r \in [0..Digits -> Nat] :
             /\ r[0] = 0 /\ stoi(f) = r[Digits]
             /\ \A k \in 1..Digits : r[k] = r[k - 1] * 10 + f[k]
  <2>1. \E r \in [0..Len(f) -> Nat] :
              /\ r[0] = 0 /\ stoi(f) = r[Len(f)]
              /\ \A k \in 1..Len(f) : r[k] = r[k - 1] * 10 + f[k]
    BY StoiValues
  <2>2. Len(f) = Digits
    BY <1>b
  <2> QED BY <2>1, <2>2, Zenon
<1> DEFINE T == {k \in Nat : k <= Digits => octalToDecimal(r[k]) = R[Digits - k]}
<1>2. 0 \in T
  <2>1. R[Digits - 0] = 0
    BY <1>0, <1>a
  <2>2. octalToDecimal(r[0]) = 0
    BY <1>1, OctalSteps
  <2> QED BY <2>1, <2>2
<1>3. ASSUME NEW k \in T PROVE k + 1 \in T
  <2> SUFFICES ASSUME k + 1 <= Digits PROVE octalToDecimal(r[k + 1]) = R[Digits - (k + 1)]
    OBVIOUS
  <2>1. k + 1 \in 1..Digits /\ k \in 0..Digits /\ (k + 1) - 1 = k
        /\ Digits - k \in 1..Digits /\ (Digits - k) - 1 = Digits - (k + 1)
        /\ Digits - (k + 1) \in 0..Digits
    BY <1>0
  <2>2. R[Digits - (k + 1)] \in Nat /\ r[k] \in Nat
    BY <2>1
  <2>3. R[Digits - k] = R[Digits - (k + 1)] \div 8
    BY <1>a, <2>1
  <2>4. r[k + 1] = r[k] * 10 + (R[Digits - (k + 1)] % 8)
    <3>1. r[k + 1] = r[k] * 10 + f[k + 1]
      BY <1>1, <2>1
    <3>2. f[k + 1] = R[Digits - (k + 1)] % 8
      BY <1>b, <2>1
    <3> QED BY <3>1, <3>2
  <2>5. octalToDecimal(r[k]) = R[Digits - (k + 1)] \div 8
    BY <1>3, <2>1, <2>3
  <2> QED BY <2>2, <2>4, <2>5, OctalDigit
<1>4. Digits \in T
  <2>1. T \in SUBSET Nat
    OBVIOUS
  <2> HIDE DEF T
  <2> QED BY <1>0, <1>2, <1>3, <2>1, Induction
<1>5. octalToDecimal(r[Digits]) = R[Digits - Digits] /\ Digits - Digits = 0
  BY <1>0, <1>4
<1> QED BY <1>1, <1>a, <1>b, <1>5

\* c and z are the values count and size take in getSize(f).
Weights(f, d, c, z) ==
    /\ c \in [0..d -> Nat] /\ z \in [0..d -> Nat]
    /\ c[0] = 1 /\ z[0] = 0 /\ getSize(f) = z[d]
    /\ \A k \in 1..d : c[k] = c[k - 1] * 8
    /\ \A k \in 1..d : z[k] = z[k - 1] + f[d - k + 1] * c[k - 1]

LEMMA GetSizeValues ==
    ASSUME NEW f \in Seq(0..7)
    PROVE  \E c, z : Weights(f, Len(f), c, z)
<1> DEFINE IsC(c) == c = [k \in 0..Len(f) |-> IF k = 0 THEN 1 ELSE c[k - 1] * 8]
           stepC == [p \in Nat \X Nat |-> p[2] * 8]
<1>0. Len(f) \in Nat /\ \A k \in 1..Len(f) : f[Len(f) - k + 1] \in Nat
  OBVIOUS
<1>1. \E c : IsC(c)
  <2>1. stepC \in [Nat \X Nat -> Nat] /\ \A k, v \in Nat : stepC[<<k, v>>] = v * 8
    OBVIOUS
  <2> HIDE DEF stepC
  <2>2. DefinedTo(Nat, 1, Len(f), stepC)
    BY <1>0, <2>1, Steps
  <2>3. PICK g \in [0..Len(f) -> Nat] :
               g[0] = 1 /\ \A k \in 1..Len(f) : g[k] = stepC[<<k, g[k - 1]>>]
    BY <2>2 DEF DefinedTo
  <2>4. ASSUME NEW k \in 1..Len(f) PROVE g[k] = g[k - 1] * 8
    <3>1. g[k - 1] \in Nat /\ k \in Nat
      BY <1>0, <2>3
    <3> QED BY <2>1, <2>3, <3>1
  <2>5. IsC(g)
    BY <1>0, <2>3, <2>4
  <2> QED BY <2>5
<1> DEFINE c == CHOOSE c : IsC(c)
<1>2. IsC(c)
  BY <1>1
<1>3. c[0] = 1 /\ \A k \in 1..Len(f) : c[k] = c[k - 1] * 8
  <2> HIDE DEF c
  <2> QED BY <1>0, <1>2
<1>4. \A k \in 0..Len(f) : c[k] \in Nat
  <2> HIDE DEF c
  <2>1. \A k \in 1..Len(f) : c[k - 1] \in Nat => c[k] \in Nat
    BY <1>0, <1>3
  <2>2. c[0] \in Nat
    BY <1>3
  <2> QED BY <1>0, <2>1, <2>2, Stays
<1> DEFINE m(k) == f[Len(f) - k + 1] * c[k - 1]
           IsZ(z) == z = [k \in 0..Len(f) |-> IF k = 0 THEN 0 ELSE z[k - 1] + m(k)]
           w(k) == IF k \in 1..Len(f) THEN m(k) ELSE 0
           stepZ == [p \in Nat \X Nat |-> p[2] + w(p[1])]
<1>5. \A k \in 1..Len(f) : m(k) \in Nat
  <2> HIDE DEF c
  <2>1. \A k \in 1..Len(f) : f[Len(f) - k + 1] \in Nat /\ c[k - 1] \in Nat
    BY <1>0, <1>4
  <2> QED BY <2>1
<1>6. \E z : IsZ(z)
  <2> HIDE DEF c, m
  <2>1. \A k : w(k) \in Nat
    BY <1>5
  <2>2. \A k \in 1..Len(f) : w(k) = m(k)
    OBVIOUS
  <2> HIDE DEF w
  <2>3. stepZ \in [Nat \X Nat -> Nat] /\ \A k, v \in Nat : stepZ[<<k, v>>] = v + w(k)
    BY <2>1
  <2> HIDE DEF stepZ
  <2>4. DefinedTo(Nat, 0, Len(f), stepZ)
    BY <1>0, <2>3, Steps
  <2>5. PICK g \in [0..Len(f) -> Nat] :
               g[0] = 0 /\ \A k \in 1..Len(f) : g[k] = stepZ[<<k, g[k - 1]>>]
    BY <2>4 DEF DefinedTo
  <2>6. ASSUME NEW k \in 1..Len(f) PROVE g[k] = g[k - 1] + m(k)
    <3>0. k - 1 \in 0..Len(f) /\ k \in Nat
      BY <1>0
    <3>1. g[k - 1] \in Nat /\ k \in Nat
      BY <3>0
    <3> QED BY <2>2, <2>3, <2>5, <3>1
  <2>7. IsZ(g)
    BY <1>0, <2>5, <2>6
  <2> QED BY <2>7
<1> DEFINE z == CHOOSE z : IsZ(z)
<1>7. IsZ(z) /\ getSize(f) = z[Len(f)]
  BY <1>6 DEF getSize
<1> HIDE DEF z, c, m
<1>8. z[0] = 0 /\ \A k \in 1..Len(f) : z[k] = z[k - 1] + m(k)
  <2>1. IsZ(z) /\ Len(f) \in Nat
    BY <1>0, <1>7
  <2>2. \A k \in 0..Len(f) : z[k] = IF k = 0 THEN 0 ELSE z[k - 1] + m(k)
    BY <2>1, Zenon
  <2>3. 0 \in 0..Len(f) /\ \A k \in 1..Len(f) : k \in 0..Len(f) /\ k # 0
    BY <2>1
  <2> QED BY <2>2, <2>3, Zenon
<1>9. \A k \in 0..Len(f) : z[k] \in Nat
  <2>1. \A k \in 1..Len(f) : z[k - 1] \in Nat => z[k] \in Nat
    BY <1>5, <1>8
  <2>2. z[0] \in Nat
    BY <1>8
  <2> QED BY <1>0, <2>1, <2>2, Stays
<1>10. z \in [0..Len(f) -> Nat] /\ c \in [0..Len(f) -> Nat]
  BY <1>2, <1>4, <1>7, <1>9
<1>11. Weights(f, Len(f), c, z)
  BY <1>3, <1>7, <1>8, <1>10 DEF m, Weights
<1> QED BY <1>11

LEMMA Weigh ==
    ASSUME NEW x \in Nat, NEW c \in Nat, NEW q \in Nat
    PROVE  (x + (q % 8) * c) + (c * 8) * (q \div 8) = x + c * q
<1> DEFINE d == q % 8
           e == q \div 8
<1>1. d \in Nat /\ e \in Nat /\ q = 8 * e + d
  BY Octal
<1> HIDE DEF d, e
<1>2. c * (8 * e + d) = (c * 8) * e + d * c /\ (c * 8) * e \in Nat /\ d * c \in Nat
  BY <1>1
<1>3. (x + d * c) + (c * 8) * e = x + c * (8 * e + d)
  BY <1>1, <1>2
<1> QED BY <1>1, <1>3 DEF d, e

\* getSize: what is read and the weight of the rest always make up the size.
LEMMA SizeByGetSize ==
    ASSUME NEW n \in Nat, Rest(n)[Digits] = 0
    PROVE  getSize(Field(n)) = n
<1>0. Digits \in Nat /\ Digits > 0
  BY TarfsAssumption
<1>a. PICK R \in [0..Digits -> Nat] :
             R = Rest(n) /\ R[0] = n /\ \A k \in 1..Digits : R[k] = R[k - 1] \div 8
  BY RestValues
<1>b. PICK f \in Seq(0..7) :
             f = Field(n) /\ Len(f) = Digits /\ \A i \in 1..Digits : f[i] = R[Digits - i] % 8
  BY <1>a, FieldDigits
<1>c. PICK c, z : Weights(f, Digits, c, z)
  BY <1>b, GetSizeValues
<1>1. /\ c \in [0..Digits -> Nat] /\ z \in [0..Digits -> Nat]
      /\ c[0] = 1 /\ z[0] = 0 /\ getSize(f) = z[Digits]
      /\ \A k \in 1..Digits : c[k] = c[k - 1] * 8
      /\ \A k \in 1..Digits : z[k] = z[k - 1] + f[Digits - k + 1] * c[k - 1]
  BY <1>c DEF Weights
<1> DEFINE T == {k \in Nat : k <= Digits => z[k] + c[k] * R[k] = n}
<1>2. 0 \in T
  BY <1>0, <1>1, <1>a
<1>3. ASSUME NEW k \in T PROVE k + 1 \in T
  <2> SUFFICES ASSUME k + 1 <= Digits PROVE z[k + 1] + c[k + 1] * R[k + 1] = n
    OBVIOUS
  <2>1. k + 1 \in 1..Digits /\ k \in 0..Digits /\ (k + 1) - 1 = k
        /\ Digits - (k + 1) + 1 = Digits - k /\ Digits - k \in 1..Digits
        /\ Digits - (Digits - k) = k
    BY <1>0
  <2>2. z[k] \in Nat /\ c[k] \in Nat /\ R[k] \in Nat
    BY <1>1, <2>1
  <2>3. c[k + 1] = c[k] * 8 /\ R[k + 1] = R[k] \div 8
    BY <1>1, <1>a, <2>1
  <2>4. z[k + 1] = z[k] + (R[k] % 8) * c[k]
    <3>1. z[k + 1] = z[k] + f[Digits - k] * c[k]
      BY <1>1, <2>1
    <3>2. f[Digits - k] = R[k] % 8
      BY <1>b, <2>1
    <3> QED BY <3>1, <3>2
  <2>5. z[k] + c[k] * R[k] = n
    BY <1>3, <2>1
  <2>6. (z[k] + (R[k] % 8) * c[k]) + (c[k] * 8) * (R[k] \div 8) = z[k] + c[k] * R[k]
    <3>1. PICK x \in Nat, w \in Nat, q \in Nat : x = z[k] /\ w = c[k] /\ q = R[k]
      BY <2>2, Zenon
    <3>2. (x + (q % 8) * w) + (w * 8) * (q \div 8) = x + w * q
      BY Weigh
    <3> QED BY <3>1, <3>2, Zenon
  <2> QED BY <2>3, <2>4, <2>5, <2>6, Zenon
<1>4. Digits \in T
  <2>1. T \in SUBSET Nat
    OBVIOUS
  <2> HIDE DEF T
  <2> QED BY <1>0, <1>2, <1>3, <2>1, Induction
<1>5. z[Digits] + c[Digits] * R[Digits] = n /\ R[Digits] = 0
  BY <1>0, <1>4, <1>a
<1>6. z[Digits] \in Nat /\ c[Digits] \in Nat
  BY <1>0, <1>1
<1>7. z[Digits] = n
  BY <1>5, <1>6
<1> QED BY <1>1, <1>b, <1>7
-----------------------------------------------------------------------------
(* The image.                                                              *)

LEMMA DivMod ==
    ASSUME NEW s \in Nat
    PROVE  s \div Block \in Nat /\ s % Block \in 0..(Block - 1)
           /\ s = Block * (s \div Block) + (s % Block)
BY TarfsAssumption

LEMMA DivOf ==
    ASSUME NEW q \in Nat, NEW r \in 0..(Block - 1)
    PROVE  (Block * q + r) \div Block = q
BY TarfsAssumption

\* The two ways in which the code steps over a file agree with tar's layout.
LEMMA Padded ==
    ASSUME NEW s \in Nat
    PROVE  /\ NextHeader(s) \in Nat /\ NextHeader(s) > 0
           /\ NextHeader(s) = Block * (1 + (s + Block - 1) \div Block)
           /\ NextHeader(s) = (s \div Block + 1) * Block + (IF s % Block = 0 THEN 0 ELSE Block)
<1> DEFINE q == s \div Block
           r == s % Block
<1>0. Block \in Nat /\ Block > 0
  BY TarfsAssumption
<1>1. q \in Nat /\ r \in 0..(Block - 1) /\ s = Block * q + r
  BY DivMod
<1>a. /\ Block * q \in Nat /\ Block * (q + 1) = Block * q + Block
      /\ Block * (1 + q) = Block * q + Block /\ (q + 1) * Block = Block * q + Block
      /\ Block * (1 + (q + 1)) = Block * q + Block + Block
  <2> HIDE DEF q
  <2> QED BY <1>0, <1>1
<1>2. CASE r = 0
  <2>1. (s + Block - 1) \div Block = q
    <3>1. s + Block - 1 = Block * q + (Block - 1) /\ Block - 1 \in 0..(Block - 1)
      <4> HIDE DEF q, r
      <4> QED BY <1>0, <1>1, <1>2, <1>a
    <3> HIDE DEF q
    <3> QED BY <1>1, <3>1, DivOf
  <2>2. NextHeader(s) = s + Block
    BY <1>0, <1>2 DEF NextHeader
  <2>3. s = Block * q
    <3> HIDE DEF q, r
    <3> QED BY <1>0, <1>1, <1>2, <1>a
  <2>4. NextHeader(s) = Block * q + Block
    BY <2>2, <2>3
  <2>5. (s \div Block + 1) * Block + (IF s % Block = 0 THEN 0 ELSE Block) = Block * q + Block
    <3>1. (q + 1) * Block + (IF r = 0 THEN 0 ELSE Block) = Block * q + Block
      <4> HIDE DEF q, r
      <4> QED BY <1>0, <1>1, <1>2, <1>a
    <3> QED BY <3>1
  <2> HIDE DEF q, r
  <2> QED BY <1>0, <1>a, <2>1, <2>4, <2>5
<1>3. CASE r # 0
  <2>1. (s + Block - 1) \div Block = q + 1
    <3>1. s + Block - 1 = Block * (q + 1) + (r - 1) /\ r - 1 \in 0..(Block - 1) /\ q + 1 \in Nat
      <4> HIDE DEF q, r
      <4> QED BY <1>0, <1>1, <1>3, <1>a
    <3> HIDE DEF q, r
    <3> QED BY <3>1, DivOf
  <2>2. s # 0
    <3> HIDE DEF q, r
    <3> QED BY <1>0, <1>1, <1>3, <1>a
  <2>3. NextHeader(s) = s + (Block - r) + Block
    BY <1>3, <2>2 DEF NextHeader
  <2>4. NextHeader(s) = Block * q + Block + Block
    <3> HIDE DEF q, r
    <3> QED BY <1>0, <1>1, <1>a, <2>3
  <2>5. (s \div Block + 1) * Block + (IF s % Block = 0 THEN 0 ELSE Block)
          = Block * q + Block + Block
    <3>1. (q + 1) * Block + (IF r = 0 THEN 0 ELSE Block) = Block * q + Block + Block
      <4> HIDE DEF q, r
      <4> QED BY <1>0, <1>1, <1>3, <1>a
    <3> QED BY <3>1
  <2>6. Block * (1 + (s + Block - 1) \div Block) = Block * (1 + (q + 1))
    BY <2>1, Zenon
  <2> HIDE DEF q, r
  <2>7. NextHeader(s) \in Nat /\ NextHeader(s) > 0
    BY <1>0, <1>a, <2>4
  <2> QED BY <1>a, <2>4, <2>5, <2>6, <2>7, Zenon
<1> QED BY <1>2, <1>3

\* What is known of the entries of an archive.
LEMMA Entries ==
    ASSUME NEW a, WellFormed(a)
    PROVE  /\ a \in Seq(Entry) /\ Len(a) \in Nat /\ Len(a) < NoParent
           /\ \A i \in 1..Len(a) :
                /\ a[i].size \in Nat /\ Rest(a[i].size)[Digits] = 0
                /\ a[i].name \in Seq(STRING) /\ a[i].name # <<>>
                /\ a[i].type \in {"FILE_TYPE", "DIRECTORY"}
<1>1. a \in Seq(Entry) /\ Len(a) < 100
  BY DEF WellFormed, TableSize
<1>2. Len(a) \in Nat /\ \A i \in 1..Len(a) : a[i] \in Entry
  BY <1>1
<1>3. \A e \in Entry : /\ e.size \in Nat /\ e.name \in Seq(STRING) \ {<<>>}
                       /\ e.type \in {"FILE_TYPE", "DIRECTORY"}
  BY DEF Entry
<1>4. \A i \in 1..Len(a) : Rest(a[i].size)[Digits] = 0
  BY DEF WellFormed
<1> QED BY <1>1, <1>2, <1>3, <1>4 DEF NoParent

\* The headers of the image: each is NextHeader of its size behind the last one.
LEMMA StartValues ==
    ASSUME NEW a, WellFormed(a)
    PROVE  /\ Len(a) \in Nat
           /\ Start(a) \in [1..(Len(a) + 1) -> Nat] /\ Start(a)[1] = TarStart
           /\ \A k \in 1..Len(a) : Start(a)[k + 1] = Start(a)[k] + NextHeader(a[k].size)
<1> DEFINE n == Len(a)
           gap(k) == Block * (1 + (a[k].size + Block - 1) \div Block)
           Is(f) == f = [k \in 1..(n + 1) |-> IF k = 1 THEN TarStart ELSE f[k - 1] + gap(k - 1)]
           w(k) == IF k \in 1..n THEN NextHeader(a[k].size) ELSE 0
           step == [p \in Nat \X Nat |-> p[2] + w(p[1])]
<1>0. n \in Nat /\ TarStart \in Nat /\ \A k \in 1..n : a[k].size \in Nat
  BY TarfsAssumption, Entries DEF TarStart
<1>1. \A k \in 1..n : NextHeader(a[k].size) \in Nat /\ gap(k) = NextHeader(a[k].size)
  BY <1>0, Padded
<1>2. \A k \in 1..n : w(k) = gap(k) /\ gap(k) \in Nat
  BY <1>1
<1>3. \A k : w(k) \in Nat
  BY <1>1
<1>d. Start(a) = CHOOSE f : Is(f)
  BY DEF Start
<1> HIDE DEF w, gap, n
<1>4. \E f : Is(f)
  <2>1. step \in [Nat \X Nat -> Nat] /\ \A k, v \in Nat : step[<<k, v>>] = v + w(k)
    BY <1>3
  <2> HIDE DEF step
  <2>2. DefinedTo(Nat, TarStart, n, step)
    BY <1>0, <2>1, Steps
  <2>3. PICK g \in [0..n -> Nat] :
               g[0] = TarStart /\ \A k \in 1..n : g[k] = step[<<k, g[k - 1]>>]
    BY <2>2 DEF DefinedTo
  <2> DEFINE f == [k \in 1..(n + 1) |-> g[k - 1]]
  <2>4. ASSUME NEW k \in 1..(n + 1), k # 1 PROVE f[k] = f[k - 1] + gap(k - 1)
    <3>1. /\ k - 1 \in 1..n /\ k - 1 \in 1..(n + 1) /\ (k - 1) - 1 \in 0..n /\ k - 1 \in Nat
      BY <1>0, <2>4
    <3>2. g[k - 1] = g[(k - 1) - 1] + w(k - 1)
      BY <2>1, <2>3, <3>1
    <3> QED BY <1>2, <3>1, <3>2
  <2>5. f[1] = TarStart
    BY <1>0, <2>3
  <2>6. f = [k \in 1..(n + 1) |-> f[k]]
    OBVIOUS
  <2> HIDE DEF f
  <2>7. Is(f)
    <3>1. \A k \in 1..(n + 1) : f[k] = IF k = 1 THEN TarStart ELSE f[k - 1] + gap(k - 1)
      BY <2>4, <2>5
    <3> QED BY <2>6, <3>1
  <2> QED BY <2>7
<1>5. Is(Start(a))
  BY <1>4, <1>d
<1>6. /\ Start(a)[1] = TarStart
      /\ \A k \in 1..n : Start(a)[k + 1] = Start(a)[k] + gap(k)
  <2>1. \A k \in 1..(n + 1) : Start(a)[k] = IF k = 1 THEN TarStart ELSE Start(a)[k - 1] + gap(k - 1)
    BY <1>5, Zenon
  <2>2. /\ 1 \in 1..(n + 1)
        /\ \A k \in 1..n : k + 1 \in 1..(n + 1) /\ k + 1 # 1 /\ (k + 1) - 1 = k
    BY <1>0
  <2>3. ASSUME NEW k \in 1..n PROVE Start(a)[k + 1] = Start(a)[k] + gap(k)
    <3>1. Start(a)[k + 1] = Start(a)[(k + 1) - 1] + gap((k + 1) - 1)
      BY <2>1, <2>2, Zenon
    <3>2. (k + 1) - 1 = k
      BY <2>2
    <3> QED BY <3>1, <3>2, Zenon
  <2> QED BY <2>1, <2>2, <2>3, Zenon
<1> DEFINE g == [k \in 0..n |-> Start(a)[k + 1]]
<1>7. \A k \in 0..n : g[k] \in Nat
  <2>1. g[0] \in Nat
    BY <1>0, <1>6
  <2>2. ASSUME NEW k \in 1..n, g[k - 1] \in Nat PROVE g[k] \in Nat
    <3>1. g[k] = Start(a)[k + 1] /\ g[k - 1] = Start(a)[k]
      BY <1>0
    <3> QED BY <1>2, <1>6, <2>2, <3>1
  <2> HIDE DEF g
  <2> QED BY <1>0, <2>1, <2>2, Stays
<1>8. \A k \in 1..(n + 1) : Start(a)[k] \in Nat
  <2> TAKE k \in 1..(n + 1)
  <2>1. k - 1 \in 0..n /\ (k - 1) + 1 = k
    BY <1>0
  <2> QED BY <1>7, <2>1
<1>9. Start(a) \in [1..(n + 1) -> Nat]
  BY <1>5, <1>8
<1> QED BY <1>0, <1>1, <1>6, <1>9 DEF n

\* No two headers are at the same address, and none is at the end.
LEMMA StartAscends ==
    ASSUME NEW a, WellFormed(a), NEW j \in 1..(Len(a) + 1), NEW k \in 1..(Len(a) + 1), j < k
    PROVE  Start(a)[j] < Start(a)[k]
<1>0. /\ Len(a) \in Nat /\ \A i \in 1..(Len(a) + 1) : Start(a)[i] \in Nat
      /\ \A i \in 1..Len(a) : Start(a)[i + 1] = Start(a)[i] + NextHeader(a[i].size)
      /\ \A i \in 1..Len(a) : NextHeader(a[i].size) \in Nat /\ NextHeader(a[i].size) > 0
  BY StartValues, Entries, Padded
<1> DEFINE T == {d \in Nat : j + d + 1 <= Len(a) + 1 => Start(a)[j] < Start(a)[j + d + 1]}
<1>1. ASSUME NEW i \in 1..Len(a) PROVE Start(a)[i] < Start(a)[i + 1]
  <2>1. i \in 1..(Len(a) + 1)
    BY <1>0
  <2>2. /\ Start(a)[i] \in Nat /\ Start(a)[i + 1] = Start(a)[i] + NextHeader(a[i].size)
        /\ NextHeader(a[i].size) \in Nat /\ NextHeader(a[i].size) > 0
    BY <1>0, <2>1
  <2> QED BY <2>2
<1>2. 0 \in T
  <2>1. j \in Nat /\ j + 0 + 1 = j + 1
    BY <1>0
  <2>2. j + 1 <= Len(a) + 1 => j \in 1..Len(a)
    BY <1>0
  <2> QED BY <1>1, <2>1, <2>2
<1>3. ASSUME NEW d \in T PROVE d + 1 \in T
  <2> SUFFICES ASSUME j + (d + 1) + 1 <= Len(a) + 1
               PROVE  Start(a)[j] < Start(a)[j + (d + 1) + 1]
    OBVIOUS
  <2>1. /\ j + d + 1 \in 1..Len(a) /\ j + d + 1 <= Len(a) + 1
        /\ (j + d + 1) + 1 = j + (d + 1) + 1 /\ j + (d + 1) + 1 \in 1..(Len(a) + 1)
        /\ j + d + 1 \in 1..(Len(a) + 1)
    BY <1>0
  <2>2. Start(a)[j] < Start(a)[j + d + 1]
    BY <1>3, <2>1
  <2>3. Start(a)[j + d + 1] < Start(a)[j + (d + 1) + 1]
    BY <1>1, <2>1
  <2>4. /\ Start(a)[j] \in Nat /\ Start(a)[j + d + 1] \in Nat
        /\ Start(a)[j + (d + 1) + 1] \in Nat
    BY <1>0, <2>1
  <2> QED BY <2>2, <2>3, <2>4
<1>4. \A d \in Nat : d \in T
  <2>1. T \in SUBSET Nat
    OBVIOUS
  <2> HIDE DEF T
  <2> QED BY <1>2, <1>3, <2>1, Induction
<1>5. k - j - 1 \in Nat /\ j + (k - j - 1) + 1 = k /\ k <= Len(a) + 1
  BY <1>0
<1> QED BY <1>4, <1>5

\* What is found at a header and behind the last one.
LEMMA Headers ==
    ASSUME NEW a, WellFormed(a)
    PROVE  /\ \A k \in 1..Len(a) : HeaderAt(a, Start(a)[k]) = {k}
           /\ \A k \in 1..Len(a) : NameAt(a, Start(a)[k]) = a[k].name
           /\ \A k \in 1..Len(a) : SizeField(a, Start(a)[k]) = Field(a[k].size)
           /\ \A x \in Nat : x >= Start(a)[Len(a) + 1] => NameAt(a, x) = <<>>
<1>0. Len(a) \in Nat /\ \A i \in 1..(Len(a) + 1) : Start(a)[i] \in Nat
  BY StartValues
<1>1. ASSUME NEW k \in 1..Len(a), NEW j \in 1..Len(a), Start(a)[j] = Start(a)[k] PROVE j = k
  <2>1. j \in 1..(Len(a) + 1) /\ k \in 1..(Len(a) + 1) /\ j \in Nat /\ k \in Nat
    BY <1>0
  <2>2. ~(j < k) /\ ~(k < j)
    BY <1>0, <1>1, <2>1, StartAscends
  <2> QED BY <2>1, <2>2
<1>2. \A k \in 1..Len(a) : HeaderAt(a, Start(a)[k]) = {k}
  BY <1>1 DEF HeaderAt
<1>3. \A k \in 1..Len(a) : Smallest({k}) = k
  <2> TAKE k \in 1..Len(a)
  <2>1. \E x \in {k} : \A y \in {k} : x <= y
    BY <1>0
  <2> QED BY <2>1 DEF Smallest
<1>4. \A k \in 1..Len(a) : NameAt(a, Start(a)[k]) = a[k].name
  BY <1>2, <1>3 DEF NameAt
<1>5. \A k \in 1..Len(a) : SizeField(a, Start(a)[k]) = Field(a[k].size)
  BY <1>2, <1>3 DEF SizeField, Field
<1>6. ASSUME NEW x \in Nat, x >= Start(a)[Len(a) + 1] PROVE NameAt(a, x) = <<>>
  <2>1. \A k \in 1..Len(a) : Start(a)[k] < Start(a)[Len(a) + 1]
    <3> TAKE k \in 1..Len(a)
    <3>1. k \in 1..(Len(a) + 1) /\ Len(a) + 1 \in 1..(Len(a) + 1) /\ k < Len(a) + 1
      BY <1>0
    <3> QED BY <3>1, StartAscends
  <2>2. Start(a)[Len(a) + 1] \in Nat /\ \A k \in 1..Len(a) : Start(a)[k] \in Nat
    BY <1>0
  <2>3. HeaderAt(a, x) = {} /\ ~(x < Start(a)[Len(a) + 1])
    BY <1>6, <2>1, <2>2 DEF HeaderAt
  <2> QED BY <2>3 DEF NameAt
<1> QED BY <1>2, <1>4, <1>5, <1>6
-----------------------------------------------------------------------------
(* Walks through the image.                                                *)

WalksTo(S, c, E, next, step) ==
    \E f \in [Nat -> S] : /\ \A x \in Nat : x >= E => f[x] = c
                          /\ \A x \in Nat : x < E => f[x] = step[<<x, f[next[x]]>>]

Ascends(next) == next \in [Nat -> Nat] /\ \A x \in Nat : next[x] > x

\* A function may be defined by recursion to larger numbers up to a limit.
LEMMA Upwards ==
    ASSUME NEW S, NEW c \in S, NEW E \in Nat, NEW next, Ascends(next),
           NEW step \in [Nat \X S -> S]
    PROVE  WalksTo(S, c, E, next, step)
<1>0. next \in [Nat -> Nat] /\ \A x \in Nat : next[x] > x
  BY DEF Ascends
<1> DEFINE place(m) == IF m <= E THEN E - m ELSE 0
           pr(m) == IF m <= E /\ next[place(m)] < E THEN E - next[place(m)] ELSE 0
           pred == [m \in Nat |-> pr(m)]
           back == [p \in Nat \X S |-> step[<<place(p[1]), p[2]>>]]
<1>1. \A m \in Nat : place(m) \in Nat
  OBVIOUS
<1>2. \A m \in Nat : pr(m) \in Nat
  BY <1>0, <1>1
<1>3. ASSUME NEW m \in Nat \ {0} PROVE pr(m) < m
  <2>1. next[place(m)] \in Nat /\ next[place(m)] > place(m)
    BY <1>0, <1>1
  <2> QED BY <2>1
<1>4. \A m \in Nat : pred[m] = pr(m)
  OBVIOUS
<1>5. Decreases(pred)
  <2> HIDE DEF pr
  <2> QED BY <1>2, <1>3 DEF Decreases
<1>6. back \in [Nat \X S -> S] /\ \A m \in Nat, v \in S : back[<<m, v>>] = step[<<place(m), v>>]
  <2> HIDE DEF place
  <2> QED BY <1>1
<1> HIDE DEF pred, back
<1>7. Defined(S, c, pred, back)
  BY <1>5, <1>6, Recursion
<1>8. PICK g \in [Nat -> S] : g[0] = c /\ \A m \in Nat \ {0} : g[m] = back[<<m, g[pred[m]]>>]
  BY <1>7 DEF Defined
<1> DEFINE f == [x \in Nat |-> IF x >= E THEN c ELSE g[E - x]]
<1>9. f \in [Nat -> S]
  <2>1. \A x \in Nat : ~(x >= E) => E - x \in Nat
    OBVIOUS
  <2> QED BY <1>8, <2>1
<1>10. \A x \in Nat : x >= E => f[x] = c
  OBVIOUS
<1>11. ASSUME NEW x \in Nat, x < E PROVE f[x] = step[<<x, f[next[x]]>>]
  <2>1. E - x \in Nat \ {0} /\ place(E - x) = x /\ E - x <= E /\ next[x] \in Nat /\ E - x \in Nat
    BY <1>0, <1>11
  <2>2. pr(E - x) = IF next[x] < E THEN E - next[x] ELSE 0
    BY <2>1
  <2>3. f[next[x]] = g[pr(E - x)]
    BY <1>8, <2>1, <2>2
  <2>4. g[E - x] = back[<<E - x, g[pr(E - x)]>>] /\ g[pr(E - x)] \in S
    <3> HIDE DEF pr, place
    <3> QED BY <1>2, <1>4, <1>8, <2>1
  <2>5. f[x] = g[E - x]
    BY <1>11
  <2> HIDE DEF f, pr, place
  <2> QED BY <1>6, <2>1, <2>3, <2>4, <2>5
<1> HIDE DEF f
<1> QED BY <1>9, <1>10, <1>11 DEF WalksTo

LEMMA RestOfZero == Rest(0)[Digits] = 0
<1>0. Digits \in Nat
  BY TarfsAssumption
<1>1. /\ Rest(0)[0] = 0
      /\ \A k \in 1..Digits : Rest(0)[k] = Rest(0)[k - 1] \div 8
  BY RestValues
<1> DEFINE Z == {0}
<1>2. \A k \in 1..Digits : Rest(0)[k - 1] \in Z => Rest(0)[k] \in Z
  <2>1. 0 \div 8 = 0
    OBVIOUS
  <2> QED BY <1>1, <2>1
<1>3. Rest(0)[0] \in Z
  BY <1>1
<1>4. \A k \in 0..Digits : Rest(0)[k] \in Z
  <2> HIDE DEF Z
  <2> QED BY <1>0, <1>2, <1>3, Stays
<1> QED BY <1>0, <1>4

\* Wherever a walk looks, both readings of the size field agree.
LEMMA SizesRead ==
    ASSUME NEW a, WellFormed(a), NEW x
    PROVE  /\ octalToDecimal(stoi(SizeField(a, x))) \in Nat
           /\ getSize(SizeField(a, x)) = octalToDecimal(stoi(SizeField(a, x)))
<1> DEFINE n == IF HeaderAt(a, x) # {} THEN a[Smallest(HeaderAt(a, x))].size ELSE 0
<1>1. SizeField(a, x) = Field(n)
  BY DEF SizeField, Field
<1>2. n \in Nat /\ Rest(n)[Digits] = 0
  <2>1. CASE HeaderAt(a, x) = {}
    BY <2>1, RestOfZero
  <2>2. CASE HeaderAt(a, x) # {}
    <3>1. HeaderAt(a, x) \in SUBSET Nat /\ HeaderAt(a, x) \subseteq 1..Len(a)
      BY DEF HeaderAt
    <3>2. \E k \in HeaderAt(a, x) : \A j \in HeaderAt(a, x) : k <= j
      BY <2>2, <3>1, LeastNumber
    <3>3. Smallest(HeaderAt(a, x)) \in 1..Len(a)
      BY <3>1, <3>2 DEF Smallest
    <3> QED BY <2>2, <3>3, Entries
  <2> QED BY <2>1, <2>2
<1> HIDE DEF n
<1> QED BY <1>1, <1>2, SizeByStoi, SizeByGetSize

\* The walk's steps lead from each header to the next one.
LEMMA StepsToNext ==
    ASSUME NEW a, WellFormed(a), NEW k \in 1..Len(a)
    PROVE  /\ octalToDecimal(stoi(SizeField(a, Start(a)[k]))) = a[k].size
           /\ Start(a)[k] + NextHeader(octalToDecimal(stoi(SizeField(a, Start(a)[k]))))
                = Start(a)[k + 1]
<1>1. a[k].size \in Nat /\ Rest(a[k].size)[Digits] = 0
  BY Entries
<1>2. SizeField(a, Start(a)[k]) = Field(a[k].size)
  BY Headers
<1>3. octalToDecimal(stoi(SizeField(a, Start(a)[k]))) = a[k].size
  BY <1>1, <1>2, SizeByStoi
<1>4. Start(a)[k + 1] = Start(a)[k] + NextHeader(a[k].size)
  BY StartValues
<1> QED BY <1>3, <1>4

LEMMA SameSequence ==
    ASSUME NEW S, NEW s \in Seq(S), NEW t \in Seq(S), NEW d \in Nat, Len(s) = d, Len(t) = d,
           \A i \in 1..d : s[i] = t[i]
    PROVE  s = t
<1>1. s = [i \in 1..d |-> s[i]] /\ t = [i \in 1..d |-> t[i]]
  OBVIOUS
<1> QED BY <1>1

\* tarfs_init meets the headers of all entries, in their order, and nothing else.
LEMMA WalkIsHeaders ==
    ASSUME NEW a, WellFormed(a)
    PROVE  Walk(a) = [i \in 1..Len(a) |-> Start(a)[i]]
<1> DEFINE n == Len(a)
           E == Start(a)[n + 1]
           nx(x) == x + NextHeader(octalToDecimal(stoi(SizeField(a, x))))
           Is(f) == f = [x \in Nat |-> IF NameAt(a, x) = <<>> THEN <<>> ELSE <<x>> \o f[nx(x)]]
           next == [x \in Nat |-> nx(x)]
           S == Seq(Nat)
           step == [p \in Nat \X S |-> IF NameAt(a, p[1]) = <<>> THEN <<>> ELSE <<p[1]>> \o p[2]]
<1>0. n \in Nat /\ \A i \in 1..(n + 1) : Start(a)[i] \in Nat
  BY StartValues
<1>1. \A x \in Nat : nx(x) \in Nat /\ nx(x) > x
  <2> TAKE x \in Nat
  <2>1. octalToDecimal(stoi(SizeField(a, x))) \in Nat
    BY SizesRead
  <2>2. /\ NextHeader(octalToDecimal(stoi(SizeField(a, x)))) \in Nat
        /\ NextHeader(octalToDecimal(stoi(SizeField(a, x)))) > 0
    BY <2>1, Padded
  <2> QED BY <2>2
<1>2. \A x \in Nat : x >= E => NameAt(a, x) = <<>>
  BY Headers
<1>3. ASSUME NEW k \in 1..n
      PROVE  /\ nx(Start(a)[k]) = Start(a)[k + 1] /\ NameAt(a, Start(a)[k]) # <<>>
             /\ Start(a)[k] \in Nat
  <2>1. a[k].name # <<>> /\ NameAt(a, Start(a)[k]) = a[k].name
    BY Entries, Headers
  <2>2. k \in 1..(n + 1)
    BY <1>0
  <2> QED BY <1>0, <2>1, <2>2, StepsToNext
<1>4. E \in Nat
  BY <1>0
<1>5. Walk(a) = (CHOOSE f : Is(f))[TarStart]
  BY DEF Walk
<1>6. \E f : Is(f)
  <2>1. Ascends(next) /\ \A x \in Nat : next[x] = nx(x)
    <3> HIDE DEF nx
    <3> QED BY <1>1 DEF Ascends
  <2>2. /\ step \in [Nat \X S -> S]
        /\ \A x \in Nat, s \in S :
              step[<<x, s>>] = IF NameAt(a, x) = <<>> THEN <<>> ELSE <<x>> \o s
    <3>1. \A x \in Nat, s \in S : <<x>> \o s \in S /\ <<>> \in S
      OBVIOUS
    <3> HIDE DEF S
    <3> QED BY <3>1
  <2>3. <<>> \in S
    OBVIOUS
  <2> HIDE DEF next, step, S, E, nx
  <2>4. WalksTo(S, <<>>, E, next, step)
    BY <1>4, <2>1, <2>2, <2>3, Upwards
  <2>5. PICK f \in [Nat -> S] : /\ \A x \in Nat : x >= E => f[x] = <<>>
                                /\ \A x \in Nat : x < E => f[x] = step[<<x, f[next[x]]>>]
    BY <2>4 DEF WalksTo
  <2>6. ASSUME NEW x \in Nat
        PROVE  f[x] = IF NameAt(a, x) = <<>> THEN <<>> ELSE <<x>> \o f[nx(x)]
    <3>1. CASE x >= E
      BY <1>2, <2>5, <3>1
    <3>2. CASE x < E
      <4>1. next[x] = nx(x) /\ f[nx(x)] \in S
        BY <1>1, <2>1, <2>5
      <4> QED BY <2>2, <2>5, <3>2, <4>1
    <3> QED BY <1>4, <3>1, <3>2
  <2>7. Is(f)
    BY <2>5, <2>6
  <2> QED BY <2>7
<1> DEFINE f == CHOOSE f : Is(f)
<1>7. Is(f) /\ Walk(a) = f[TarStart]
  BY <1>5, <1>6
<1> HIDE DEF f
<1>8. f[E] = <<>> /\ \A k \in 1..n : f[Start(a)[k]] = <<Start(a)[k]>> \o f[Start(a)[k + 1]]
  <2>1. \A x \in Nat : f[x] = IF NameAt(a, x) = <<>> THEN <<>> ELSE <<x>> \o f[nx(x)]
    <3> HIDE DEF nx
    <3> QED BY <1>7
  <2>2. f[E] = <<>>
    <3>1. E \in Nat /\ NameAt(a, E) = <<>>
      <4> HIDE DEF E
      <4> QED BY <1>2, <1>4
    <3> HIDE DEF nx, E
    <3> QED BY <2>1, <3>1, Zenon
  <2>3. ASSUME NEW k \in 1..n PROVE f[Start(a)[k]] = <<Start(a)[k]>> \o f[Start(a)[k + 1]]
    <3> HIDE DEF nx
    <3> QED BY <1>3, <2>1
  <2> QED BY <2>2, <2>3
<1> HIDE DEF nx, Is
<1> DEFINE suffix(d) == [i \in 1..d |-> Start(a)[n + 1 - d + i - 1]]
           T == {d \in Nat : d <= n => f[Start(a)[n + 1 - d]] = suffix(d)}
<1>9. 0 \in T
  <2>1. n + 1 - 0 = n + 1 /\ suffix(0) = <<>>
    BY <1>0
  <2> HIDE DEF suffix
  <2> QED BY <1>8, <2>1
<1>10. ASSUME NEW d \in T PROVE d + 1 \in T
  <2> SUFFICES ASSUME d + 1 <= n PROVE f[Start(a)[n + 1 - (d + 1)]] = suffix(d + 1)
    <3> HIDE DEF suffix, n
    <3> QED OBVIOUS
  <2> DEFINE k == n + 1 - (d + 1)
  <2>1. k \in 1..n /\ k + 1 = n + 1 - d /\ d <= n /\ d \in Nat
    BY <1>0
  <2>2. f[Start(a)[k]] = <<Start(a)[k]>> \o suffix(d)
    <3> HIDE DEF suffix
    <3> QED BY <1>8, <1>10, <2>1
  <2>3. <<Start(a)[k]>> \o suffix(d) = suffix(d + 1)
    <3>1. suffix(d) \in Seq(Nat) /\ Len(suffix(d)) = d
      <4>1. \A i \in 1..d : Start(a)[n + 1 - d + i - 1] \in Nat
        BY <1>0, <2>1
      <4> QED BY <2>1, <4>1
    <3>2. Start(a)[k] \in Nat
      BY <1>3, <2>1
    <3>3. suffix(d + 1) \in Seq(Nat) /\ Len(suffix(d + 1)) = d + 1
      <4>1. \A i \in 1..(d + 1) : Start(a)[n + 1 - (d + 1) + i - 1] \in Nat
        BY <1>0, <2>1
      <4> QED BY <2>1, <4>1
    <3>4. ASSUME NEW i \in 1..(d + 1) PROVE (<<Start(a)[k]>> \o suffix(d))[i] = suffix(d + 1)[i]
      <4>1. suffix(d + 1)[i] = Start(a)[n + 1 - (d + 1) + i - 1]
        OBVIOUS
      <4>2. CASE i = 1
        <5>1. n + 1 - (d + 1) + i - 1 = k
          BY <1>0, <4>2
        <5>2. (<<Start(a)[k]>> \o suffix(d))[i] = Start(a)[k]
          <6> HIDE DEF suffix, k
          <6> QED BY <3>1, <3>2, <4>2
        <5> QED BY <4>1, <5>1, <5>2
      <4>3. CASE i # 1
        <5>1. n + 1 - (d + 1) + i - 1 = n + 1 - d + (i - 1) - 1 /\ i - 1 \in 1..d
          BY <1>0, <4>3
        <5>2. (<<Start(a)[k]>> \o suffix(d))[i] = suffix(d)[i - 1]
          <6> HIDE DEF suffix, k
          <6> QED BY <2>1, <3>1, <3>2, <4>3, <5>1
        <5> QED BY <4>1, <5>1, <5>2
      <4> QED BY <4>2, <4>3
    <3>5. <<Start(a)[k]>> \o suffix(d) \in Seq(Nat) /\ Len(<<Start(a)[k]>> \o suffix(d)) = d + 1
      <4> HIDE DEF suffix, k
      <4> QED BY <2>1, <3>1, <3>2
    <3> DEFINE s == <<Start(a)[k]>> \o suffix(d)
               t == suffix(d + 1)
               e == d + 1
    <3>6. e \in Nat /\ s \in Seq(Nat) /\ t \in Seq(Nat) /\ Len(s) = e /\ Len(t) = e
      BY <2>1, <3>3, <3>5
    <3>7. \A i \in 1..e : s[i] = t[i]
      BY <3>4
    <3>8. s = t
      <4> HIDE DEF s, t, e
      <4> QED BY <3>6, <3>7, SameSequence
    <3> QED BY <3>8
  <2> QED BY <2>2, <2>3
<1>11. n \in T
  <2>1. T \in SUBSET Nat
    OBVIOUS
  <2> HIDE DEF T
  <2> QED BY <1>0, <1>9, <1>10, <2>1, Induction
<1>12. f[Start(a)[1]] = suffix(n)
  <2>1. n + 1 - n = 1
    BY <1>0
  <2> HIDE DEF suffix
  <2> QED BY <1>0, <1>11, <2>1
<1>13. suffix(n) = [i \in 1..n |-> Start(a)[i]]
  <2>1. \A i \in 1..n : n + 1 - n + i - 1 = i
    BY <1>0
  <2> QED BY <2>1
<1>14. Start(a)[1] = TarStart
  BY StartValues
<1> QED BY <1>7, <1>12, <1>13, <1>14

\* f gives the address getElfHeader returns from the k-th header on: for the
\* entry of that name, or 0.
Searches(a, file, f) ==
    /\ getElfHeader(a, file) = f[Start(a)[1]]
    /\ f[Start(a)[Len(a) + 1]] = 0
    /\ \A k \in 1..Len(a) :
          f[Start(a)[k]] = IF a[k].name = file THEN Start(a)[k] + Block
                           ELSE f[Start(a)[k + 1]]

LEMMA ElfSteps ==
    ASSUME NEW a, WellFormed(a), NEW file, file # <<>>
    PROVE  \E f : Searches(a, file, f)
<1> DEFINE n == Len(a)
           E == TarEnd(a)
           size(x) == getSize(SizeField(a, x))
           gap(s) == (s \div Block + 1) * Block + (IF s % Block = 0 THEN 0 ELSE Block)
           nx(x) == x + (size(x) \div Block + 1) * Block
                      + (IF size(x) % Block = 0 THEN 0 ELSE Block)
           val(x, v) == IF x >= E THEN 0 ELSE IF NameAt(a, x) = file THEN x + Block
                        ELSE IF NameAt(a, x) = <<>> THEN 0 ELSE v
           Is(f) == f = [x \in Nat |-> val(x, f[nx(x)])]
           next == [x \in Nat |-> nx(x)]
           step == [p \in Nat \X Nat |-> val(p[1], p[2])]
<1>0. /\ n \in Nat /\ \A i \in 1..(n + 1) : Start(a)[i] \in Nat
      /\ Start(a)[1] = TarStart /\ Block \in Nat /\ Block > 0
  BY StartValues, TarfsAssumption
<1>1. ASSUME NEW x \in Nat
      PROVE  /\ nx(x) = x + NextHeader(octalToDecimal(stoi(SizeField(a, x))))
             /\ nx(x) \in Nat /\ nx(x) > x
  <2>1. size(x) \in Nat /\ size(x) = octalToDecimal(stoi(SizeField(a, x)))
    BY SizesRead
  <2>2. NextHeader(size(x)) \in Nat /\ NextHeader(size(x)) > 0
        /\ NextHeader(size(x)) = gap(size(x))
    <3> HIDE DEF size
    <3> QED BY <2>1, Padded
  <2>3. size(x) \div Block \in Nat
    <3> HIDE DEF size
    <3> QED BY <2>1, DivMod
  <2>4. nx(x) = x + gap(size(x))
    <3>1. (size(x) \div Block + 1) * Block \in Nat
      <4> HIDE DEF size
      <4> QED BY <1>0, <2>3
    <3> DEFINE q == (size(x) \div Block + 1) * Block
               r == IF size(x) % Block = 0 THEN 0 ELSE Block
    <3>2. q \in Nat /\ r \in Nat /\ nx(x) = x + q + r /\ gap(size(x)) = q + r
      BY <1>0, <3>1
    <3> HIDE DEF q, r, nx, gap
    <3> QED BY <3>2
  <2> HIDE DEF gap, nx, size
  <2> QED BY <2>1, <2>2, <2>4
<1>2. /\ E \in Nat /\ Start(a)[n + 1] < E
      /\ \A k \in 1..n : Start(a)[k] \in Nat /\ Start(a)[k] < E
  <2>1. n + 1 \in 1..(n + 1) /\ \A k \in 1..n : k \in 1..(n + 1) /\ k < n + 1
    BY <1>0
  <2>2. \A k \in 1..n : Start(a)[k] < Start(a)[n + 1]
    BY <2>1, StartAscends
  <2>3. E = Start(a)[n + 1] + 2 * Block
    BY DEF TarEnd
  <2> HIDE DEF E, n
  <2>4. Start(a)[n + 1] \in Nat /\ \A k \in 1..n : Start(a)[k] \in Nat
    BY <1>0, <2>1
  <2> QED BY <1>0, <2>2, <2>3, <2>4
<1>3. getElfHeader(a, file) = (CHOOSE f : Is(f))[TarStart]
  BY DEF getElfHeader
<1>4. \A x, v \in Nat : val(x, v) \in Nat
  BY <1>0
<1> HIDE DEF nx, size, gap, E
<1>5. \E f : Is(f)
  <2>1. Ascends(next) /\ \A x \in Nat : next[x] = nx(x)
    BY <1>1 DEF Ascends
  <2>2. step \in [Nat \X Nat -> Nat] /\ \A x, v \in Nat : step[<<x, v>>] = val(x, v)
    <3> HIDE DEF val
    <3> QED BY <1>4
  <2>3. \A x \in Nat : x >= E => \A v : val(x, v) = 0
    BY <1>2
  <2> HIDE DEF next, step, val
  <2>4. WalksTo(Nat, 0, E, next, step)
    BY <1>2, <2>1, <2>2, Upwards
  <2>5. PICK f \in [Nat -> Nat] : /\ \A x \in Nat : x >= E => f[x] = 0
                                  /\ \A x \in Nat : x < E => f[x] = step[<<x, f[next[x]]>>]
    BY <2>4 DEF WalksTo
  <2>6. ASSUME NEW x \in Nat PROVE f[x] = val(x, f[nx(x)])
    <3>1. CASE x >= E
      BY <2>3, <2>5, <3>1
    <3>2. CASE x < E
      <4>1. next[x] = nx(x) /\ f[nx(x)] \in Nat
        BY <1>1, <2>1, <2>5
      <4> QED BY <2>2, <2>5, <3>2, <4>1
    <3> QED BY <1>2, <3>1, <3>2
  <2>7. Is(f)
    BY <2>5, <2>6
  <2> QED BY <2>7
<1> DEFINE f == CHOOSE f : Is(f)
<1>6. Is(f) /\ getElfHeader(a, file) = f[TarStart]
  BY <1>3, <1>5
<1> HIDE DEF f
<1>7. \A x \in Nat : f[x] = val(x, f[nx(x)])
  <2> HIDE DEF val
  <2> QED BY <1>6
<1>8. f[Start(a)[n + 1]] = 0
  <2>1. Start(a)[n + 1] \in Nat
    BY <1>0
  <2>2. NameAt(a, Start(a)[n + 1]) = <<>>
    BY <2>1, Headers
  <2>3. \A v : val(Start(a)[n + 1], v) = 0
    BY <2>2
  <2> HIDE DEF val
  <2> QED BY <1>7, <2>1, <2>3
<1>9. ASSUME NEW k \in 1..n
      PROVE  f[Start(a)[k]] = IF a[k].name = file THEN Start(a)[k] + Block
                              ELSE f[Start(a)[k + 1]]
  <2>1. NameAt(a, Start(a)[k]) = a[k].name /\ a[k].name # <<>>
    BY Entries, Headers
  <2>2. Start(a)[k] \in Nat /\ Start(a)[k] < E
    BY <1>2
  <2>3. nx(Start(a)[k]) = Start(a)[k + 1]
    BY <1>1, <2>2, StepsToNext
  <2>4. \A v : val(Start(a)[k], v) = IF a[k].name = file THEN Start(a)[k] + Block ELSE v
    BY <1>2, <2>1, <2>2
  <2> HIDE DEF val
  <2> QED BY <1>7, <2>2, <2>3, <2>4
<1>10. Searches(a, file, f)
  BY <1>0, <1>6, <1>8, <1>9 DEF Searches
<1> QED BY <1>10

\* getElfHeader finds every entry where tarfs_init finds it.
THEOREM ElfFound ==
    ASSUME NEW a, WellFormed(a), NEW m \in 1..Len(a)
    PROVE  getElfHeader(a, a[m].name) = Start(a)[m] + Block
<1> DEFINE file == a[m].name
<1>0. Len(a) \in Nat /\ file # <<>>
  BY Entries
<1>a. \A i \in 1..Len(a) : a[i].name = file => i = m
  BY DEF WellFormed
<1> HIDE DEF file
<1>1. PICK f : /\ getElfHeader(a, file) = f[Start(a)[1]]
               /\ f[Start(a)[Len(a) + 1]] = 0
               /\ \A k \in 1..Len(a) :
                     f[Start(a)[k]] = IF a[k].name = file THEN Start(a)[k] + Block
                                      ELSE f[Start(a)[k + 1]]
  <2>1. \E f : Searches(a, file, f)
    BY <1>0, ElfSteps
  <2> QED BY <2>1 DEF Searches
<1> DEFINE T == {d \in Nat : d < m => f[Start(a)[m - d]] = Start(a)[m] + Block}
<1>2. 0 \in T
  <2>1. m - 0 = m /\ a[m].name = file
    BY DEF file
  <2> QED BY <1>1, <2>1
<1>3. ASSUME NEW d \in T PROVE d + 1 \in T
  <2> SUFFICES ASSUME d + 1 < m PROVE f[Start(a)[m - (d + 1)]] = Start(a)[m] + Block
    OBVIOUS
  <2>1. /\ m - (d + 1) \in 1..Len(a) /\ m - (d + 1) # m /\ (m - (d + 1)) + 1 = m - d
        /\ d < m
    BY <1>0
  <2>2. a[m - (d + 1)].name # file
    BY <1>a, <2>1
  <2>3. f[Start(a)[m - (d + 1)]] = f[Start(a)[(m - (d + 1)) + 1]]
    BY <1>1, <2>1, <2>2
  <2> QED BY <1>3, <2>1, <2>3
<1>4. m - 1 \in T
  <2>1. T \in SUBSET Nat
    OBVIOUS
  <2>2. m - 1 \in Nat
    OBVIOUS
  <2> HIDE DEF T
  <2> QED BY <1>2, <1>3, <2>1, <2>2, Induction
<1>5. m - 1 < m /\ m - (m - 1) = 1
  OBVIOUS
<1>6. f[Start(a)[1]] = Start(a)[m] + Block
  BY <1>4, <1>5
<1> QED BY <1>1, <1>6 DEF file

\* It returns 0 for every name no entry has, so sanexecve takes nothing for a
\* program that is none.
THEOREM ElfMissing ==
    ASSUME NEW a, WellFormed(a), NEW file, file # <<>>,
           \A i \in 1..Len(a) : a[i].name # file
    PROVE  getElfHeader(a, file) = 0
<1>0. Len(a) \in Nat
  BY Entries
<1>1. PICK f : /\ getElfHeader(a, file) = f[Start(a)[1]]
               /\ f[Start(a)[Len(a) + 1]] = 0
               /\ \A k \in 1..Len(a) :
                     f[Start(a)[k]] = IF a[k].name = file THEN Start(a)[k] + Block
                                      ELSE f[Start(a)[k + 1]]
  <2>1. \E f : Searches(a, file, f)
    BY ElfSteps
  <2> QED BY <2>1 DEF Searches
<1> DEFINE T == {d \in Nat : d <= Len(a) => f[Start(a)[Len(a) + 1 - d]] = 0}
<1>2. 0 \in T
  <2>1. Len(a) + 1 - 0 = Len(a) + 1
    BY <1>0
  <2> QED BY <1>1, <2>1
<1>3. ASSUME NEW d \in T PROVE d + 1 \in T
  <2> SUFFICES ASSUME d + 1 <= Len(a) PROVE f[Start(a)[Len(a) + 1 - (d + 1)]] = 0
    OBVIOUS
  <2>1. /\ Len(a) + 1 - (d + 1) \in 1..Len(a) /\ d <= Len(a)
        /\ (Len(a) + 1 - (d + 1)) + 1 = Len(a) + 1 - d
    BY <1>0
  <2>2. f[Start(a)[Len(a) + 1 - (d + 1)]] = f[Start(a)[(Len(a) + 1 - (d + 1)) + 1]]
    BY <1>1, <2>1
  <2> QED BY <1>3, <2>1, <2>2
<1>4. Len(a) \in T
  <2>1. T \in SUBSET Nat
    OBVIOUS
  <2> HIDE DEF T
  <2> QED BY <1>0, <1>2, <1>3, <2>1, Induction
<1>5. Len(a) + 1 - Len(a) = 1 /\ Len(a) <= Len(a)
  BY <1>0
<1>6. f[Start(a)[1]] = 0
  BY <1>4, <1>5
<1> QED BY <1>1, <1>6
-----------------------------------------------------------------------------
(* The table.                                                              *)

LEMMA Least ==
    ASSUME NEW T \in SUBSET Nat, T # {}
    PROVE  Smallest(T) \in T /\ \A k \in T : Smallest(T) <= k
<1>1. \E m \in T : \A k \in T : m <= k
  BY LeastNumber
<1> QED BY <1>1 DEF Smallest

\* where the slashes of a well-formed name are
LEMMA NameShape ==
    ASSUME NEW a, WellFormed(a), NEW i \in 1..Len(a)
    PROVE  LET name == a[i].name
               L == Len(name)
               S == Slashes(name, a[i].type)
           IN  /\ L \in Nat /\ L > 0
               /\ S = {} => L <= 2 /\ ~\E k \in 1..(L - 1) : name[k] = "/"
               /\ S # {} => /\ Largest(S) \in 1..(L - 1) /\ name[Largest(S)] = "/"
                            /\ \E c \in 1..2 : Largest(S) = L - c
<1> DEFINE name == a[i].name
           type == a[i].type
           L == Len(name)
           S == Slashes(name, type)
           top == IF type = "DIRECTORY" THEN L - 1 ELSE L
<1>1. L \in Nat /\ L > 0
  BY Entries
<1>2. /\ \A k \in 1..L : name[k] = "/" <=> k % 2 = 0
      /\ type = "DIRECTORY" <=> name[L] = "/"
  BY DEF WellFormed
<1>3. S = {k \in 1..top : name[k] = "/"}
  BY DEF Slashes
<1> HIDE DEF name, type, L, S
<1>4. type = "DIRECTORY" <=> L % 2 = 0
  BY <1>1, <1>2
<1>5. S = {k \in 1..top : k % 2 = 0}
  <2>1. 1..top \subseteq 1..L
    BY <1>1
  <2> HIDE DEF top
  <2> QED BY <1>2, <1>3, <2>1
<1>6. CASE S = {}
  <2>1. L <= 2
    <3>1. SUFFICES ASSUME L > 2 PROVE FALSE
      BY <1>1
    <3>2. 2 \in 1..top /\ 2 % 2 = 0
      BY <1>1, <3>1
    <3> QED BY <1>5, <1>6, <3>2
  <2>2. ~\E k \in 1..(L - 1) : name[k] = "/"
    <3> SUFFICES ASSUME NEW k \in 1..(L - 1), name[k] = "/" PROVE FALSE
      OBVIOUS
    <3>1. k \in 1..top
      BY <1>1
    <3> QED BY <1>3, <1>6, <3>1
  <2> QED BY <1>1, <1>6, <2>1, <2>2 DEF name, L, S, type
<1>7. CASE S # {}
  <2>1. PICK c \in 1..2 : L - c \in S /\ \A y \in S : L - c >= y
    <3>0. PICK y \in S : TRUE
      BY <1>7
    <3>1. CASE type = "DIRECTORY"
      <4>1. L % 2 = 0 /\ top = L - 1 /\ y \in 1..(L - 1) /\ y % 2 = 0
        BY <1>4, <1>5, <3>0, <3>1
      <4>2. L - 2 \in 1..(L - 1) /\ (L - 2) % 2 = 0
        BY <1>1, <4>1
      <4>3. \A z \in S : L - 2 >= z
        BY <1>1, <1>5, <4>1
      <4>4. L - 2 \in S
        BY <1>5, <4>1, <4>2
      <4> QED BY <4>3, <4>4
    <3>2. CASE type # "DIRECTORY"
      <4>1. L % 2 # 0 /\ top = L /\ y \in 1..L /\ y % 2 = 0
        BY <1>4, <1>5, <3>0, <3>2
      <4>2. L - 1 \in 1..L /\ (L - 1) % 2 = 0
        BY <1>1, <4>1
      <4>3. \A z \in S : L - 1 >= z
        BY <1>1, <1>5, <4>1
      <4>4. L - 1 \in S
        BY <1>5, <4>1, <4>2
      <4> QED BY <4>3, <4>4
    <3> QED BY <3>1, <3>2
  <2>2. \A x \in S : x \in Nat
    BY <1>5
  <2>3. Largest(S) \in S /\ \A y \in S : Largest(S) >= y
    BY <2>1 DEF Largest
  <2>4. Largest(S) = L - c
    <3>1. Largest(S) \in Nat /\ L - c \in Nat /\ Largest(S) >= L - c /\ L - c >= Largest(S)
      BY <2>1, <2>2, <2>3
    <3> QED BY <3>1
  <2>5. Largest(S) \in 1..(L - 1) /\ name[Largest(S)] = "/"
    <3>1. name[Largest(S)] = "/"
      BY <1>3, <2>3
    <3>2. Largest(S) \in Nat /\ Largest(S) > 0
      BY <1>5, <2>3
    <3> QED BY <1>1, <2>4, <3>1, <3>2
  <2> QED BY <1>1, <1>7, <2>4, <2>5 DEF name, L, S, type
<1> QED BY <1>6, <1>7

\* par_ind names the directory an entry is in, which came before it.
ParentOf(a, i, p) ==
    LET name == a[i].name
    IN  IF p = NoParent
        THEN Len(name) <= 2 /\ ~\E k \in 1..(Len(name) - 1) : name[k] = "/"
        ELSE p \in 1..(i - 1) /\ \E c \in 1..2 : /\ name[Len(name) - c] = "/"
                                                /\ a[p].name = SubSeq(name, 1, Len(name) - c)

LEMMA ParentFound ==
    ASSUME NEW a, WellFormed(a), NEW i \in 1..Len(a), NEW names, Len(names) = i - 1,
           \A j \in 1..(i - 1) : names[j] = a[j].name
    PROVE  ParentOf(a, i, ParentIndex(names, a[i].name, a[i].type))
<1> DEFINE name == a[i].name
           S == Slashes(name, a[i].type)
           p == ParentIndex(names, name, a[i].type)
<1>0. Len(a) \in Nat /\ Len(a) < 999
  BY Entries DEF NoParent
<1>1. CASE S = {}
  <2>1. p = NoParent
    BY <1>1 DEF ParentIndex
  <2> QED BY <1>1, <2>1, NameShape DEF ParentOf
<1>2. CASE S # {}
  <2> DEFINE parent == SubSeq(name, 1, Largest(S))
             B == {j \in 1..Len(names) : names[j] = parent} \cup {Len(names) + 1}
  <2>1. p = Smallest(B)
    BY <1>2 DEF ParentIndex
  <2>2. PICK c \in 1..2 : Largest(S) = Len(name) - c
    BY <1>2, NameShape
  <2>3. Largest(S) \in 1..(Len(name) - 1) /\ name[Largest(S)] = "/"
    BY <1>2, NameShape
  <2>4. PICK j \in 1..(i - 1) : a[j].name = parent
    <3>1. \A k \in 1..(Len(a[i].name) - 1) : a[i].name[k] = "/" =>
              \E j \in 1..(i - 1) : a[j].name = SubSeq(a[i].name, 1, k)
      BY DEF WellFormed
    <3> HIDE DEF S
    <3> QED BY <2>3, <3>1
  <2> HIDE DEF parent
  <2>5. B \in SUBSET Nat /\ j \in B /\ B # {}
    BY <2>4
  <2>6. Smallest(B) \in B /\ Smallest(B) <= j
    <3> HIDE DEF B
    <3> QED BY <2>5, Least
  <2>7. Smallest(B) \in 1..(i - 1) /\ names[Smallest(B)] = parent
    BY <2>4, <2>6
  <2>8. p \in 1..(i - 1) /\ a[p].name = parent /\ p # NoParent
    <3> HIDE DEF B, p
    <3> QED BY <1>0, <2>1, <2>7 DEF NoParent
  <2>9. parent = SubSeq(name, 1, Len(name) - c) /\ name[Len(name) - c] = "/"
    BY <2>2, <2>3 DEF parent
  <2> HIDE DEF p
  <2>10. ParentOf(a, i, p)
    BY <2>8, <2>9 DEF ParentOf
  <2> QED BY <2>10 DEF p
<1> QED BY <1>1, <1>2

\* For every archive tar makes of a directory, the table tarfs_init builds has
\* one entry for each of the archive's, in their order, with its name, size,
\* type, the address of its header, and the index of the directory it is in.
THEOREM TableBuilt ==
    ASSUME NEW a, WellFormed(a)
    PROVE  LET fs == tarfs_init(a)
           IN  /\ fs = [i \in 1..Len(a) |-> fs[i]] /\ Len(fs) = Len(a)
               /\ \A i \in 1..Len(a) : /\ fs[i].name = a[i].name
                                       /\ fs[i].size = a[i].size
                                       /\ fs[i].typeflag = a[i].type
                                       /\ fs[i].addr_hdr = Start(a)[i]
                                       /\ ParentOf(a, i, fs[i].par_ind)
<1> DEFINE n == Len(a)
           addr == Walk(a)
           names == [i \in 1..Len(addr) |-> NameAt(a, addr[i])]
           type(x) == IF HeaderAt(a, x) = {} THEN "FILE_TYPE"
                      ELSE a[Smallest(HeaderAt(a, x))].type
           before(i) == SubSeq(names, 1, i - 1)
           entry(i) == [name |-> names[i],
                        size |-> octalToDecimal(stoi(SizeField(a, addr[i]))),
                        addr_hdr |-> addr[i],
                        typeflag |-> type(addr[i]),
                        par_ind |-> ParentIndex(before(i), names[i], type(addr[i]))]
           fs == tarfs_init(a)
<1>0. n \in Nat
  BY Entries
<1>1. Len(addr) = n /\ \A i \in 1..n : addr[i] = Start(a)[i]
  BY <1>0, WalkIsHeaders
<1>2. fs = [i \in 1..Len(addr) |-> entry(i)]
  BY DEF tarfs_init
<1>3. fs = [i \in 1..n |-> entry(i)]
  BY <1>1, <1>2
<1>4. ASSUME NEW i \in 1..n
      PROVE  /\ names[i] = a[i].name
             /\ octalToDecimal(stoi(SizeField(a, addr[i]))) = a[i].size
             /\ type(addr[i]) = a[i].type
  <2>1. addr[i] = Start(a)[i] /\ i \in 1..Len(addr)
    BY <1>1
  <2>2. HeaderAt(a, addr[i]) = {i} /\ NameAt(a, addr[i]) = a[i].name
    BY <2>1, Headers
  <2>3. {i} \in SUBSET Nat /\ {i} # {}
    BY <1>0
  <2>4. Smallest({i}) = i
    BY <2>3, Least
  <2>5. octalToDecimal(stoi(SizeField(a, addr[i]))) = a[i].size
    BY <2>1, StepsToNext
  <2> HIDE DEF addr
  <2> QED BY <2>1, <2>2, <2>4, <2>5
<1>5. ASSUME NEW i \in 1..n
      PROVE  Len(before(i)) = i - 1 /\ \A j \in 1..(i - 1) : before(i)[j] = a[j].name
  <2> DEFINE V == {names[j] : j \in 1..n}
  <2>1. names \in Seq(V) /\ Len(names) = n
    <3>1. names \in [1..n -> V]
      BY <1>1
    <3> HIDE DEF names, V
    <3> QED BY <1>0, <3>1
  <2>2. \A j \in 1..(i - 1) : j \in 1..n /\ names[j] = a[j].name
    <3>1. \A j \in 1..(i - 1) : j \in 1..n
      BY <1>0
    <3>2. \A j \in 1..n : names[j] = a[j].name
      BY <1>4
    <3> QED BY <3>1, <3>2, Zenon
  <2> HIDE DEF names, V, n
  <2>3. Len(before(i)) = i - 1 /\ \A j \in 1..(i - 1) : before(i)[j] = names[j]
    BY <1>0, <2>1
  <2> QED BY <2>2, <2>3
<1>6. ASSUME NEW i \in 1..n
      PROVE  ParentOf(a, i, ParentIndex(before(i), names[i], type(addr[i])))
  <2> DEFINE b == before(i)
  <2>1. ParentOf(a, i, ParentIndex(b, a[i].name, a[i].type))
    <3>1. Len(b) = i - 1 /\ \A j \in 1..(i - 1) : b[j] = a[j].name
      BY <1>5
    <3> HIDE DEF b
    <3> QED BY <3>1, ParentFound
  <2> HIDE DEF before, names, addr, type
  <2> QED BY <1>4, <2>1
<1> HIDE DEF names, addr, type, before
<1>7. \A i \in 1..n : fs[i] = entry(i)
  BY <1>3
<1>8. Len(fs) = n /\ fs = [i \in 1..n |-> fs[i]]
  <2> HIDE DEF entry, fs
  <2> QED BY <1>0, <1>3
<1> HIDE DEF fs
<1> QED BY <1>1, <1>4, <1>6, <1>7, <1>8 DEF fs
-----------------------------------------------------------------------------
(* Listings.                                                               *)

\* e is directly in the directory d
ChildOf(a, d, e) ==
    /\ \E j \in 1..Len(a) : a[j].name = d /\ a[j].type = "DIRECTORY"
    /\ HasPrefix(e.name, d)
    /\ \/ Len(e.name) = Len(d) + 1
       \/ Len(e.name) = Len(d) + 2 /\ e.type = "DIRECTORY"

\* what readdirect asks of the entry i, whose par_ind is p
Matched(a, d, i, p) ==
    /\ a[i].name # d
    /\ HasPrefix(a[i].name, d)
    /\ \E j \in 1..Len(a) : p = j /\ a[j].name = d

LEMMA Parity ==
    ASSUME NEW n \in Nat, n % 2 = 0
    PROVE  /\ (n + 1) % 2 # 0 /\ (n + 2) % 2 = 0
           /\ n > 0 => (n - 1) % 2 # 0
OBVIOUS

\* readdirect's test on par_ind and the prefix lets the children through.
LEMMA MatchedIsChild ==
    ASSUME NEW a, WellFormed(a), NEW i \in 1..Len(a), NEW p, ParentOf(a, i, p),
           NEW d \in Seq(STRING), d # <<>>
    PROVE  Matched(a, d, i, p) <=> ChildOf(a, d, a[i])
<1> DEFINE name == a[i].name
           L == Len(name)
<1>0. /\ Len(a) \in Nat /\ Len(a) < NoParent /\ name \in Seq(STRING) /\ name # <<>>
      /\ L \in Nat /\ L > 0 /\ Len(d) \in Nat /\ Len(d) > 0
      /\ a[i].type \in {"FILE_TYPE", "DIRECTORY"}
  BY Entries
<1>1. /\ \A k \in 1..L : name[k] = "/" <=> k % 2 = 0
      /\ a[i].type = "DIRECTORY" <=> name[L] = "/"
  BY DEF WellFormed
<1>2. a[i].type = "DIRECTORY" <=> L % 2 = 0
  <2>1. L \in 1..L
    BY <1>0
  <2> QED BY <1>1, <2>1, Zenon
<1>3. \A j \in 1..Len(a) : a[j].name = d =>
          /\ a[j].type = "DIRECTORY" <=> d[Len(d)] = "/"
          /\ d[Len(d)] = "/" <=> Len(d) % 2 = 0
  BY <1>0 DEF WellFormed
<1>4. HasPrefix(name, d) => /\ L >= Len(d)
                            /\ \A k \in 1..Len(d) : name[k] = d[k]
                            /\ SubSeq(name, 1, Len(d)) = d
  <2> SUFFICES ASSUME HasPrefix(name, d) PROVE \A k \in 1..Len(d) : name[k] = d[k]
    BY DEF HasPrefix
  <2>1. L >= Len(d) /\ SubSeq(name, 1, Len(d)) = d
    BY DEF HasPrefix
  <2>2. \A k \in 1..Len(d) : SubSeq(name, 1, Len(d))[k] = name[k]
    <3> HIDE DEF name
    <3> QED BY <1>0, <2>1
  <2> QED BY <2>1, <2>2
<1>5. p = NoParent => L <= 2 /\ ~\E k \in 1..(L - 1) : name[k] = "/"
  BY DEF ParentOf
<1>6. p # NoParent => p \in 1..(i - 1) /\ \E c \in 1..2 : /\ name[L - c] = "/"
                                                       /\ a[p].name = SubSeq(name, 1, L - c)
  BY DEF ParentOf
<1> HIDE DEF name, L
<1>7. ASSUME Matched(a, d, i, p) PROVE ChildOf(a, d, a[i])
  <2>1. PICK j \in 1..Len(a) : p = j /\ a[j].name = d
    BY <1>7 DEF Matched
  <2>2. HasPrefix(name, d) /\ p # NoParent
    BY <1>0, <1>7, <2>1 DEF Matched, name
  <2>3. PICK c \in 1..2 : name[L - c] = "/" /\ d = SubSeq(name, 1, L - c)
    BY <1>6, <2>1, <2>2
  <2>4. L - c \in Nat /\ Len(d) = L - c
    <3>1. L - c \in Nat
      <4>1. CASE L - c < 0
        <5>1. Len(SubSeq(name, 1, L - c)) = 0
          BY <1>0, <4>1
        <5> QED BY <1>0, <2>3, <5>1
      <4> QED BY <1>0, <4>1
    <3> QED BY <1>0, <2>3, <3>1 DEF L
  <2>5. d[Len(d)] = "/"
    BY <1>0, <1>4, <2>2, <2>3, <2>4
  <2>6. a[j].type = "DIRECTORY" /\ Len(d) % 2 = 0
    BY <1>3, <2>1, <2>5
  <2>7. Len(name) = Len(d) + 1 \/ (Len(name) = Len(d) + 2 /\ a[i].type = "DIRECTORY")
    <3>1. L = Len(d) + c
      BY <1>0, <2>4
    <3>2. CASE c = 1
      BY <3>1, <3>2 DEF L
    <3>3. CASE c = 2
      <4>1. (Len(d) + 2) % 2 = 0
        BY <1>0, <2>6, Parity
      <4> QED BY <1>2, <3>1, <3>3, <4>1, Zenon DEF L
    <3> QED BY <3>2, <3>3
  <2> QED BY <2>1, <2>2, <2>6, <2>7 DEF ChildOf, name
<1>8. ASSUME ChildOf(a, d, a[i]) PROVE Matched(a, d, i, p)
  <2>1. PICK j \in 1..Len(a) : a[j].name = d /\ a[j].type = "DIRECTORY"
    BY <1>8 DEF ChildOf
  <2>2. /\ HasPrefix(name, d) /\ Len(d) % 2 = 0 /\ d[Len(d)] = "/"
        /\ L = Len(d) + 1 \/ (L = Len(d) + 2 /\ a[i].type = "DIRECTORY")
    BY <1>3, <1>8, <2>1 DEF ChildOf, name, L
  <2>3. name[Len(d)] = "/" /\ Len(d) \in 1..(L - 1)
    BY <1>0, <1>4, <2>2
  <2>4. p # NoParent
    BY <1>5, <2>3
  <2>5. PICK c \in 1..2 : name[L - c] = "/" /\ a[p].name = SubSeq(name, 1, L - c)
    BY <1>6, <2>4
  <2>6. p \in 1..Len(a)
    BY <1>0, <1>6, <2>4
  <2>7. L - c = Len(d)
    <3>1. L - c \in 1..L
      BY <1>0, <2>2
    <3>2. (L - c) % 2 = 0
      BY <1>1, <2>5, <3>1
    <3>3. (Len(d) + 1) % 2 # 0 /\ (Len(d) - 1) % 2 # 0
      <4>1. PICK n \in Nat : n = Len(d) /\ n > 0
        BY <1>0
      <4>2. (n + 1) % 2 # 0 /\ (n - 1) % 2 # 0
        BY <2>2, <4>1, Parity
      <4> QED BY <4>1, <4>2, Zenon
    <3>4. L - c \in {Len(d), Len(d) + 1, Len(d) - 1}
      <4>1. PICK n \in Nat : n = Len(d) /\ (L = n + 1 \/ L = n + 2)
        BY <1>0, <2>2
      <4>2. L - c \in {n, n + 1, n - 1}
        BY <4>1
      <4> QED BY <4>1, <4>2, Zenon
    <3> QED BY <3>2, <3>3, <3>4, Zenon
  <2>8. a[p].name = d /\ name # d
    <3>1. SubSeq(name, 1, L - c) = d
      BY <1>4, <2>2, <2>7
    <3>2. Len(name) # Len(d)
      BY <1>0, <2>2 DEF L
    <3> QED BY <2>5, <3>1, <3>2
  <2> QED BY <2>2, <2>6, <2>8 DEF Matched, name
<1> QED BY <1>7, <1>8

\* For every archive, readdirect prints the entries directly in the directory,
\* in their order: none of those further down and none of a file that has the
\* directory's name as a prefix.
THEOREM ListingIsChildren ==
    ASSUME NEW a, WellFormed(a), NEW d \in Seq(STRING), d # <<>>
    PROVE  readdirect(tarfs_init(a), d) =
             SeqExt!FlattenSeq([i \in 1..Len(a) |->
                 IF ChildOf(a, d, a[i])
                 THEN <<SubSeq(a[i].name, Len(d) + 1, Len(a[i].name))>> ELSE <<>>])
<1> DEFINE n == Len(a)
           parent(fs) == {j \in 1..Len(fs) : fs[j].name = d}
           shown(fs, e) == IF e.name # d /\ HasPrefix(e.name, d) /\ e.par_ind \in parent(fs)
                           THEN <<SubSeq(e.name, Len(d) + 1, Len(e.name))>> ELSE <<>>
           child(i) == IF ChildOf(a, d, a[i])
                       THEN <<SubSeq(a[i].name, Len(d) + 1, Len(a[i].name))>> ELSE <<>>
<1>1. PICK fs : /\ fs = tarfs_init(a)
                /\ Len(fs) = n
                /\ \A i \in 1..n : fs[i].name = a[i].name /\ ParentOf(a, i, fs[i].par_ind)
  BY TableBuilt
<1>2. readdirect(fs, d) = SeqExt!FlattenSeq([i \in 1..Len(fs) |-> shown(fs, fs[i])])
  BY DEF readdirect
<1>3. ASSUME NEW i \in 1..n PROVE shown(fs, fs[i]) = child(i)
  <2>1. PICK p : p = fs[i].par_ind
    OBVIOUS
  <2>2. Matched(a, d, i, p) <=> ChildOf(a, d, a[i])
    BY <1>1, <2>1, MatchedIsChild
  <2>3. p \in parent(fs) <=> \E j \in 1..n : p = j /\ a[j].name = d
    BY <1>1
  <2> HIDE DEF parent
  <2> QED BY <1>1, <2>1, <2>2, <2>3 DEF Matched
<1> HIDE DEF shown, child
<1>4. [i \in 1..Len(fs) |-> shown(fs, fs[i])] = [i \in 1..n |-> child(i)]
  BY <1>1, <1>3
<1>5. readdirect(fs, d) = SeqExt!FlattenSeq([i \in 1..n |-> child(i)])
  BY <1>2, <1>4, Zenon
<1> QED BY <1>1, <1>5 DEF child
-----------------------------------------------------------------------------
(* Files.                                                                  *)

\* openfile and opendirect return the header of the entry asked for, never 0.
LEMMA LookupFinds ==
    ASSUME NEW a, WellFormed(a), NEW k \in 1..Len(a)
    PROVE  Lookup(tarfs_init(a), a[k].name, a[k].type) = Start(a)[k]
<1>1. PICK fs : /\ fs = tarfs_init(a)
                /\ Len(fs) = Len(a)
                /\ \A i \in 1..Len(a) : /\ fs[i].name = a[i].name /\ fs[i].typeflag = a[i].type
                                        /\ fs[i].addr_hdr = Start(a)[i]
  BY TableBuilt
<1>2. Matches(fs, a[k].name, a[k].type) = {k}
  <2>1. \A i \in 1..Len(a) : a[i].name = a[k].name => i = k
    BY DEF WellFormed
  <2> QED BY <1>1, <2>1 DEF Matches
<1>3. Smallest({k}) = k
  <2>1. {k} \in SUBSET Nat /\ {k} # {}
    BY Entries
  <2> QED BY <2>1, Least
<1> QED BY <1>1, <1>2, <1>3 DEF Lookup

LEMMA LookupMisses ==
    ASSUME NEW a, WellFormed(a), NEW name, NEW type,
           \A i \in 1..Len(a) : ~(a[i].name = name /\ a[i].type = type)
    PROVE  Lookup(tarfs_init(a), name, type) = 0
<1>1. PICK fs : /\ fs = tarfs_init(a)
                /\ Len(fs) = Len(a)
                /\ \A i \in 1..Len(a) : fs[i].name = a[i].name /\ fs[i].typeflag = a[i].type
  BY TableBuilt
<1>2. Matches(fs, name, type) = {}
  BY <1>1 DEF Matches
<1> QED BY <1>1, <1>2 DEF Lookup

\* Behind a header are the bytes of its own file, and no other's.
LEMMA OwnBytes ==
    ASSUME NEW a, WellFormed(a), NEW k \in 1..Len(a), NEW j \in 1..a[k].size
    PROVE  ByteAt(a, Start(a)[k] + Block + j - 1) = <<k, j>>
<1> DEFINE x == Start(a)[k] + Block + j - 1
           holds(i) == x \in (Start(a)[i] + Block)..(Start(a)[i] + Block + a[i].size - 1)
<1>a. Block \in Nat /\ Block > 0 /\ Len(a) \in Nat /\ \A i \in 1..Len(a) : a[i].size \in Nat
  BY TarfsAssumption, Entries
<1>b. \A i \in 1..(Len(a) + 1) : Start(a)[i] \in Nat
  BY StartValues
<1>c. \A i \in 1..Len(a) : i \in 1..(Len(a) + 1) /\ i + 1 \in 1..(Len(a) + 1)
  BY <1>a
<1>d. j \in Nat /\ j > 0 /\ j <= a[k].size
  BY <1>a
<1>0. /\ Block \in Nat /\ Block > 0 /\ Len(a) \in Nat
      /\ \A i \in 1..Len(a) : /\ a[i].size \in Nat /\ Start(a)[i] \in Nat
                              /\ Start(a)[i + 1] \in Nat
      /\ j \in Nat /\ j > 0 /\ j <= a[k].size
  BY <1>a, <1>b, <1>c, <1>d
<1>1. \A i \in 1..Len(a) : Start(a)[i + 1] >= Start(a)[i] + Block + a[i].size
  <2> SUFFICES ASSUME NEW i \in 1..Len(a) PROVE Start(a)[i + 1] >= Start(a)[i] + Block + a[i].size
    OBVIOUS
  <2>1. Start(a)[i + 1] = Start(a)[i] + NextHeader(a[i].size) /\ a[i].size \in Nat
    BY <1>0, StartValues
  <2>2. PICK s \in Nat : s = a[i].size
    BY <1>0
  <2>3. s % Block \in 0..(Block - 1)
    BY <2>2, DivMod
  <2>4. NextHeader(s) >= Block + s
    <3>1. PICK r \in 0..(Block - 1) : r = s % Block
      BY <2>3
    <3>2. NextHeader(s) = IF s = 0 THEN Block
                          ELSE IF r = 0 THEN s + Block ELSE s + (Block - r) + Block
      BY <3>1 DEF NextHeader
    <3> QED BY <1>0, <3>2
  <2>5. NextHeader(s) \in Nat
    BY Padded
  <2>6. PICK u \in Nat, v \in Nat : u = Start(a)[i] /\ v = Start(a)[i + 1]
    BY <1>0
  <2>7. v >= u + Block + s
    <3>1. PICK h \in Nat : h = NextHeader(s) /\ h >= Block + s /\ v = u + h
      BY <2>1, <2>2, <2>4, <2>5, <2>6, Zenon
    <3> QED BY <1>0, <3>1
  <2> QED BY <2>2, <2>6, <2>7, Zenon
<1>2. \A i, m \in 1..Len(a) : i < m => Start(a)[i + 1] <= Start(a)[m]
  <2> SUFFICES ASSUME NEW i \in 1..Len(a), NEW m \in 1..Len(a), i < m
               PROVE  Start(a)[i + 1] <= Start(a)[m]
    OBVIOUS
  <2>1. i + 1 \in 1..(Len(a) + 1) /\ m \in 1..(Len(a) + 1)
    BY <1>c
  <2>2. i + 1 = m \/ i + 1 < m
    BY <1>0
  <2>3. Start(a)[i + 1] \in Nat /\ Start(a)[m] \in Nat
    BY <1>0, <2>1
  <2>4. CASE i + 1 < m
    <3>1. Start(a)[i + 1] < Start(a)[m]
      BY <2>1, <2>4, StartAscends
    <3> QED BY <2>3, <3>1
  <2>5. CASE i + 1 = m
    BY <2>3, <2>5
  <2> QED BY <2>2, <2>4, <2>5
<1>3. holds(k) /\ x \in Nat
  <2>1. PICK s \in Nat, z \in Nat : s = Start(a)[k] /\ z = a[k].size
    BY <1>0
  <2>2. PICK y : y = s + Block + j - 1
    OBVIOUS
  <2>3. y \in (s + Block)..(s + Block + z - 1) /\ y \in Nat
    <3>1. j \in Nat /\ j > 0 /\ j <= z /\ Block \in Nat
      BY <1>0, <2>1, Zenon
    <3> HIDE DEF x
    <3> QED BY <2>2, <3>1
  <2>4. x = y
    BY <2>1, <2>2, Zenon
  <2> QED BY <2>1, <2>3, <2>4, Zenon
<1>4. ASSUME NEW i \in 1..Len(a), holds(i) PROVE i = k
  <2>0. \A m \in {i, k} : holds(m)
    BY <1>3, <1>4
  <2>1. ASSUME NEW m \in {i, k}, NEW q \in {i, k}, m < q PROVE FALSE
    <3>1. PICK s \in Nat, e \in Nat, u \in Nat, z \in Nat :
                s = Start(a)[m] /\ e = Start(a)[m + 1] /\ u = Start(a)[q] /\ z = a[m].size
      BY <1>0
    <3>2. e >= s + Block + z /\ e <= u
      BY <1>1, <1>2, <2>1, <3>1
    <3>3. x >= u + Block /\ x <= s + Block + z - 1
      <4>1. x \in (s + Block)..(s + Block + z - 1) /\ x \in (u + Block)..(u + Block + a[q].size - 1)
        BY <2>0, <3>1
      <4> HIDE DEF x
      <4> QED BY <1>0, <1>3, <4>1
    <3> HIDE DEF x, holds
    <3>4. Block \in Nat /\ x \in Nat
      BY <1>0, <1>3
    <3> QED BY <3>2, <3>3, <3>4
  <2> QED BY <1>0, <2>1
<1> HIDE DEF holds, x
<1>5. (CHOOSE n \in 1..Len(a) : holds(n)) = k /\ \E n \in 1..Len(a) : holds(n)
  BY <1>3, <1>4
<1>6. ByteAt(a, x) = <<k, x - Start(a)[k] - Block + 1>>
  BY <1>5 DEF ByteAt, holds
<1>7. x - Start(a)[k] - Block + 1 = j
  <2>1. Start(a)[k] \in Nat
    BY <1>0
  <2> QED BY <1>0, <2>1 DEF x
<1> QED BY <1>6, <1>7 DEF x

\* What the program finds in the buffer readfile filled is the file, as far as
\* the buffer's size allows: the zero stored behind the bytes ends the string,
\* and no other file's bytes get into it.
THEOREM FileIsRead ==
    ASSUME NEW a, WellFormed(a), NEW k \in 1..Len(a), NEW size \in Nat
    PROVE  String(readfile(a, Start(a)[k], size)) =
             [j \in 1..Smallest({a[k].size, size}) |-> <<k, j>>]
<1> DEFINE n == IF a[k].size < size THEN a[k].size ELSE size
           cell(i) == IF i <= n THEN ByteAt(a, Start(a)[k] + Block + i - 1) ELSE NUL
           buf == [i \in 1..(n + 1) |-> cell(i)]
           Z == {i \in 1..Len(buf) : buf[i] = NUL}
<1>0. a[k].size \in Nat /\ n \in Nat /\ n <= a[k].size
  BY Entries
<1>1. readfile(a, Start(a)[k], size) = buf
  BY StepsToNext DEF readfile
<1>2. Smallest({a[k].size, size}) = n
  <2>1. {a[k].size, size} \in SUBSET Nat /\ {a[k].size, size} # {}
    BY <1>0
  <2>2. PICK m : m = Smallest({a[k].size, size})
    OBVIOUS
  <2>3. m \in {a[k].size, size} /\ m <= a[k].size /\ m <= size
    BY <2>1, <2>2, Least
  <2> QED BY <1>0, <2>2, <2>3
<1>3. /\ \A i \in 1..n : cell(i) = <<k, i>> /\ cell(i) # NUL
      /\ cell(n + 1) = NUL
  <2>1. ASSUME NEW i \in 1..n PROVE cell(i) = <<k, i>> /\ <<k, i>> # NUL
    <3>1. i \in 1..a[k].size
      BY <1>0
    <3>2. ByteAt(a, Start(a)[k] + Block + i - 1) = <<k, i>>
      BY <3>1, OwnBytes
    <3>3. <<k, i>> # NUL
      BY DEF NUL
    <3> QED BY <3>2, <3>3
  <2>2. ~(n + 1 <= n)
    BY <1>0
  <2> HIDE DEF n
  <2> QED BY <2>1, <2>2
<1> HIDE DEF n, cell
<1> DEFINE V == {cell(i) : i \in 1..(n + 1)}
<1>4. buf \in Seq(V) /\ Len(buf) = n + 1 /\ \A i \in 1..(n + 1) : buf[i] = cell(i)
  <2>1. buf \in [1..(n + 1) -> V] /\ \A i \in 1..(n + 1) : buf[i] = cell(i)
    OBVIOUS
  <2>2. n + 1 \in Nat
    BY <1>0
  <2> HIDE DEF buf, V
  <2> QED BY <2>1, <2>2
<1> HIDE DEF V, buf
<1>5. Z = {n + 1}
  <2>1. \A i \in 1..(n + 1) : i = n + 1 \/ i \in 1..n
    BY <1>0
  <2>2. n + 1 \in 1..(n + 1) /\ \A i \in 1..n : i \in 1..(n + 1)
    BY <1>0
  <2> QED BY <1>3, <1>4, <2>1, <2>2
<1>6. Smallest(Z) = n + 1
  <2>1. {n + 1} \in SUBSET Nat /\ {n + 1} # {}
    BY <1>0
  <2>2. Smallest({n + 1}) = n + 1
    BY <2>1, Least
  <2> QED BY <1>5, <2>2, Zenon
<1>7. String(buf) = SubSeq(buf, 1, n)
  <2>1. String(buf) = SubSeq(buf, 1, Smallest(Z) - 1)
    BY DEF String
  <2>2. Smallest(Z) - 1 = n
    BY <1>0, <1>6
  <2> HIDE DEF Z
  <2> QED BY <2>1, <2>2
<1>8. SubSeq(buf, 1, n) = [j \in 1..n |-> <<k, j>>]
  <2>1. SubSeq(buf, 1, n) = [j \in 1..n |-> buf[j]]
    BY <1>0, <1>4
  <2>2. \A j \in 1..n : buf[j] = <<k, j>>
    <3>1. \A j \in 1..n : j \in 1..(n + 1)
      BY <1>0
    <3> QED BY <1>3, <1>4, <3>1
  <2> QED BY <2>1, <2>2
<1> QED BY <1>1, <1>2, <1>7, <1>8
=============================================================================
