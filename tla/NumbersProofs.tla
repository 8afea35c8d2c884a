---------------------------- MODULE NumbersProofs ---------------------------
(***************************************************************************)
(* Proofs about Numbers, for words and bytes of any width, any data,       *)
(* parsers around one another and options.                                 *)
(*                                                                         *)
(* Powers of two, sums, encodings and the parsers around one another are   *)
(* recursive functions.  Each is shown to exist and then to be what its    *)
(* equations say, by induction over a set of numbers.                      *)
(***************************************************************************)
EXTENDS Numbers, SequenceTheorems, FiniteSetTheorems, TLAPS

-----------------------------------------------------------------------------
(* Numbers.                                                                *)

LEMMA LeastNumber ==
  ASSUME NEW T, T \subseteq Nat, T # {}
  PROVE  \E x \in T : \A y \in T : x <= y
  <1>. DEFINE R == OpToRel(<, Nat)
  <1>1. IsWellFoundedOn(R, Nat)
    BY NatLessThanWellFounded
  <1>2. \A x, y \in Nat : x < y => <<x, y>> \in R
    BY DEF OpToRel
  <1>. HIDE DEF R
  <1>3. PICK x \in T : \A y \in T : ~(<<y, x>> \in R)
    BY <1>1, WFMin
  <1>4. \A y \in T : x <= y
    <2>. TAKE y \in T
    <2>1. x \in Nat /\ y \in Nat /\ ~(y < x)
      BY <1>2, <1>3
    <2>. QED BY <2>1
  <1>. QED BY <1>3, <1>4

LEMMA SetInduction ==
  ASSUME NEW S, 0 \in S, \A n \in Nat : n \in S => n + 1 \in S
  PROVE  Nat \subseteq S
  <1>. DEFINE T == Nat \ S
  <1>. SUFFICES ASSUME T # {} PROVE FALSE
    OBVIOUS
  <1>1. PICK x \in T : \A y \in T : x <= y
    <2>1. T \subseteq Nat
      OBVIOUS
    <2>. HIDE DEF T
    <2>. QED BY <2>1, LeastNumber
  <1>2. x \in Nat /\ x # 0
    OBVIOUS
  <1>3. x - 1 \in Nat /\ ~(x <= x - 1)
    BY <1>2
  <1>4. x - 1 \in S
    BY <1>1, <1>3
  <1>5. x - 1 + 1 \in S
    BY <1>3, <1>4
  <1>. QED BY <1>2, <1>5

LEMMA MinOfNumbers ==
  ASSUME NEW S, S \subseteq Nat, S # {}
  PROVE  Min(S) \in S /\ \A y \in S : Min(S) <= y
  <1>1. \E x \in S : \A y \in S : x <= y
    BY LeastNumber
  <1>. QED BY <1>1 DEF Min

LEMMA MaxOfNumbers ==
  ASSUME NEW n \in Nat, NEW S, S \subseteq 1..n, S # {}
  PROVE  Max(S) \in S /\ \A y \in S : Max(S) >= y
  <1>. DEFINE T == {n - x : x \in S}
  <1>0. \A x \in S : n - x \in Nat
    OBVIOUS
  <1>1. T \subseteq Nat /\ T # {}
    BY <1>0
  <1>2. PICK z \in T : \A y \in T : z <= y
    <2>. HIDE DEF T
    <2>. QED BY <1>1, LeastNumber
  <1>3. PICK x \in S : z = n - x
    BY <1>2
  <1>4. \A y \in S : x >= y
    <2>. TAKE y \in S
    <2>1. n - y \in T
      OBVIOUS
    <2>2. n - x <= n - y
      BY <1>2, <1>3, <2>1
    <2>. QED BY <2>2
  <1>. QED BY <1>3, <1>4 DEF Max

-----------------------------------------------------------------------------
(* Recursive functions over numbers: the value at n is B[n] if n is in P,  *)
(* or else comes by G from the value at a lower number H[n].               *)

Follows(f, P, B, H, G, D) == \A n \in D : f[n] = IF n \in P THEN B[n] ELSE G[<<n, f[H[n]]>>]

LEMMA Recursion ==
  ASSUME NEW V, NEW P, NEW B \in [Nat -> V], NEW H \in [Nat -> Nat], NEW G \in [Nat \X V -> V],
         \A n \in Nat : n \notin P => H[n] < n
  PROVE  \E f \in [Nat -> V] : Follows(f, P, B, H, G, Nat)
  <1>. DEFINE Piece(s, n) == s \in [0..n -> V] /\ Follows(s, P, B, H, G, 0..n)
  <1>0. \A n \in Nat : \A s : Piece(s, n) =>
           \A i \in 0..n : s[i] \in V /\ s[i] = IF i \in P THEN B[i] ELSE G[<<i, s[H[i]]>>]
    BY DEF Follows
  <1>1. ASSUME NEW m \in Nat, NEW n \in Nat, NEW s, NEW t, Piece(s, m), Piece(t, n),
               NEW k \in Nat, k <= m, k <= n
        PROVE  s[k] = t[k]
    <2>. DEFINE T == {i \in Nat : i <= m /\ i <= n /\ s[i] # t[i]}
    <2>. SUFFICES ASSUME T # {} PROVE FALSE
      BY <1>1
    <2>1. PICK x \in T : \A y \in T : x <= y
      <3>1. T \subseteq Nat
        OBVIOUS
      <3>. HIDE DEF T
      <3>. QED BY <3>1, LeastNumber
    <2>2. x \in 0..m /\ x \in 0..n /\ s[x] # t[x]
      OBVIOUS
    <2>3. /\ s[x] = IF x \in P THEN B[x] ELSE G[<<x, s[H[x]]>>]
          /\ t[x] = IF x \in P THEN B[x] ELSE G[<<x, t[H[x]]>>]
      BY <1>1, <2>2 DEF Follows
    <2>4. x \notin P /\ H[x] < x /\ H[x] \in Nat
      BY <2>2, <2>3
    <2>5. H[x] \notin T
      BY <2>1, <2>4
    <2>6. s[H[x]] = t[H[x]]
      BY <2>2, <2>4, <2>5
    <2>. QED BY <2>2, <2>3, <2>6
  <1>. DEFINE S == {n \in Nat : \E s : Piece(s, n)}
  <1>2. ASSUME NEW m \in Int, m + 1 \in Nat, NEW r, Piece(r, m)
        PROVE  \E s : Piece(s, m + 1)
    <2>. DEFINE n == m + 1
                s == [i \in 0..n |-> IF i # n THEN r[i] ELSE
                                     IF n \in P THEN B[n] ELSE G[<<n, r[H[n]]>>]]
    <2>1. \A i \in 0..n : i = n \/ i \in 0..m
      OBVIOUS
    <2>2. \A i \in 0..m : s[i] = r[i] /\ r[i] \in V
      BY <1>2
    <2>3. \A i \in 0..n : i \notin P => H[i] \in 0..m /\ s[H[i]] = r[H[i]]
      <3>. TAKE i \in 0..n
      <3>. HAVE i \notin P
      <3>1. H[i] \in 0..m
        BY <1>2
      <3>. QED BY <2>2, <3>1
    <2>4. s[n] = IF n \in P THEN B[n] ELSE G[<<n, r[H[n]]>>]
      BY <1>2
    <2>5. \A i \in 0..m : r[i] = IF i \in P THEN B[i] ELSE G[<<i, r[H[i]]>>]
      BY <1>2 DEF Follows
    <2>6. DOMAIN s = 0..n /\ n \in Nat /\ n \in 0..n /\ s = [i \in 0..n |-> s[i]]
      BY <1>2
    <2>. HIDE DEF s, n
    <2>7. \A i \in 0..n : s[i] = IF i \in P THEN B[i] ELSE G[<<i, s[H[i]]>>]
      <3>. TAKE i \in 0..n
      <3>1. s[i] = IF i \in P THEN B[i] ELSE G[<<i, r[H[i]]>>]
        BY <2>1, <2>2, <2>4, <2>5
      <3>2. CASE i \in P
        BY <3>1, <3>2
      <3>3. CASE i \notin P
        BY <2>3, <3>1, <3>3
      <3>. QED BY <3>2, <3>3
    <2>8. s[n] \in V
      <3>1. n \notin P => r[H[n]] \in V
        BY <2>2, <2>3, <2>6
      <3>. QED BY <2>4, <2>6, <3>1
    <2>9. s \in [0..n -> V]
      <3>1. \A i \in 0..n : s[i] \in V
        BY <2>1, <2>2, <2>8
      <3>. QED BY <2>6, <3>1
    <2>10. Follows(s, P, B, H, G, 0..n)
      BY <2>7 DEF Follows
    <2>. QED BY <2>9, <2>10 DEF n
  <1>3. 0 \in S
    <2>. DEFINE r == [i \in 0..-1 |-> B[i]]
    <2>1. Piece(r, -1) /\ -1 \in Int /\ -1 + 1 = 0
      BY DEF Follows
    <2>2. \E s : Piece(s, 0)
      <3>. HIDE DEF Piece, r
      <3>1. \E s : Piece(s, -1 + 1)
        BY <1>2, <2>1
      <3>. QED BY <2>1, <3>1
    <2>. QED BY <2>2
  <1>4. ASSUME NEW n \in Nat, n \in S PROVE n + 1 \in S
    <2>1. PICK r : Piece(r, n)
      BY <1>4
    <2>2. \E s : Piece(s, n + 1)
      <3>. HIDE DEF Piece
      <3>. QED BY <1>2, <2>1
    <2>. QED BY <2>2
  <1>5. \A n \in Nat : \E s : Piece(s, n)
    <2>1. Nat \subseteq S
      <3>. HIDE DEF S
      <3>. QED BY <1>3, <1>4, SetInduction
    <2>. QED BY <2>1
  <1>. DEFINE p(n) == CHOOSE s : Piece(s, n)
              f == [n \in Nat |-> p(n)[n]]
  <1>6. \A n \in Nat : Piece(p(n), n)
    <2>. HIDE DEF Piece
    <2>. QED BY <1>5
  <1>. HIDE DEF Piece, p
  <1>7. \A n \in Nat : \A k \in 0..n : p(n)[k] = f[k]
    <2>. TAKE n \in Nat
    <2>. TAKE k \in 0..n
    <2>1. Piece(p(n), n) /\ Piece(p(k), k)
      BY <1>6
    <2>. QED BY <1>1, <2>1
  <1>8. \A n \in Nat : f[n] \in V /\ f[n] = IF n \in P THEN B[n] ELSE G[<<n, p(n)[H[n]]>>]
    BY <1>0, <1>6
  <1>9. f \in [Nat -> V]
    BY <1>8
  <1>10. \A n \in Nat : n \notin P => p(n)[H[n]] = f[H[n]]
    BY <1>7
  <1>11. Follows(f, P, B, H, G, Nat)
    <2>. HIDE DEF f
    <2>. QED BY <1>8, <1>10 DEF Follows
  <1>. QED BY <1>9, <1>11

-----------------------------------------------------------------------------
(* Division.                                                               *)

LEMMA DivIs ==
  ASSUME NEW a \in Int, NEW b \in Nat \ {0}
  PROVE  a \div b \in Int /\ a % b \in 0..b - 1 /\ a = b * (a \div b) + (a % b)
  OBVIOUS

LEMMA DivUnique ==
  ASSUME NEW a \in Int, NEW b \in Nat \ {0}, NEW q \in Int, NEW r \in 0..b - 1, a = b * q + r
  PROVE  a \div b = q /\ a % b = r
  OBVIOUS

LEMMA Products ==
  ASSUME NEW a \in Nat \ {0}, NEW b \in Nat \ {0}
  PROVE  a * b \in Nat \ {0}
  OBVIOUS

\* Dividing by a and then by b is dividing by their product.
LEMMA DivTwice ==
  ASSUME NEW n \in Int, NEW a \in Nat \ {0}, NEW b \in Nat \ {0}
  PROVE  /\ (n \div a) \div b = n \div (a * b)
         /\ n % (a * b) = a * ((n \div a) % b) + (n % a)
         /\ (n % (a * b)) % a = n % a
         /\ (n % (a * b)) \div a = (n \div a) % b
  <1>. DEFINE q == n \div a
              r == n % a
              p == q \div b
              s == q % b
              c == a * b
              m == a * s + r
  <1>1. q \in Int /\ r \in 0..a - 1 /\ n = a * q + r
    BY DivIs
  <1>2. p \in Int /\ s \in 0..b - 1 /\ q = b * p + s
    BY <1>1, DivIs
  <1>3. c \in Nat \ {0}
    BY Products
  <1>. HIDE DEF q, r, p, s
  <1>4. n = c * p + m
    <2>1. a * (b * p + s) = c * p + a * s
      BY <1>2
    <2>. QED BY <1>1, <1>2, <2>1
  <1>5. m \in 0..c - 1
    <2>1. a * s <= a * (b - 1) /\ a * s \in Nat
      BY <1>2
    <2>2. a * (b - 1) = c - a
      BY <1>2
    <2>. QED BY <1>1, <1>3, <2>1, <2>2
  <1>6. n \div c = p /\ n % c = m
    <2>. HIDE DEF c, m
    <2>. QED BY <1>2, <1>3, <1>4, <1>5, DivUnique
  <1>7. m \div a = s /\ m % a = r
    <2>1. m \in Int /\ s \in Int
      BY <1>1, <1>2
    <2>2. m = a * s + r
      OBVIOUS
    <2>. HIDE DEF m
    <2>. QED BY <1>1, <2>1, <2>2, DivUnique
  <1>. QED BY <1>6, <1>7 DEF p, q, s, r

-----------------------------------------------------------------------------
(* Powers of two.                                                          *)

LEMMA BitIs ==
  /\ Bit[0] = 1
  /\ \A i \in Nat : Bit[i] \in Nat \ {0} /\ Bit[i + 1] = 2 * Bit[i]
  <1>. DEFINE V == Nat \ {0}
              B == [n \in Nat |-> 1]
              H == [n \in Nat |-> IF n = 0 THEN 0 ELSE n - 1]
              G == [x \in Nat \X V |-> 2 * x[2]]
  <1>1. B \in [Nat -> V] /\ H \in [Nat -> Nat] /\ \A n \in Nat : n \notin {0} => H[n] < n
    OBVIOUS
  <1>2. G \in [Nat \X V -> V]
    <2>1. \A x \in Nat \X V : 2 * x[2] \in V
      OBVIOUS
    <2>. QED BY <2>1
  <1>3. PICK f \in [Nat -> V] : Follows(f, {0}, B, H, G, Nat)
    <2>. HIDE DEF V, B, H, G
    <2>. QED BY <1>1, <1>2, Recursion
  <1>4. \A n \in Nat : f[n] = IF n = 0 THEN 1 ELSE 2 * f[n - 1]
    <2>. TAKE n \in Nat
    <2>1. CASE n = 0
      BY <1>3, <2>1 DEF Follows
    <2>2. CASE n # 0
      <3>1. H[n] = n - 1 /\ n - 1 \in Nat /\ f[n - 1] \in V
        BY <2>2
      <3>2. f[n] = G[<<n, f[n - 1]>>]
        BY <1>3, <2>2, <3>1 DEF Follows
      <3>3. G[<<n, f[n - 1]>>] = 2 * f[n - 1]
        BY <3>1
      <3>. QED BY <2>2, <3>2, <3>3
    <2>. QED BY <2>1, <2>2
  <1>5. f = [i \in Nat |-> IF i = 0 THEN 1 ELSE 2 * f[i - 1]]
    BY <1>4
  <1>6. Bit = [i \in Nat |-> IF i = 0 THEN 1 ELSE 2 * Bit[i - 1]]
    BY <1>5 DEF Bit
  <1>7. \A i \in Nat : Bit[i] = IF i = 0 THEN 1 ELSE 2 * Bit[i - 1]
    BY <1>6
  <1>8. \A i \in Nat : Bit[i + 1] = 2 * Bit[i]
    <2>. TAKE i \in Nat
    <2>1. i + 1 \in Nat /\ i + 1 # 0 /\ i + 1 - 1 = i
      OBVIOUS
    <2>. QED BY <1>7, <2>1
  <1>. DEFINE S == {i \in Nat : Bit[i] \in Nat \ {0}}
  <1>9. 0 \in S /\ \A i \in Nat : i \in S => i + 1 \in S
    BY <1>7, <1>8
  <1>10. Nat \subseteq S
    <2>. HIDE DEF S
    <2>. QED BY <1>9, SetInduction
  <1>. QED BY <1>7, <1>8, <1>10

LEMMA BitSum ==
  ASSUME NEW m \in Nat, NEW n \in Nat
  PROVE  Bit[m + n] = Bit[m] * Bit[n]
  <1>. DEFINE S == {k \in Nat : Bit[m + k] = Bit[m] * Bit[k]}
  <1>1. 0 \in S
    BY BitIs
  <1>2. ASSUME NEW k \in Nat, k \in S
        PROVE  k + 1 \in S
    <2>1. Bit[m + k + 1] = 2 * Bit[m + k] /\ m + (k + 1) = m + k + 1
      BY BitIs
    <2>2. Bit[k + 1] = 2 * Bit[k] /\ Bit[m] \in Int /\ Bit[k] \in Int
      BY BitIs
    <2>3. Bit[m + k] = Bit[m] * Bit[k]
      BY <1>2
    <2>. QED BY <2>1, <2>2, <2>3
  <1>3. Nat \subseteq S
    <2>. HIDE DEF S
    <2>. QED BY <1>1, <1>2, SetInduction
  <1>. QED BY <1>3

LEMMA BitGrows ==
  ASSUME NEW m \in Nat, NEW n \in Nat, m <= n
  PROVE  Bit[m] <= Bit[n]
  <1>1. n - m \in Nat /\ m + (n - m) = n
    OBVIOUS
  <1>2. Bit[n] = Bit[m] * Bit[n - m] /\ Bit[m] \in Nat \ {0} /\ Bit[n - m] \in Nat \ {0}
    <2>1. Bit[m + (n - m)] = Bit[m] * Bit[n - m]
      BY <1>1, BitSum
    <2>. QED BY <1>1, <2>1, BitIs
  <1>. QED BY <1>2

LEMMA PowersIs ==
  ASSUME NEW w \in Nat
  PROVE  /\ Bit[w * 0] = 1
         /\ \A i \in Nat : Bit[w * i] \in Nat \ {0} /\ Bit[w * (i + 1)] = Bit[w * i] * Bit[w]
  <1>1. w * 0 = 0
    OBVIOUS
  <1>2. ASSUME NEW i \in Nat
        PROVE  Bit[w * i] \in Nat \ {0} /\ Bit[w * (i + 1)] = Bit[w * i] * Bit[w]
    <2>. DEFINE k == w * i
    <2>1. k \in Nat /\ w * (i + 1) = k + w
      OBVIOUS
    <2>. HIDE DEF k
    <2>2. Bit[k] \in Nat \ {0} /\ Bit[k + w] = Bit[k] * Bit[w]
      BY <2>1, BitIs, BitSum
    <2>. QED BY <2>1, <2>2 DEF k
  <1>. QED BY <1>1, <1>2, BitIs

-----------------------------------------------------------------------------
(* Sums.                                                                   *)

IsSum(s, f, n) ==
    /\ s \in [0..n -> Int] /\ s[0] = 0 /\ \A i \in 1..n : s[i] = s[i - 1] + f[i]
    /\ SumTo(f, n) = s[n]

LEMMA SumIs ==
  ASSUME NEW n \in Nat, NEW f, \A i \in 1..n : f[i] \in Int
  PROVE  \E s : IsSum(s, f, n)
  <1>. DEFINE B == [i \in Nat |-> 0]
              H == [i \in Nat |-> IF i = 0 THEN 0 ELSE i - 1]
              G == [x \in Nat \X Int |-> IF x[1] \in 1..n THEN x[2] + f[x[1]] ELSE 0]
  <1>1. B \in [Nat -> Int] /\ H \in [Nat -> Nat] /\ \A i \in Nat : i \notin {0} => H[i] < i
    OBVIOUS
  <1>2. G \in [Nat \X Int -> Int]
    <2>1. \A x \in Nat \X Int : (IF x[1] \in 1..n THEN x[2] + f[x[1]] ELSE 0) \in Int
      OBVIOUS
    <2>. QED BY <2>1
  <1>3. PICK g \in [Nat -> Int] : Follows(g, {0}, B, H, G, Nat)
    <2>. HIDE DEF B, H, G
    <2>. QED BY <1>1, <1>2, Recursion
  <1>. DEFINE t == [i \in 0..n |-> g[i]]
  <1>4. \A i \in 0..n : t[i] = IF i = 0 THEN 0 ELSE t[i - 1] + f[i]
    <2>. TAKE i \in 0..n
    <2>1. CASE i = 0
      BY <1>3, <2>1 DEF Follows
    <2>2. CASE i # 0
      <3>1. H[i] = i - 1 /\ i - 1 \in 0..n /\ i \in 1..n /\ g[i - 1] \in Int
        BY <2>2
      <3>2. g[i] = G[<<i, g[i - 1]>>]
        BY <1>3, <2>2, <3>1 DEF Follows
      <3>3. G[<<i, g[i - 1]>>] = g[i - 1] + f[i]
        BY <3>1
      <3>. QED BY <2>2, <3>1, <3>2, <3>3
    <2>. QED BY <2>1, <2>2
  <1>5. t = [i \in 0..n |-> IF i = 0 THEN 0 ELSE t[i - 1] + f[i]]
    BY <1>4
  <1>. DEFINE s == CHOOSE s : s = [i \in 0..n |-> IF i = 0 THEN 0 ELSE s[i - 1] + f[i]]
  <1>6. SumTo(f, n) = s[n]
    BY DEF SumTo
  <1>7. s = [i \in 0..n |-> IF i = 0 THEN 0 ELSE s[i - 1] + f[i]]
    <2>. HIDE DEF t
    <2>. QED BY <1>5
  <1>. HIDE DEF s
  <1>8. \A i \in 0..n : s[i] = IF i = 0 THEN 0 ELSE s[i - 1] + f[i]
    BY <1>7
  <1>. DEFINE S == {i \in Nat : i <= n => s[i] \in Int}
  <1>9. 0 \in S
    BY <1>8
  <1>10. ASSUME NEW i \in Nat, i \in S PROVE i + 1 \in S
    <2>. SUFFICES ASSUME i + 1 <= n PROVE s[i + 1] \in Int
      OBVIOUS
    <2>1. i + 1 \in 0..n /\ i + 1 \in 1..n /\ i + 1 - 1 = i /\ s[i] \in Int
      BY <1>10
    <2>2. s[i + 1] = s[i] + f[i + 1]
      BY <1>8, <2>1
    <2>. QED BY <2>1, <2>2
  <1>11. Nat \subseteq S
    <2>. HIDE DEF S
    <2>. QED BY <1>9, <1>10, SetInduction
  <1>12. s \in [0..n -> Int]
    <2>1. \A i \in 0..n : s[i] \in Int
      BY <1>11
    <2>2. s = [i \in 0..n |-> s[i]]
      BY <1>7
    <2>. QED BY <2>1, <2>2
  <1>13. \A i \in 1..n : s[i] = s[i - 1] + f[i]
    BY <1>8
  <1>14. s[0] = 0
    BY <1>8
  <1>15. IsSum(s, f, n)
    BY <1>6, <1>12, <1>13, <1>14 DEF IsSum
  <1>. QED BY <1>15

-----------------------------------------------------------------------------
(* Parsers around one another.                                             *)

IsParse(r, p, v, n) ==
    r = [i \in 1..n |-> IF i = 1 THEN v ELSE ParseWrapped(r[i - 1], p[i])]

LEMMA ParseExists ==
  ASSUME NEW p, NEW v, NEW n \in Nat
  PROVE  \E r : IsParse(r, p, v, n)
  <1>. DEFINE S == {k \in Nat : \E r : IsParse(r, p, v, k)}
  <1>1. 0 \in S
    <2>. DEFINE r == [i \in 1..0 |-> v]
    <2>1. r = [i \in 1..0 |-> IF i = 1 THEN v ELSE ParseWrapped(r[i - 1], p[i])]
      OBVIOUS
    <2>2. IsParse(r, p, v, 0)
      BY <2>1 DEF IsParse
    <2>. QED BY <2>2
  <1>2. ASSUME NEW k \in Nat, k \in S
        PROVE  k + 1 \in S
    <2>1. PICK s : IsParse(s, p, v, k)
      BY <1>2
    <2>. DEFINE r == [i \in 1..k + 1 |-> IF i # k + 1 THEN s[i] ELSE
                                         IF k = 0 THEN v ELSE ParseWrapped(s[k], p[k + 1])]
    <2>2. \A i \in 1..k : s[i] = IF i = 1 THEN v ELSE ParseWrapped(s[i - 1], p[i])
      BY <2>1 DEF IsParse
    <2>3. ASSUME NEW i \in 1..k + 1
          PROVE  r[i] = IF i = 1 THEN v ELSE ParseWrapped(r[i - 1], p[i])
      <3>1. CASE i = k + 1
        <4>1. r[i] = IF k = 0 THEN v ELSE ParseWrapped(s[k], p[k + 1])
          BY <3>1
        <4>2. k # 0 => r[k] = s[k] /\ i - 1 = k
          BY <3>1
        <4>3. i = 1 <=> k = 0
          BY <3>1
        <4>. HIDE DEF r
        <4>. QED BY <3>1, <4>1, <4>2, <4>3
      <3>2. CASE i # k + 1
        <4>1. i \in 1..k /\ r[i] = s[i]
          BY <3>2
        <4>2. i # 1 => r[i - 1] = s[i - 1]
          BY <4>1
        <4>. QED BY <2>2, <4>1, <4>2
      <3>. QED BY <3>1, <3>2
    <2>4. r = [i \in 1..k + 1 |-> IF i = 1 THEN v ELSE ParseWrapped(r[i - 1], p[i])]
      BY <2>3
    <2>5. IsParse(r, p, v, k + 1)
      BY <2>4 DEF IsParse
    <2>. QED BY <2>5
  <1>3. Nat \subseteq S
    <2>. HIDE DEF S
    <2>. QED BY <1>1, <1>2, SetInduction
  <1>. QED BY <1>3

LEMMA ParseAllIs ==
  ASSUME NEW p, NEW v, Len(p) \in Nat
  PROVE  \E r : /\ ParseAll(p, v) = r[Len(p)]
                /\ \A i \in 1..Len(p) : r[i] = IF i = 1 THEN v ELSE ParseWrapped(r[i - 1], p[i])
  <1>. DEFINE n == Len(p)
              r == CHOOSE r : r = [i \in 1..n |-> IF i = 1 THEN v ELSE ParseWrapped(r[i - 1], p[i])]
  <1>1. ParseAll(p, v) = r[n]
    BY DEF ParseAll
  <1>2. r = [i \in 1..n |-> IF i = 1 THEN v ELSE ParseWrapped(r[i - 1], p[i])]
    BY ParseExists DEF IsParse
  <1>. HIDE DEF r, n
  <1>3. \A i \in 1..n : r[i] = IF i = 1 THEN v ELSE ParseWrapped(r[i - 1], p[i])
    BY <1>2
  <1>. QED BY <1>1, <1>3 DEF n

\* The sequence of parsers p is one, has a base and wrappers around it.
IsSequence(p) == p \in Seq(Range(p))

LEMMA SequenceIs ==
  ASSUME NEW S, NEW p \in Seq(S)
  PROVE  IsSequence(p)
  <1>. DEFINE n == Len(p)
  <1>1. n \in Nat /\ DOMAIN p = 1..n /\ p = [i \in 1..n |-> p[i]]
    OBVIOUS
  <1>2. \A i \in 1..n : p[i] \in Range(p)
    BY <1>1 DEF Range
  <1>. QED BY <1>1, <1>2 DEF IsSequence

LEMMA ParseAllOne ==
  ASSUME NEW p, NEW v, Len(p) = 1
  PROVE  ParseAll(p, v) = v
  BY ParseAllIs

LEMMA ParseAllMore ==
  ASSUME NEW p, NEW v, IsSequence(p), Len(p) > 1
  PROVE  ParseAll(p, v) = ParseWrapped(ParseAll(Front(p), v), Last(p))
  <1>. DEFINE n == Len(p)
              q == Front(p)
  <1>1. n \in Nat /\ n > 1 /\ q \in Seq(Range(p)) /\ Len(q) = n - 1
        /\ \A i \in 1..n - 1 : q[i] = p[i]
    BY DEF IsSequence, Front
  <1>2. PICK r : /\ ParseAll(p, v) = r[n]
                 /\ \A i \in 1..n : r[i] = IF i = 1 THEN v ELSE ParseWrapped(r[i - 1], p[i])
    BY <1>1, ParseAllIs
  <1>3. PICK s : /\ ParseAll(q, v) = s[n - 1]
                 /\ \A i \in 1..n - 1 : s[i] = IF i = 1 THEN v ELSE ParseWrapped(s[i - 1], q[i])
    <2>1. Len(q) \in Nat /\ Len(q) = n - 1
      BY <1>1
    <2>. HIDE DEF q, n
    <2>2. \E s : /\ ParseAll(q, v) = s[Len(q)]
                 /\ \A i \in 1..Len(q) : s[i] = IF i = 1 THEN v ELSE ParseWrapped(s[i - 1], q[i])
      BY <2>1, ParseAllIs
    <2>. QED BY <2>1, <2>2
  <1>. DEFINE S == {i \in Nat : i < n - 1 => r[i + 1] = s[i + 1]}
  <1>. HIDE DEF q, n
  <1>4. 0 \in S
    BY <1>1, <1>2, <1>3
  <1>5. ASSUME NEW i \in Nat, i \in S
        PROVE  i + 1 \in S
    <2>. SUFFICES ASSUME i + 1 < n - 1 PROVE r[i + 2] = s[i + 2]
      OBVIOUS
    <2>1. i + 2 \in 1..n /\ i + 2 \in 1..n - 1 /\ i + 2 # 1 /\ i + 2 - 1 = i + 1
      BY <1>1
    <2>2. r[i + 1] = s[i + 1]
      BY <1>1, <1>5
    <2>3. r[i + 2] = ParseWrapped(r[i + 1], p[i + 2])
      BY <1>2, <2>1
    <2>4. s[i + 2] = ParseWrapped(s[i + 1], q[i + 2])
      BY <1>3, <2>1
    <2>. QED BY <1>1, <2>1, <2>2, <2>3, <2>4
  <1>6. r[n - 1] = s[n - 1]
    <2>1. Nat \subseteq S
      <3>. HIDE DEF S
      <3>. QED BY <1>4, <1>5, SetInduction
    <2>2. n - 2 \in Nat /\ n - 2 < n - 1 /\ n - 2 + 1 = n - 1
      BY <1>1
    <2>3. n - 2 \in S
      <3>. HIDE DEF S
      <3>. QED BY <2>1, <2>2
    <2>. QED BY <2>2, <2>3
  <1>7. r[n] = ParseWrapped(r[n - 1], p[n])
    BY <1>1, <1>2
  <1>8. Last(p) = p[n]
    BY DEF Last, n
  <1>. QED BY <1>2, <1>3, <1>6, <1>7, <1>8 DEF q

\* What wraps no int is as good as what wraps null.
LEMMA WrapsNoInt ==
  ASSUME NEW v, ~IsInt(v), NEW p, p.kind \in Wrappers
  PROVE  ParseWrapped(v, p) = ParseWrapped(Null, p)
  <1>1. ~IsInt(Null)
    BY DEF IsInt, Null
  <1>2. BitField(p, v) = BitField(p, Null)
    BY <1>1 DEF BitField
  <1>3. Flags(p, v) = Flags(p, Null)
    BY <1>1 DEF Flags
  <1>4. Enumeration(p, v) = Enumeration(p, Null)
    BY <1>1 DEF Enumeration
  <1>5. Timestamp(p, v) = Timestamp(p, Null) /\ WinFileTime(p, v) = WinFileTime(p, Null)
    BY <1>1 DEF Timestamp, WinFileTime
  <1>. QED BY <1>2, <1>3, <1>4, <1>5 DEF ParseWrapped, Wrappers

LEMMA ParseNoInt ==
  ASSUME NEW p, IsSequence(p), Len(p) > 1, \A i \in 2..Len(p) : p[i].kind \in Wrappers,
         NEW v, ~IsInt(v)
  PROVE  ParseAll(p, v) = ParseAll(p, Null)
  <1>. DEFINE n == Len(p)
  <1>1. n \in Nat /\ n > 1
    BY DEF IsSequence
  <1>2. PICK r : /\ ParseAll(p, v) = r[n]
                 /\ \A i \in 1..n : r[i] = IF i = 1 THEN v ELSE ParseWrapped(r[i - 1], p[i])
    BY <1>1, ParseAllIs
  <1>3. PICK s : /\ ParseAll(p, Null) = s[n]
                 /\ \A i \in 1..n : s[i] = IF i = 1 THEN Null ELSE ParseWrapped(s[i - 1], p[i])
    BY <1>1, ParseAllIs
  <1>4. p[2].kind \in Wrappers
    BY <1>1
  <1>. DEFINE S == {i \in Nat : i < n - 1 => r[i + 2] = s[i + 2]}
  <1>. HIDE DEF n
  <1>5. 0 \in S
    <2>1. 1 \in 1..n /\ 2 \in 1..n /\ 2 - 1 = 1 /\ 0 + 2 = 2
      BY <1>1
    <2>2. r[1] = v /\ s[1] = Null /\ r[2] = ParseWrapped(r[1], p[2]) /\ s[2] = ParseWrapped(s[1], p[2])
      BY <1>2, <1>3, <2>1
    <2>3. r[2] = s[2]
      BY <1>4, <2>2, WrapsNoInt
    <2>. QED BY <2>1, <2>3
  <1>6. ASSUME NEW i \in Nat, i \in S
        PROVE  i + 1 \in S
    <2>. SUFFICES ASSUME i + 1 < n - 1 PROVE r[i + 3] = s[i + 3]
      OBVIOUS
    <2>1. i + 3 \in 1..n /\ i + 3 # 1 /\ i + 3 - 1 = i + 2
      BY <1>1
    <2>2. r[i + 2] = s[i + 2]
      BY <1>1, <1>6
    <2>3. r[i + 3] = ParseWrapped(r[i + 2], p[i + 3]) /\ s[i + 3] = ParseWrapped(s[i + 2], p[i + 3])
      BY <1>2, <1>3, <2>1
    <2>. QED BY <2>2, <2>3
  <1>7. r[n] = s[n]
    <2>1. Nat \subseteq S
      <3>. HIDE DEF S
      <3>. QED BY <1>5, <1>6, SetInduction
    <2>2. n - 2 \in Nat /\ n - 2 < n - 1 /\ n - 2 + 2 = n
      BY <1>1
    <2>3. n - 2 \in S
      <3>. HIDE DEF S
      <3>. QED BY <2>1, <2>2
    <2>. QED BY <2>2, <2>3
  <1>. QED BY <1>2, <1>3, <1>7

-----------------------------------------------------------------------------
(* Words.                                                                  *)

IntRange == -Bit[WordBits - 1]..Bit[WordBits] - 1
SignedWords == -Bit[WordBits - 1]..Bit[WordBits - 1] - 1

LEMMA WidthIs ==
  /\ ByteBits \in Nat /\ ByteBits >= 2 /\ WordBits \in Nat /\ WordBits >= 2
  /\ WordBits - 1 \in Nat /\ Bit[WordBits - 1] \in Nat \ {0}
  /\ Bit[WordBits] = 2 * Bit[WordBits - 1] /\ Bit[WordBits] \in Nat \ {0}
  <1>1. ByteBits \in Nat /\ ByteBits >= 2 /\ WordBits \in Nat /\ WordBits >= 2
    BY NumbersAssumption
  <1>2. WordBits - 1 \in Nat /\ WordBits - 1 + 1 = WordBits
    BY <1>1
  <1>3. Bit[WordBits - 1 + 1] = 2 * Bit[WordBits - 1]
    BY <1>2, BitIs
  <1>. QED BY <1>1, <1>2, <1>3, BitIs

LEMMA UnsignedIs ==
  ASSUME NEW n \in Int
  PROVE  Unsigned(n) \in Words /\ Unsigned(n) \in Nat
  <1>. DEFINE w == Bit[WordBits]
  <1>1. w \in Nat \ {0}
    BY WidthIs
  <1>. HIDE DEF w
  <1>2. n % w \in 0..w - 1
    BY <1>1
  <1>. QED BY <1>1, <1>2 DEF Unsigned, Words, w

LEMMA SignedIs ==
  ASSUME NEW n \in Int
  PROVE  /\ Signed(n) \in SignedWords
         /\ n \in SignedWords => Signed(n) = n
         /\ Unsigned(n) = IF Signed(n) >= 0 THEN Signed(n) ELSE Signed(n) + Bit[WordBits]
  <1>. DEFINE w == Bit[WordBits]
              h == Bit[WordBits - 1]
              u == Unsigned(n)
  <1>1. h \in Nat \ {0} /\ w = 2 * h
    BY WidthIs
  <1>2. u \in 0..w - 1 /\ u = n % w
    BY UnsignedIs DEF Unsigned, Words
  <1>3. Signed(n) = IF u < h THEN u ELSE u - w
    BY DEF Signed
  <1>. HIDE DEF w, h, u
  <1>4. n \in -h..h - 1 => u = IF n >= 0 THEN n ELSE n + w
    <2>1. CASE n \in 0..h - 1
      BY <1>1, <1>2, <2>1
    <2>2. CASE n \in -h..-1
      <3>1. n + w \in 0..w - 1 /\ n = w * (-1) + (n + w) /\ w \in Nat \ {0}
        BY <1>1, <2>2
      <3>2. n % w = n + w
        BY <3>1, DivUnique
      <3>. QED BY <1>2, <2>2, <3>2
    <2>. QED BY <1>1, <2>1, <2>2
  <1>5. Signed(n) \in -h..h - 1 /\ u = IF Signed(n) >= 0 THEN Signed(n) ELSE Signed(n) + w
    BY <1>1, <1>2, <1>3
  <1>6. n \in -h..h - 1 => Signed(n) = n
    BY <1>1, <1>3, <1>4
  <1>. QED BY <1>5, <1>6 DEF SignedWords, w, h, u

\* A signed word divided by a positive number is one.
LEMMA SignedQuotient ==
  ASSUME NEW n \in SignedWords, NEW b \in Nat \ {0}
  PROVE  n \div b \in SignedWords
  <1>. DEFINE h == Bit[WordBits - 1]
              q == n \div b
              r == n % b
  <1>1. h \in Nat \ {0} /\ n \in Int /\ -h <= n /\ n < h
    BY WidthIs DEF SignedWords
  <1>2. q \in Int /\ r \in 0..b - 1 /\ n = b * q + r
    BY <1>1, DivIs
  <1>. HIDE DEF h, q, r
  <1>3. q < h
    <2>. SUFFICES ASSUME q >= h PROVE FALSE
      BY <1>1, <1>2
    <2>1. b * q >= q
      BY <1>1, <1>2
    <2>. QED BY <1>1, <1>2, <2>1
  <1>4. q >= -h
    <2>. SUFFICES ASSUME q <= -h - 1 PROVE FALSE
      BY <1>1, <1>2
    <2>1. b * q <= b * (-h - 1)
      BY <1>1, <1>2
    <2>2. b * (-h - 1) = -(b * h) - b
      BY <1>1, <1>2
    <2>3. b * h >= h
      BY <1>1, <1>2
    <2>4. b * h \in Int /\ b * q \in Int
      BY <1>1, <1>2
    <2>. QED BY <1>1, <1>2, <2>1, <2>2, <2>3, <2>4
  <1>. QED BY <1>1, <1>2, <1>3, <1>4 DEF SignedWords, h, q

-----------------------------------------------------------------------------
(* Bytes and ints.                                                         *)

Byte == 0..Bit[ByteBits] - 1

LEMMA BufferIs ==
  ASSUME data \in Contents, NEW o \in Nat, NEW n \in Nat
  PROVE  /\ Buffer(o, n) \in Seq(Byte) /\ Len(Buffer(o, n)) = n
         /\ \A i \in 1..n : Buffer(o, n)[i] \in Byte /\ Buffer(o, n)[i] \in Nat
  <1>. DEFINE b == Buffer(o, n)
  <1>1. data \in Seq(Byte)
    BY NumbersAssumption DEF Byte
  <1>2. 0 \in Byte /\ Byte \subseteq Nat
    BY WidthIs, BitIs DEF Byte
  <1>3. \A i \in 1..n : o + i <= Len(data) => data[o + i] \in Byte
    BY <1>1
  <1>4. b = [i \in 1..n |-> b[i]]
    BY DEF Buffer
  <1>5. \A i \in 1..n : b[i] \in Byte
    BY <1>2, <1>3 DEF Buffer
  <1>. HIDE DEF b
  <1>6. b \in Seq(Byte) /\ Len(b) = n
    BY <1>4, <1>5
  <1>. QED BY <1>2, <1>5, <1>6 DEF b

LEMMA LittleEndianIs ==
  ASSUME NEW b \in Seq(Byte)
  PROVE  LittleEndian(b) \in 0..Bit[ByteBits * Len(b)] - 1
  <1>. DEFINE n == Len(b)
              f == [i \in DOMAIN b |-> b[i] * Bit[ByteBits * (i - 1)]]
  <1>1. n \in Nat /\ DOMAIN b = 1..n /\ \A i \in 1..n : b[i] \in Byte
    OBVIOUS
  <1>2. ByteBits \in Nat /\ Bit[ByteBits] \in Nat \ {0}
    BY WidthIs, BitIs
  <1>. DEFINE P(i) == Bit[ByteBits * i]
  <1>4. P(0) = 1 /\ \A i \in Nat : P(i) \in Nat \ {0} /\ P(i + 1) = P(i) * Bit[ByteBits]
    BY <1>2, PowersIs
  <1>5. P(0) = 1 /\ \A i \in Nat : P(i) \in Int
    <2>. HIDE DEF P
    <2>. QED BY <1>4
  <1>6. \A i \in 1..n : f[i] = b[i] * P(i - 1) /\ f[i] \in Int
    <2>. TAKE i \in 1..n
    <2>1. i - 1 \in Nat /\ b[i] \in Int /\ b[i] \in Byte
      BY <1>1 DEF Byte
    <2>2. f[i] = b[i] * P(i - 1)
      BY <1>1
    <2>. HIDE DEF P, f
    <2>3. P(i - 1) \in Int
      BY <1>5, <2>1
    <2>. QED BY <2>1, <2>2, <2>3
  <1>. HIDE DEF P, f, n
  <1>7. PICK s : IsSum(s, f, n)
    BY <1>1, <1>6, SumIs
  <1>8. s[0] = 0 /\ \A i \in 1..n : s[i] = s[i - 1] + f[i]
    BY <1>7 DEF IsSum
  <1>. DEFINE S == {i \in Nat : i <= n => s[i] \in 0..P(i) - 1}
  <1>9. 0 \in S
    BY <1>5, <1>8
  <1>10. ASSUME NEW i \in Nat, i \in S PROVE i + 1 \in S
    <2>. SUFFICES ASSUME i + 1 <= n PROVE s[i + 1] \in 0..P(i + 1) - 1
      OBVIOUS
    <2>1. i + 1 \in 1..n /\ i + 1 - 1 = i /\ s[i] \in 0..P(i) - 1
      BY <1>10, <1>1
    <2>2. s[i + 1] = s[i] + b[i + 1] * P(i)
      BY <1>6, <1>8, <2>1
    <2>3. P(i) \in Nat \ {0} /\ P(i + 1) = P(i) * Bit[ByteBits]
      BY <1>4
    <2>4. b[i + 1] \in 0..Bit[ByteBits] - 1
      BY <1>1, <2>1 DEF Byte
    <2>. DEFINE x == b[i + 1]
                p == P(i)
                B == Bit[ByteBits]
    <2>5. x \in 0..B - 1 /\ p \in Nat \ {0} /\ B \in Nat \ {0} /\ s[i] \in 0..p - 1
      BY <1>2, <2>1, <2>3, <2>4
    <2>. HIDE DEF x, p, B
    <2>6. x * p \in Nat /\ x * p <= (B - 1) * p /\ (B - 1) * p = p * B - p
      BY <2>5
    <2>7. s[i] + x * p \in 0..p * B - 1
      BY <2>5, <2>6
    <2>. QED BY <2>2, <2>3, <2>7 DEF x, p, B
  <1>11. n \in S
    <2>1. Nat \subseteq S
      <3>. HIDE DEF S
      <3>. QED BY <1>9, <1>10, SetInduction
    <2>. HIDE DEF S
    <2>. QED BY <1>1, <2>1
  <1>12. s[n] \in 0..P(n) - 1
    BY <1>1, <1>11
  <1>13. LittleEndian(b) = s[n]
    BY <1>7 DEF IsSum, LittleEndian, f, n
  <1>. QED BY <1>12, <1>13 DEF P, n

LEMMA ConvertIs ==
  ASSUME NEW t \in Bases, t.kind = "int",
         NEW buf \in Seq(Byte), Len(buf) = WordBits \div ByteBits
  PROVE  Convert(t, buf) \in IntRange
  <1>. DEFINE b == SubSeq(buf, 1, t.size)
              c == IF t.big THEN Reverse(b) ELSE b
              n == LittleEndian(c)
              k == ByteBits * t.size
  <1>1. t.size \in 1..WordBits \div ByteBits /\ t.signed \in BOOLEAN /\ t.big \in BOOLEAN
    BY NumbersAssumption
  <1>2. b \in Seq(Byte) /\ Len(b) = t.size /\ t.size \in Nat
    <2>1. t.size \in 1..Len(buf) /\ Len(buf) \in Nat
      BY <1>1
    <2>. QED BY <2>1
  <1>3. c \in Seq(Byte) /\ Len(c) = t.size
    <2>. DEFINE m == t.size
                r == [i \in 1..m |-> b[m - i + 1]]
    <2>1. m \in Nat /\ b \in Seq(Byte) /\ Len(b) = m
      BY <1>2
    <2>. HIDE DEF b, m
    <2>2. \A i \in 1..m : m - i + 1 \in 1..m
      BY <2>1
    <2>3. \A i \in 1..m : b[m - i + 1] \in Byte
      BY <2>1, <2>2
    <2>4. r \in Seq(Byte) /\ Len(r) = m
      BY <2>1, <2>3
    <2>5. Reverse(b) = r
      BY <2>1 DEF Reverse
    <2>. QED BY <2>1, <2>4, <2>5 DEF m
  <1>4. k \in Nat /\ k >= 2 /\ k <= WordBits
    <2>1. ByteBits \in Nat /\ ByteBits >= 2 /\ WordBits \in Nat
      BY WidthIs
    <2>2. ByteBits * (WordBits \div ByteBits) <= WordBits
      BY <2>1
    <2>3. ByteBits * t.size <= ByteBits * (WordBits \div ByteBits)
      BY <1>1, <2>1
    <2>4. ByteBits * t.size >= ByteBits /\ ByteBits * t.size \in Nat
      BY <1>1, <2>1
    <2>. QED BY <2>1, <2>2, <2>3, <2>4
  <1>5. n \in 0..Bit[k] - 1
    <2>. HIDE DEF c
    <2>. QED BY <1>3, LittleEndianIs
  <1>. HIDE DEF k, n
  <1>6. Bit[k] = 2 * Bit[k - 1] /\ Bit[k - 1] \in Nat \ {0} /\ Bit[k] <= Bit[WordBits]
        /\ Bit[WordBits] = 2 * Bit[WordBits - 1] /\ Bit[WordBits - 1] \in Nat \ {0}
    <2>1. k - 1 \in Nat /\ k - 1 + 1 = k
      BY <1>4
    <2>2. Bit[k - 1 + 1] = 2 * Bit[k - 1] /\ Bit[k - 1] \in Nat \ {0}
      BY <2>1, BitIs
    <2>3. Bit[k] <= Bit[WordBits]
      BY <1>4, WidthIs, BitGrows
    <2>. QED BY <2>1, <2>2, <2>3, WidthIs
  <1>7. Convert(t, buf) = IF t.signed /\ n >= Bit[k - 1] THEN n - Bit[k] ELSE n
    BY DEF Convert, n, k
  <1>. QED BY <1>5, <1>6, <1>7 DEF IntRange

-----------------------------------------------------------------------------
(* Varints.                                                                *)

LEMMA VarIntWidth ==
  /\ Group \in Nat \ {0} /\ Cap \in Nat \ {0} /\ Bit[Group] \in Nat \ {0}
  /\ Bit[Group + 1] = 2 * Bit[Group] /\ Group + 1 = ByteBits
  /\ Group * Cap >= WordBits
  <1>. DEFINE g == Group
  <1>1. g \in Nat \ {0} /\ g + 1 = ByteBits /\ WordBits \in Nat
    BY WidthIs DEF Group
  <1>2. Bit[g] \in Nat \ {0} /\ Bit[g + 1] = 2 * Bit[g]
    BY <1>1, BitIs
  <1>. HIDE DEF g
  <1>3. WordBits \div g \in Nat /\ g * (WordBits \div g) > WordBits - g
    <2>0. WordBits \in Int
      BY <1>1
    <2>1. WordBits = g * (WordBits \div g) + (WordBits % g) /\ WordBits % g \in 0..g - 1
      BY <1>1, <2>0, DivIs
    <2>2. WordBits \div g \in Nat /\ g * (WordBits \div g) \in Int
      BY <1>1
    <2>. QED BY <1>1, <2>1, <2>2
  <1>4. g * (1 + WordBits \div g) = g + g * (WordBits \div g)
    BY <1>1, <1>3
  <1>5. g * (1 + WordBits \div g) >= WordBits
    <2>1. g * (WordBits \div g) \in Int
      BY <1>1, <1>3
    <2>. QED BY <1>1, <1>3, <1>4, <2>1
  <1>. QED BY <1>1, <1>2, <1>3, <1>5 DEF g, Cap

LastGroups(buf) == {i \in 1..Cap : ~Continues(buf[i])} \cup {Cap}

LEMMA GroupsIs ==
  ASSUME NEW buf
  PROVE  Groups(buf) \in 1..Cap /\ Groups(buf) \in LastGroups(buf) /\ \A i \in LastGroups(buf) : Groups(buf) <= i
  <1>1. LastGroups(buf) \subseteq Nat /\ LastGroups(buf) \subseteq 1..Cap /\ LastGroups(buf) # {}
    BY VarIntWidth DEF LastGroups
  <1>2. Groups(buf) = Min(LastGroups(buf))
    BY DEF Groups, LastGroups
  <1>. QED BY <1>1, <1>2, MinOfNumbers

GroupOf(buf, i) == (buf[i] % Bit[Group]) * Bit[Group * (i - 1)]

LEMMA GroupIs ==
  ASSUME NEW buf, NEW i \in 1..Cap, buf[i] \in Nat
  PROVE  GroupOf(buf, i) \in Int
  <1>. DEFINE j == i - 1
  <1>1. j \in Nat /\ Group \in Nat /\ Bit[Group] \in Nat \ {0}
    BY VarIntWidth
  <1>. HIDE DEF j
  <1>2. Group * j \in Nat
    BY <1>1
  <1>3. Bit[Group * j] \in Int
    BY <1>2, BitIs
  <1>4. buf[i] % Bit[Group] \in Int
    BY <1>1
  <1>. QED BY <1>3, <1>4 DEF GroupOf, j

LEMMA BaseIs ==
  ASSUME NEW buf, \A i \in 1..Cap : buf[i] \in Nat
  PROVE  /\ Base(buf) \in Words
         /\ \E s, f : /\ f = [i \in 1..Groups(buf) |-> GroupOf(buf, i)]
                      /\ IsSum(s, f, Groups(buf)) /\ Base(buf) = Unsigned(s[Groups(buf)])
  <1>. DEFINE n == Groups(buf)
              f == [i \in 1..n |-> GroupOf(buf, i)]
  <1>1. n \in Nat /\ n \in 1..Cap
    BY GroupsIs, VarIntWidth
  <1>. HIDE DEF n
  <1>2. \A i \in 1..n : f[i] \in Int
    <2>. TAKE i \in 1..n
    <2>1. i \in 1..Cap
      BY <1>1, VarIntWidth
    <2>2. GroupOf(buf, i) \in Int
      BY <2>1, GroupIs
    <2>. QED BY <2>2
  <1>. HIDE DEF f
  <1>3. PICK s : IsSum(s, f, n)
    BY <1>1, <1>2, SumIs
  <1>4. Base(buf) = Unsigned(s[n])
    <2>1. SumTo(f, n) = s[n]
      BY <1>3 DEF IsSum
    <2>2. f = [i \in 1..n |-> (buf[i] % Bit[Group]) * Bit[Group * (i - 1)]]
      BY DEF f, GroupOf
    <2>. QED BY <2>1, <2>2 DEF Base, n
  <1>5. s[n] \in Int
    BY <1>1, <1>3 DEF IsSum
  <1>. QED BY <1>3, <1>4, <1>5, UnsignedIs DEF f, n

-----------------------------------------------------------------------------
(* Values.                                                                 *)

ValueOK(v) ==
    /\ v.type \in {"int", "leb128", "sleb128", "string", "null", "names", "name", "hex", "time"}
    /\ v.type = "int" => v.num \in IntRange
    /\ v.type = "leb128" => v.num \in Words /\ v.size \in 1..Cap

LEMMA IntIsOK ==
  ASSUME NEW n \in IntRange
  PROVE  ValueOK(IntOf(n)) /\ IsInt(IntOf(n))
  BY DEF ValueOK, IntOf, IsInt

LEMMA RangesAre == 0 \in IntRange /\ SignedWords \subseteq IntRange /\ IntRange \subseteq Int
  BY WidthIs DEF IntRange, SignedWords

LEMMA OtherIsOK ==
  ASSUME NEW v, v.type \in {"string", "null", "names", "name", "hex", "time"}
  PROVE  ValueOK(v) /\ ~IsInt(v)
  BY DEF ValueOK, IsInt

LEMMA VarIntIsOK ==
  ASSUME NEW type \in {"leb128", "sleb128"}, NEW o \in Nat, data \in Contents
  PROVE  /\ ValueOK(ParseVarInt(type, o))
         /\ InData(o) => ~IsInt(ParseVarInt(type, o)) /\ ParseVarInt(type, o).type = type
  <1>. DEFINE buf == Buffer(o, Cap)
              n == Base(buf)
              x == IF type = "sleb128" THEN Signed(n) ELSE n
              v == VarInt(type, x, Groups(buf))
  <1>1. \A i \in 1..Cap : buf[i] \in Nat
    BY BufferIs, VarIntWidth
  <1>2. n \in Words /\ Groups(buf) \in 1..Cap
    <2>. HIDE DEF buf
    <2>. QED BY <1>1, BaseIs, GroupsIs
  <1>3. ParseVarInt(type, o) = IF InData(o) THEN v ELSE IntOf(0)
    BY DEF ParseVarInt
  <1>4. v.type = type /\ v.num = x /\ v.size = Groups(buf)
    BY DEF VarInt
  <1>. HIDE DEF v, n, buf
  <1>5. type = "leb128" => x = n
    OBVIOUS
  <1>. HIDE DEF x
  <1>6. ValueOK(v) /\ ~IsInt(v)
    BY <1>2, <1>4, <1>5 DEF ValueOK, IsInt
  <1>. QED BY <1>3, <1>4, <1>6, IntIsOK, RangesAre

LEMMA BaseIsOK ==
  ASSUME NEW b \in Bases, NEW o \in Nat, data \in Contents
  PROVE  ValueOK(ParseBase(b, o))
  <1>1. b.kind \in Kinds
    BY NumbersAssumption
  <1>2. CASE b.kind = "int"
    <2>. DEFINE m == WordBits \div ByteBits
                buf == Buffer(o, m)
    <2>1. m \in Nat
      BY WidthIs
    <2>2. buf \in Seq(Byte) /\ Len(buf) = m
      <3>. HIDE DEF m
      <3>. QED BY <2>1, BufferIs
    <2>3. Convert(b, buf) \in IntRange
      <3>. HIDE DEF buf
      <3>. QED BY <1>2, <2>2, ConvertIs
    <2>4. ParseBase(b, o) = IF InData(o) THEN IntOf(Convert(b, buf)) ELSE IntOf(0)
      BY <1>2 DEF ParseBase, ParseInt
    <2>. HIDE DEF buf
    <2>. QED BY <2>3, <2>4, IntIsOK, RangesAre
  <1>3. CASE b.kind \in {"leb128", "sleb128"}
    <2>1. ParseBase(b, o) = ParseVarInt(b.kind, o)
      BY <1>3 DEF ParseBase
    <2>. QED BY <1>3, <2>1, VarIntIsOK
  <1>4. CASE b.kind = "string"
    <2>1. ParseBase(b, o) = [type |-> "string"]
      BY <1>4 DEF ParseBase
    <2>. QED BY <2>1, OtherIsOK
  <1>. QED BY <1>1, <1>2, <1>3, <1>4 DEF Kinds

-----------------------------------------------------------------------------
(* Wrappers.                                                               *)

\* The i'th parser p, one that wraps another.
WrapperOK(p, i) ==
    /\ p.kind \in Wrappers
    /\ p.kind = "BitField" =>
          i = 2 /\ p.start \in Nat /\ p.end \in Nat /\ p.start < p.end /\ p.end <= WordBits
    /\ p.kind = "Flags" =>
          /\ Len(p.bits) \in Nat /\ DOMAIN p.bits = 1..Len(p.bits)
          /\ \A j \in DOMAIN p.bits : p.bits[j][2] \in 0..WordBits - 1
    /\ p.kind = "Enumeration" =>
          /\ Len(p.names) \in Nat /\ DOMAIN p.names = 1..Len(p.names)
          /\ p.mapped \in 0..Len(p.names)
    /\ p.kind \in {"Timestamp", "WinFileTime"} => p.factor \in Int \ {0}

ParserOK(p) ==
    /\ IsSequence(p) /\ Len(p) >= 1 /\ p[1] \in Bases
    /\ \A i \in 2..Len(p) : WrapperOK(p[i], i)

\* An int is read as a signed word.
LEMMA ToInt64Is ==
  ASSUME NEW v, ValueOK(v), IsInt(v)
  PROVE  ToInt64(v) \in SignedWords /\ ToInt64(v) \in Int
  <1>1. v.num \in Int
    BY RangesAre DEF ValueOK, IsInt
  <1>2. Signed(v.num) \in SignedWords
    BY <1>1, SignedIs
  <1>. QED BY <1>2, RangesAre DEF ToInt64

MaskBit(p, u, i) == IF i - 1 \in p.start..p.end - 1 /\ (u \div Bit[i - 1]) % 2 = 1
                      THEN Bit[i - 1] ELSE 0

\* The bits of a mask, summed up one by one.
LEMMA MaskedIs ==
  ASSUME NEW p, NEW x
  PROVE  /\ \A i \in 1..WordBits : MaskBit(p, Unsigned(x), i) \in Int
         /\ \E s, f : /\ f = [i \in 1..WordBits |-> MaskBit(p, Unsigned(x), i)]
                      /\ IsSum(s, f, WordBits) /\ Masked(p, x) = s[WordBits]
  <1>. DEFINE f == [i \in 1..WordBits |-> MaskBit(p, Unsigned(x), i)]
  <1>1. \A i \in 1..WordBits : MaskBit(p, Unsigned(x), i) \in Int
    <2>. TAKE i \in 1..WordBits
    <2>1. i - 1 \in Nat
      BY WidthIs
    <2>2. Bit[i - 1] \in Int
      BY <2>1, BitIs
    <2>. QED BY <2>2 DEF MaskBit
  <1>2. \A i \in 1..WordBits : f[i] \in Int
    BY <1>1
  <1>3. Masked(p, x) = SumTo(f, WordBits)
    BY DEF Masked, MaskBit, IsSet
  <1>. HIDE DEF f
  <1>4. PICK s : IsSum(s, f, WordBits)
    BY <1>2, SumIs, WidthIs
  <1>5. Masked(p, x) = s[WordBits]
    BY <1>3, <1>4 DEF IsSum
  <1>. QED BY <1>1, <1>4, <1>5 DEF f

LEMMA BitFieldIsOK ==
  ASSUME NEW v, ValueOK(v), NEW p, p.start \in Nat
  PROVE  ValueOK(BitField(p, v))
  <1>. DEFINE m == Masked(p, ToInt64(v))
  <1>1. m \in Int
    <2>1. PICK s, f : IsSum(s, f, WordBits) /\ m = s[WordBits]
      BY MaskedIs
    <2>2. WordBits \in 0..WordBits
      BY WidthIs
    <2>. QED BY <2>1, <2>2 DEF IsSum
  <1>. HIDE DEF m
  <1>2. Signed(m) \div Bit[p.start] \in IntRange
    <2>1. Signed(m) \in SignedWords /\ Bit[p.start] \in Nat \ {0}
      BY <1>1, SignedIs, BitIs
    <2>2. Signed(m) \div Bit[p.start] \in SignedWords
      BY <2>1, SignedQuotient
    <2>. QED BY <2>2, RangesAre
  <1>. QED BY <1>2, IntIsOK, RangesAre DEF BitField, m

LEMMA WrappedIsOK ==
  ASSUME NEW v, ValueOK(v), NEW p, NEW i, WrapperOK(p, i)
  PROVE  /\ ValueOK(ParseWrapped(v, p))
         /\ ParseWrapped(v, p).type \notin {"leb128", "sleb128"}
  <1>0. p.kind \in Wrappers
    BY DEF WrapperOK
  <1>1. CASE p.kind = "BitField"
    <2>1. ParseWrapped(v, p) = BitField(p, v) /\ p.start \in Nat
      BY <1>1 DEF ParseWrapped, WrapperOK
    <2>2. BitField(p, v).type = "int"
      BY DEF BitField, IntOf
    <2>. QED BY <2>1, <2>2, BitFieldIsOK
  <1>2. CASE p.kind = "Flags"
    <2>1. ParseWrapped(v, p) = Flags(p, v)
      BY <1>2 DEF ParseWrapped
    <2>2. Flags(p, v).type = "names"
      BY DEF Flags
    <2>. QED BY <2>1, <2>2, OtherIsOK
  <1>3. CASE p.kind = "Enumeration"
    <2>1. ParseWrapped(v, p) = Enumeration(p, v)
      BY <1>3 DEF ParseWrapped
    <2>2. Enumeration(p, v).type \in {"null", "name", "hex"}
      BY DEF Enumeration, Null
    <2>. QED BY <2>1, <2>2, OtherIsOK
  <1>4. CASE p.kind = "Timestamp"
    <2>1. ParseWrapped(v, p) = Timestamp(p, v)
      BY <1>4 DEF ParseWrapped
    <2>2. Timestamp(p, v).type \in {"null", "time"}
      BY DEF Timestamp, Time, Null
    <2>. QED BY <2>1, <2>2, OtherIsOK
  <1>5. CASE p.kind = "WinFileTime"
    <2>1. ParseWrapped(v, p) = WinFileTime(p, v)
      BY <1>5 DEF ParseWrapped
    <2>2. WinFileTime(p, v).type \in {"null", "time"}
      BY DEF WinFileTime, Time, Null
    <2>. QED BY <2>1, <2>2, OtherIsOK
  <1>. QED BY <1>0, <1>1, <1>2, <1>3, <1>4, <1>5 DEF Wrappers

LEMMA ParserIs ==
  ASSUME NEW p, ParserOK(p)
  PROVE  /\ Len(p) \in Nat \ {0}
         /\ Len(p) > 1 => /\ ParserOK(Front(p)) /\ Front(p)[1] = p[1]
                          /\ WrapperOK(Last(p), Len(p))
  <1>1. Len(p) \in Nat \ {0}
    BY DEF ParserOK, IsSequence
  <1>2. ASSUME Len(p) > 1
        PROVE  ParserOK(Front(p)) /\ Front(p)[1] = p[1]
    <2>. DEFINE q == Front(p)
                n == Len(p)
    <2>1. q \in Seq(Range(p)) /\ Len(q) = n - 1 /\ \A i \in 1..n - 1 : q[i] = p[i]
      BY <1>1, <1>2 DEF Front, ParserOK, IsSequence
    <2>. HIDE DEF q, n
    <2>2. IsSequence(q)
      BY <2>1, SequenceIs
    <2>3. n \in Nat /\ n > 1 /\ p[1] \in Bases /\ \A i \in 2..n : WrapperOK(p[i], i)
      BY <1>1, <1>2 DEF ParserOK, n
    <2>4. \A i \in 2..n - 1 : q[i] = p[i] /\ WrapperOK(p[i], i)
      BY <2>1, <2>3
    <2>5. \A i \in 2..Len(q) : WrapperOK(q[i], i)
      BY <2>1, <2>4
    <2>6. q[1] = p[1] /\ Len(q) >= 1
      BY <2>1, <2>3
    <2>. QED BY <2>2, <2>3, <2>5, <2>6 DEF ParserOK, q
  <1>3. Len(p) > 1 => WrapperOK(Last(p), Len(p))
    BY <1>1 DEF Last, ParserOK
  <1>. QED BY <1>1, <1>2, <1>3

LEMMA ParseIsOK ==
  ASSUME NEW p, ParserOK(p), NEW v, ValueOK(v)
  PROVE  /\ ValueOK(ParseAll(p, v))
         /\ Len(p) > 1 => ParseAll(p, v).type \notin {"leb128", "sleb128"}
  <1>. DEFINE n == Len(p)
  <1>1. n \in Nat \ {0} /\ \A i \in 2..n : WrapperOK(p[i], i)
    BY ParserIs DEF ParserOK
  <1>2. PICK r : /\ ParseAll(p, v) = r[n]
                 /\ \A i \in 1..n : r[i] = IF i = 1 THEN v ELSE ParseWrapped(r[i - 1], p[i])
    BY <1>1, ParseAllIs
  <1>. DEFINE S == {i \in Nat : i < n => ValueOK(r[i + 1])}
  <1>. HIDE DEF n
  <1>3. 0 \in S
    BY <1>1, <1>2
  <1>4. ASSUME NEW i \in Nat, i \in S PROVE i + 1 \in S
    <2>. SUFFICES ASSUME i + 1 < n PROVE ValueOK(r[i + 2])
      OBVIOUS
    <2>1. i + 2 \in 1..n /\ i + 2 \in 2..n /\ i + 2 # 1 /\ i + 2 - 1 = i + 1
      BY <1>1
    <2>2. ValueOK(r[i + 1])
      BY <1>1, <1>4
    <2>3. WrapperOK(p[i + 2], i + 2)
      BY <1>1, <2>1
    <2>4. r[i + 2] = ParseWrapped(r[i + 1], p[i + 2])
      BY <1>2, <2>1
    <2>. QED BY <2>2, <2>3, <2>4, WrappedIsOK
  <1>5. \A i \in 1..n : ValueOK(r[i])
    <2>1. Nat \subseteq S
      <3>. HIDE DEF S
      <3>. QED BY <1>3, <1>4, SetInduction
    <2>. TAKE i \in 1..n
    <2>2. i - 1 \in Nat /\ i - 1 < n /\ i - 1 + 1 = i
      BY <1>1
    <2>3. i - 1 \in S
      <3>. HIDE DEF S
      <3>. QED BY <2>1, <2>2
    <2>. QED BY <2>2, <2>3
  <1>6. n > 1 => r[n].type \notin {"leb128", "sleb128"}
    <2>. HAVE n > 1
    <2>1. n - 1 \in 1..n /\ n \in 2..n /\ n \in 1..n
      BY <1>1
    <2>2. r[n] = ParseWrapped(r[n - 1], p[n]) /\ ValueOK(r[n - 1]) /\ WrapperOK(p[n], n)
      BY <1>1, <1>2, <1>5, <2>1
    <2>. QED BY <2>2, WrappedIsOK
  <1>. QED BY <1>1, <1>2, <1>5, <1>6 DEF n

-----------------------------------------------------------------------------
(* The inductive invariant: the parser is one that New lets be built, and  *)
(* the value is what it parses at the offset.                              *)

IInv ==
    /\ data \in Contents /\ at \in -1..Len(data)
    /\ ParserOK(parser) /\ Len(parser) <= MaxDepth
    /\ value = IF at = -1 THEN Null ELSE ParseAll(parser, ParseBase(parser[1], at))

LEMMA DataIs == data \in Contents => Len(data) \in Nat
  BY NumbersAssumption

\* New of a wrapper that is OK.
LEMMA NewKeepsIInv ==
  ASSUME IInv, NEW p, WrapperOK(p, Len(parser) + 1), New(p)
  PROVE  IInv'
  <1>1. at = -1 /\ at' = at /\ data' = data /\ value' = value /\ parser' = Append(parser, p)
        /\ Len(parser) < MaxDepth /\ MaxDepth \in Nat
    BY NumbersAssumption DEF New
  <1>. DEFINE n == Len(parser)
              q == Append(parser, p)
  <1>2. n \in Nat \ {0} /\ parser \in Seq(Range(parser))
    BY ParserIs DEF IInv, ParserOK, IsSequence
  <1>3. Len(q) = n + 1 /\ q[n + 1] = p /\ \A i \in 1..n : q[i] = parser[i]
    BY <1>2
  <1>4. q \in Seq(Range(parser) \cup {p})
    BY <1>2
  <1>5. IsSequence(q)
    BY <1>4, SequenceIs
  <1>6. parser[1] \in Bases /\ \A i \in 2..n : WrapperOK(parser[i], i)
    BY DEF IInv, ParserOK
  <1>. HIDE DEF q, n
  <1>7. q[1] = parser[1] /\ Len(q) >= 1
    BY <1>2, <1>3
  <1>8. \A i \in 2..n + 1 : WrapperOK(q[i], i)
    <2>. TAKE i \in 2..n + 1
    <2>1. CASE i = n + 1
      BY <1>3, <2>1 DEF n
    <2>2. CASE i # n + 1
      <3>1. i \in 2..n /\ i \in 1..n
        BY <1>2, <2>2
      <3>. QED BY <1>3, <1>6, <3>1
    <2>. QED BY <2>1, <2>2
  <1>9. ParserOK(q)
    BY <1>3, <1>5, <1>6, <1>7, <1>8 DEF ParserOK
  <1>10. Len(q) <= MaxDepth
    BY <1>1, <1>2, <1>3 DEF n
  <1>11. parser' = q
    BY <1>1 DEF q
  <1>12. ParserOK(parser') /\ Len(parser') <= MaxDepth
    BY <1>9, <1>10, <1>11
  <1>. QED BY <1>1, <1>12 DEF IInv

LEMMA SeqsOf ==
  ASSUME NEW S, IsFiniteSet(S), NEW s \in SetToSeqs(S)
  PROVE  \E n \in Nat : s \in [1..n -> S]
  <1>1. Cardinality(S) \in Nat
    BY FS_CardinalityType
  <1>. QED BY <1>1 DEF SetToSeqs

LEMMA IInvInit == Init => IInv
  <1>. SUFFICES ASSUME Init PROVE IInv
    OBVIOUS
  <1>1. PICK b \in Bases : parser = <<b>>
    BY DEF Init
  <1>2. parser \in Seq({b}) /\ Len(parser) = 1 /\ parser[1] = b
    BY <1>1
  <1>3. IsSequence(parser)
    BY <1>2, SequenceIs
  <1>4. ParserOK(parser)
    BY <1>2, <1>3 DEF ParserOK
  <1>5. Len(parser) <= MaxDepth
    BY <1>2, NumbersAssumption
  <1>6. data \in Contents /\ at = -1 /\ value = Null
    BY DEF Init
  <1>7. at \in -1..Len(data)
    BY <1>6, DataIs
  <1>. QED BY <1>4, <1>5, <1>6, <1>7 DEF IInv

LEMMA IInvStep == IInv /\ [Next]_vars => IInv'
  <1>. SUFFICES ASSUME IInv, [Next]_vars PROVE IInv'
    OBVIOUS
  <1>. DEFINE n == Len(parser)
  <1>0. n \in Nat \ {0} /\ WordBits \in Nat
    BY ParserIs, WidthIs DEF IInv
  <1>1. ASSUME NEW s \in Starts, NEW e \in Ends, NewBitField(s, e)
        PROVE  IInv'
    <2>. DEFINE p == [kind |-> "BitField", start |-> s, end |-> EndBit(e)]
    <2>1. s \in 0..WordBits /\ EndBit(e) \in 0..WordBits /\ EndBit(e) > s /\ n = 1 /\ New(p)
      BY <1>1 DEF NewBitField, ValidBits
    <2>2. p.kind = "BitField" /\ p.start = s /\ p.end = EndBit(e)
      OBVIOUS
    <2>. HIDE DEF p
    <2>3. WrapperOK(p, n + 1)
      BY <1>0, <2>1, <2>2 DEF WrapperOK, Wrappers
    <2>. QED BY <2>1, <2>3, NewKeepsIInv
  <1>2. ASSUME NEW b \in Bitmaps, NewFlags(b)
        PROVE  IInv'
    <2>1. PICK bits \in SetToSeqs(b) : New([kind |-> "Flags", bits |-> bits])
      BY <1>2 DEF NewFlags
    <2>. DEFINE p == [kind |-> "Flags", bits |-> bits]
    <2>2. PICK m \in Nat : bits \in [1..m -> b]
      BY NumbersAssumption, SeqsOf
    <2>3. \A j \in 1..m : bits[j][2] \in 0..WordBits - 1
      BY <1>2, <2>2 DEF NewFlags
    <2>4. p.kind = "Flags" /\ p.bits = bits /\ DOMAIN bits = 1..m /\ Len(bits) = m
      BY <2>2
    <2>. HIDE DEF p
    <2>5. WrapperOK(p, n + 1)
      BY <2>3, <2>4 DEF WrapperOK, Wrappers
    <2>. QED BY <2>1, <2>5, NewKeepsIInv DEF p
  <1>3. ASSUME NEW c \in Enumerations, NEW m \in Enumerations, NewEnumeration(c, m)
        PROVE  IInv'
    <2>. DEFINE T == {<<Signed(x[1]), x[2]>> : x \in m}
    <2>1. PICK first \in SetToSeqs(c), then \in SetToSeqs(T) :
              New([kind |-> "Enumeration", names |-> first \o then, mapped |-> Len(then)])
      BY <1>3 DEF NewEnumeration
    <2>. DEFINE p == [kind |-> "Enumeration", names |-> first \o then, mapped |-> Len(then)]
    <2>2. IsFiniteSet(T)
      <3>. DEFINE f == [x \in m |-> <<Signed(x[1]), x[2]>>]
      <3>1. f \in Surjection(m, T)
        BY DEF Surjection
      <3>2. IsFiniteSet(m)
        BY NumbersAssumption
      <3>. HIDE DEF f, T
      <3>. QED BY <3>1, <3>2, FS_Surjection
    <2>3. PICK k \in Nat : first \in [1..k -> c]
      BY NumbersAssumption, SeqsOf
    <2>4. PICK l \in Nat : then \in [1..l -> T]
      <3>. HIDE DEF T
      <3>. QED BY <2>2, SeqsOf
    <2>5. first \in Seq(c) /\ then \in Seq(T) /\ Len(then) = l /\ Len(first) = k
      <3>. HIDE DEF T
      <3>. QED BY <2>3, <2>4
    <2>6. Len(first \o then) = k + l /\ DOMAIN (first \o then) = 1..k + l
      <3>. HIDE DEF T
      <3>. QED BY <2>5
    <2>7. p.kind = "Enumeration" /\ p.names = first \o then /\ p.mapped = l
      BY <2>5
    <2>. HIDE DEF p
    <2>8. WrapperOK(p, n + 1)
      BY <2>6, <2>7 DEF WrapperOK, Wrappers
    <2>. QED BY <2>1, <2>8, NewKeepsIInv DEF p
  <1>4. ASSUME NEW k \in {"Timestamp", "WinFileTime"}, NEW f \in Factors, NewTimestamp(k, f)
        PROVE  IInv'
    <2>. DEFINE p == [kind |-> k, factor |-> f]
    <2>1. New(p) /\ p.kind = k /\ p.factor = f /\ f \in Int \ {0}
      BY <1>4, NumbersAssumption DEF NewTimestamp
    <2>. HIDE DEF p
    <2>2. WrapperOK(p, n + 1)
      BY <2>1 DEF WrapperOK, Wrappers
    <2>. QED BY <2>1, <2>2, NewKeepsIInv
  <1>5. ASSUME NEW o \in 0..Len(data), Parse(o)
        PROVE  IInv'
    <2>1. at' = o /\ value' = ParseAll(parser, ParseBase(parser[1], o)) /\ data' = data /\ parser' = parser
      BY <1>5 DEF Parse
    <2>2. o \in Nat /\ o \in -1..Len(data) /\ o # -1
      BY DataIs DEF IInv
    <2>3. ParseBase(parser[1], o)' = ParseBase(parser[1], o)
      BY <2>1 DEF ParseBase, ParseInt, ParseVarInt, InData, Buffer
    <2>. QED BY <2>1, <2>2, <2>3 DEF IInv
  <1>6. CASE UNCHANGED vars
    <2>1. data' = data /\ parser' = parser /\ at' = at /\ value' = value
      BY <1>6 DEF vars
    <2>2. ParseBase(parser[1], at)' = ParseBase(parser[1], at)
      BY <2>1 DEF ParseBase, ParseInt, ParseVarInt, InData, Buffer
    <2>. QED BY <2>1, <2>2 DEF IInv
  <1>. QED BY <1>1, <1>2, <1>3, <1>4, <1>5, <1>6 DEF Next

LEMMA IInvHolds == Spec => []IInv
  BY IInvInit, IInvStep, PTL DEF Spec

\* What was parsed, by the outermost parser from what the one it wraps parsed.
LEMMA ParsedIs ==
  ASSUME IInv, at # -1
  PROVE  /\ at \in Nat /\ ParserOK(parser) /\ ValueOK(ParseBase(parser[1], at))
         /\ value = ParseAll(parser, ParseBase(parser[1], at))
         /\ Len(parser) > 1 =>
               /\ ValueOK(Wrapped) /\ WrapperOK(Outer, Len(parser))
               /\ value = ParseWrapped(Wrapped, Outer)
  <1>1. at \in Nat /\ ParserOK(parser)
    BY DataIs DEF IInv
  <1>2. ValueOK(ParseBase(parser[1], at))
    BY <1>1, BaseIsOK DEF IInv, ParserOK
  <1>3. value = ParseAll(parser, ParseBase(parser[1], at))
    BY DEF IInv
  <1>4. ASSUME Len(parser) > 1
        PROVE  ValueOK(Wrapped) /\ WrapperOK(Outer, Len(parser)) /\ value = ParseWrapped(Wrapped, Outer)
    <2>1. ParserOK(Front(parser)) /\ WrapperOK(Last(parser), Len(parser))
      BY <1>1, <1>4, ParserIs
    <2>2. ValueOK(ParseAll(Front(parser), ParseBase(parser[1], at)))
      BY <1>2, <2>1, ParseIsOK
    <2>3. value = ParseWrapped(ParseAll(Front(parser), ParseBase(parser[1], at)), Last(parser))
      BY <1>1, <1>3, <1>4, ParseAllMore DEF ParserOK
    <2>. QED BY <2>1, <2>2, <2>3 DEF Wrapped, Outer
  <1>. QED BY <1>1, <1>2, <1>3, <1>4

LEMMA IInvTypeOK == IInv => TypeOK
  <1>. SUFFICES ASSUME IInv PROVE TypeOK
    OBVIOUS
  <1>1. ValueOK(value)
    <2>1. CASE at = -1
      BY <2>1, OtherIsOK DEF IInv, Null
    <2>2. CASE at # -1
      BY <2>2, ParsedIs, ParseIsOK
    <2>. QED BY <2>1, <2>2
  <1>2. data \in Contents /\ at \in -1..Len(data) /\ ParserOK(parser) /\ Len(parser) <= MaxDepth
    BY DEF IInv
  <1>3. \A i \in 2..Len(parser) :
          /\ parser[i].kind \in Wrappers
          /\ parser[i].kind = "BitField" =>
              i = 2 /\ 0 <= parser[i].start /\ parser[i].start < parser[i].end
                    /\ parser[i].end <= WordBits
    BY <1>2 DEF ParserOK, WrapperOK
  <1>. QED BY <1>1, <1>2, <1>3 DEF TypeOK, ValueOK, IntRange, ParserOK

\* Every reachable state is typed: a parser wraps others as its New allows, and
\* what it parsed is in the range of its type.
THEOREM NumbersTypeCorrect == Spec => []TypeOK
  BY IInvHolds, IInvTypeOK, PTL

\* What wraps a varint parses what it would from null, whatever the data, since
\* to_int64 (utils.go:11-64) knows no VarInt.
THEOREM VarintsAreNeverNumbers == Spec => []VarintsAreNoNumbers
  <1>1. IInv => VarintsAreNoNumbers
    <2>. SUFFICES ASSUME IInv, at # -1, Len(parser) > 1, InData(at),
                         parser[1].kind \in {"leb128", "sleb128"}
                  PROVE  value = ParseAll(parser, Null)
      BY DEF VarintsAreNoNumbers
    <2>1. at \in Nat /\ ParserOK(parser) /\ value = ParseAll(parser, ParseBase(parser[1], at))
      BY ParsedIs
    <2>2. ParseBase(parser[1], at) = ParseVarInt(parser[1].kind, at)
      BY DEF ParseBase
    <2>3. ~IsInt(ParseBase(parser[1], at))
      BY <2>1, <2>2, VarIntIsOK DEF IInv
    <2>4. \A i \in 2..Len(parser) : parser[i].kind \in Wrappers
      BY <2>1 DEF ParserOK, WrapperOK
    <2>. QED BY <2>1, <2>3, <2>4, ParseNoInt DEF ParserOK
  <1>. QED BY <1>1, IInvHolds, PTL

\* An enumeration answers a name given for its number, one of its map before
\* one of its choices, and the number itself only if it has no name
\* (enumeration.go:46-71).
THEOREM EnumerationsNameTheirNumber == Spec => []EnumerationNamesItsNumber
  <1>1. IInv => EnumerationNamesItsNumber
    <2>. DEFINE names == Outer.names
                n == Len(names)
                all == {i \in DOMAIN names : names[i][1] = Given}
                mapped == {i \in all : i > n - Outer.mapped}
    <2>. SUFFICES ASSUME IInv, Parsed("Enumeration"), IsInt(Wrapped)
                  PROVE  IF all = {} THEN value = [type |-> "hex", num |-> Given]
                         ELSE value.name \in {names[i][2] : i \in IF mapped # {} THEN mapped ELSE all}
      BY DEF EnumerationNamesItsNumber
    <2>1. at # -1 /\ Len(parser) > 1 /\ Outer.kind = "Enumeration"
      BY DEF Parsed
    <2>2. value = Enumeration(Outer, Wrapped) /\ WrapperOK(Outer, Len(parser))
      BY <2>1, ParsedIs DEF ParseWrapped
    <2>3. n \in Nat /\ DOMAIN names = 1..n /\ Outer.mapped \in 0..n
      BY <2>1, <2>2 DEF WrapperOK
    <2>4. value = IF all # {} THEN [type |-> "name", name |-> names[Max(all)][2]]
                              ELSE [type |-> "hex", num |-> Given]
      BY <2>2 DEF Enumeration, Given
    <2>5. ASSUME all # {}
          PROVE  value.name \in {names[i][2] : i \in IF mapped # {} THEN mapped ELSE all}
      <3>1. all \subseteq 1..n
        BY <2>3
      <3>. DEFINE m == Max(all)
      <3>2. m \in all /\ \A i \in all : m >= i
        <4>. HIDE DEF all, n
        <4>. QED BY <2>3, <2>5, <3>1, MaxOfNumbers
      <3>3. mapped # {} => m \in mapped
        <4>. HAVE mapped # {}
        <4>1. PICK i \in all : i > n - Outer.mapped
          OBVIOUS
        <4>2. i \in Nat /\ m \in Nat /\ n - Outer.mapped \in Int
          BY <2>3, <3>1, <3>2, <4>1
        <4>3. m > n - Outer.mapped
          <5>. HIDE DEF m, n
          <5>. QED BY <3>2, <4>1, <4>2
        <4>. QED BY <3>2, <4>3
      <3>4. value.name = names[m][2]
        BY <2>4, <2>5
      <3>. HIDE DEF m, all, n
      <3>. QED BY <3>2, <3>3, <3>4
    <2>. QED BY <2>4, <2>5
  <1>. QED BY <1>1, IInvHolds, PTL

\* The quotient of a word by a positive number is a word, nearer to zero.
LEMMA TruncatedIs ==
  ASSUME NEW a \in SignedWords, NEW b \in Nat \ {0}
  PROVE  /\ Quot(a, b) = Truncated(a, b)
         /\ a >= 0 => Truncated(a, b) = a \div b /\ Quot(a, b) \in SignedWords /\ Quot(a, b) >= 0
         /\ a < 0 => Truncated(a, b) = -((-a) \div b)
  <1>. DEFINE h == Bit[WordBits - 1]
  <1>1. a \in Int /\ h \in Nat \ {0} /\ a \in -h..h - 1
    BY WidthIs DEF SignedWords
  <1>2. /\ a >= 0 => Truncated(a, b) = a \div b
        /\ a < 0 => Truncated(a, b) = -((-a) \div b)
    BY <1>1 DEF Truncated, Abs
  <1>3. \A n \in Nat : n \div b \in 0..n
    OBVIOUS
  <1>4. a >= 0 => Truncated(a, b) \in 0..a
    BY <1>1, <1>2, <1>3
  <1>5. a < 0 => Truncated(a, b) \in a..0
    <2>. HAVE a < 0
    <2>1. -a \in Nat /\ (-a) \div b \in 0..-a
      BY <1>1, <1>3
    <2>. DEFINE q == (-a) \div b
    <2>. HIDE DEF q
    <2>2. -q \in a..0
      BY <1>1, <2>1 DEF q
    <2>. QED BY <1>2, <2>2 DEF q
  <1>. DEFINE t == Truncated(a, b)
  <1>. HIDE DEF h, t
  <1>6. t \in -h..h - 1 /\ t \in Int
    BY <1>1, <1>4, <1>5 DEF t
  <1>7. t \in SignedWords
    BY <1>6 DEF SignedWords, h
  <1>8. Signed(t) = t
    BY <1>6, <1>7, SignedIs
  <1>. QED BY <1>1, <1>2, <1>4, <1>7, <1>8 DEF Quot, t

\* Truncated division moves a number that is not divisible towards zero, and
\* its remainder moves it back.
LEMMA TruncatedIsNear ==
  ASSUME NEW a \in SignedWords, NEW b \in Nat \ {0}, NEW s \in Nat, b <= s
  PROVE  (Quot(a, b) * s + Rem(a, b)) \div s = a \div b
  <1>0. a \in Int /\ Quot(a, b) = Truncated(a, b)
    BY TruncatedIs, RangesAre
  <1>1. s \in Nat \ {0}
    OBVIOUS
  <1>2. CASE a >= 0
    <2>. DEFINE q == a \div b
                r == a % b
    <2>1. q \in Int /\ r \in 0..b - 1 /\ a = b * q + r
      BY <1>0, DivIs
    <2>2. Quot(a, b) = q
      BY <1>0, <1>2, TruncatedIs
    <2>. HIDE DEF q, r
    <2>3. Rem(a, b) = r
      BY <1>0, <2>1, <2>2 DEF Rem
    <2>. DEFINE t == q * s + r
    <2>4. t \in Int /\ t = s * q + r /\ r \in 0..s - 1
      BY <2>1
    <2>. HIDE DEF t
    <2>5. t \div s = q
      BY <1>1, <2>1, <2>4, DivUnique
    <2>. QED BY <2>2, <2>3, <2>5 DEF t, q
  <1>3. CASE a < 0
    <2>. DEFINE q == (-a) \div b
                r == (-a) % b
    <2>0. -a \in Int
      BY <1>0
    <2>1. q \in Int /\ r \in 0..b - 1 /\ -a = b * q + r
      BY <2>0, DivIs
    <2>2. Quot(a, b) = -q
      BY <1>0, <1>3, TruncatedIs
    <2>. HIDE DEF q, r
    <2>3. Rem(a, b) = -r
      <3>1. b * (-q) = -(b * q) /\ b * q \in Int
        BY <2>1
      <3>. QED BY <1>0, <2>1, <2>2, <3>1 DEF Rem
    <2>. DEFINE t == (-q) * s + (-r)
    <2>4. t \in Int
      BY <2>1
    <2>5. CASE r = 0
      <3>1. t = s * (-q) + 0 /\ a = b * (-q) + 0 /\ -q \in Int /\ 0 \in 0..s - 1 /\ 0 \in 0..b - 1
        BY <1>0, <1>1, <2>1, <2>5
      <3>. HIDE DEF t
      <3>2. t \div s = -q
        BY <1>1, <2>4, <3>1, DivUnique
      <3>3. a \div b = -q
        BY <1>0, <3>1, DivUnique
      <3>. QED BY <2>2, <2>3, <3>2, <3>3 DEF t
    <2>6. CASE r # 0
      <3>1. -q - 1 \in Int /\ s - r \in 0..s - 1 /\ b - r \in 0..b - 1
        BY <1>1, <2>1, <2>6
      <3>2. t = s * (-q - 1) + (s - r) /\ a = b * (-q - 1) + (b - r)
        BY <1>0, <2>1
      <3>. HIDE DEF t
      <3>3. t \div s = -q - 1
        BY <1>1, <2>4, <3>1, <3>2, DivUnique
      <3>4. a \div b = -q - 1
        BY <1>0, <3>1, <3>2, DivUnique
      <3>. QED BY <2>2, <2>3, <3>3, <3>4 DEF t
    <2>. QED BY <2>5, <2>6
  <1>. QED BY <1>0, <1>2, <1>3

\* A timestamp is in the second its number is in, before 1970 too, and is null
\* only if the year of that second cannot be written (timestamp.go:76-77); a
\* WinFileTime is in its second (timestamp.go:120).
THEOREM TimestampsAreInTheirSecond == Spec => []TimestampIsInItsSecond
  <1>. DEFINE f == Outer.factor
  <1>0. ASSUME IInv, at # -1, Len(parser) > 1, IsInt(Wrapped)
        PROVE  /\ Given \in Int /\ Given \in SignedWords
               /\ Outer.kind = "Timestamp" => value = Timestamp(Outer, Wrapped)
               /\ Outer.kind = "WinFileTime" => value = WinFileTime(Outer, Wrapped)
    <2>1. ValueOK(Wrapped) /\ value = ParseWrapped(Wrapped, Outer)
      BY <1>0, ParsedIs
    <2>2. Given \in Int /\ Given \in SignedWords
      BY <1>0, <2>1, ToInt64Is DEF Given
    <2>. QED BY <2>1, <2>2 DEF ParseWrapped
  <1>1. ASSUME IInv, Parsed("Timestamp"), IsInt(Wrapped), f \in 1..Second
        PROVE  IF Given \div f \in Years THEN value # Null /\ value.ns \div Second = Given \div f
                                         ELSE value = Null
    <2>1. Given \in Int /\ Given \in SignedWords /\ value = Timestamp(Outer, Wrapped)
      BY <1>0, <1>1 DEF Parsed
    <2>. DEFINE ns == Quot(Given, f) * Second + Rem(Given, f)
    <2>2. ns \div Second = Given \div f
      <3>1. f \in Nat \ {0} /\ Second \in Nat /\ f <= Second
        BY <1>1, NumbersAssumption
      <3>. HIDE DEF f
      <3>. QED BY <2>1, <3>1, TruncatedIsNear
    <2>3. value = IF ns \div Second \in Years THEN [type |-> "time", ns |-> ns] ELSE Null
      BY <1>1, <2>1 DEF Timestamp, Time, Given
    <2>. HIDE DEF ns
    <2>4. [type |-> "time", ns |-> ns] # Null
      <3>1. [type |-> "time", ns |-> ns].type # Null.type
        BY DEF Null
      <3>. QED BY <3>1
    <2>. QED BY <2>2, <2>3, <2>4
  <1>2. ASSUME IInv, Parsed("WinFileTime"), IsInt(Wrapped), f > 0, Given >= 0
        PROVE  value.ns = (Given \div (f * Tick) - Epoch) * Second
    <2>1. Given \in Int /\ Given \in SignedWords /\ value = WinFileTime(Outer, Wrapped)
      BY <1>0, <1>2 DEF Parsed
    <2>2. f \in Nat \ {0}
      <3>1. f \in Int
        BY <1>2, ParsedIs DEF Parsed, WrapperOK
      <3>. HIDE DEF f
      <3>. QED BY <1>2, <3>1
    <2>3. Tick \in Nat \ {0} /\ Second \in Nat /\ Epoch \in Nat
      BY NumbersAssumption
    <2>. DEFINE a == Given
    <2>4. value.ns = (Quot(Quot(a, f), Tick) - Epoch) * Second + 0
      BY <1>2, <2>1 DEF WinFileTime, Time, Given
    <2>. HIDE DEF f, a
    <2>5. Quot(a, f) = a \div f /\ a \div f \in Nat /\ a \div f \in SignedWords
      <3>1. a \in SignedWords /\ a >= 0
        BY <1>2, <2>1 DEF a
      <3>2. Quot(a, f) = a \div f /\ Quot(a, f) \in SignedWords /\ Quot(a, f) >= 0
        BY <2>2, <3>1, TruncatedIs
      <3>3. Quot(a, f) \in Int
        BY <3>2, RangesAre
      <3>. QED BY <3>2, <3>3
    <2>6. Quot(Quot(a, f), Tick) = (a \div f) \div Tick
      <3>. DEFINE c == a \div f
      <3>. HIDE DEF c
      <3>1. c \in SignedWords /\ c >= 0
        BY <2>5 DEF c
      <3>2. Quot(c, Tick) = c \div Tick
        BY <2>3, <3>1, TruncatedIs
      <3>. QED BY <2>5, <3>2 DEF c
    <2>7. (a \div f) \div Tick = a \div (f * Tick)
      BY <2>1, <2>2, <2>3, DivTwice DEF a
    <2>8. a \div (f * Tick) \in Int
      <3>1. (a \div f) \div Tick \in Int
        BY <2>3, <2>5
      <3>. QED BY <2>7, <3>1
    <2>9. (a \div (f * Tick) - Epoch) * Second \in Int
      BY <2>3, <2>8
    <2>. QED BY <2>4, <2>6, <2>7, <2>9 DEF a
  <1>3. IInv => TimestampIsInItsSecond
    BY <1>1, <1>2 DEF TimestampIsInItsSecond
  <1>. QED BY <1>3, IInvHolds, PTL

-----------------------------------------------------------------------------
(* Bit fields.                                                             *)

\* The low e bits of a number, and its bits from s to before e.
LEMMA LowBits ==
  ASSUME NEW n \in Int, NEW s \in Nat, NEW e \in Nat, s <= e
  PROVE  /\ (n % Bit[e]) % Bit[s] = n % Bit[s]
         /\ (n % Bit[e]) \div Bit[s] = (n \div Bit[s]) % Bit[e - s]
  <1>1. e - s \in Nat /\ s + (e - s) = e
    OBVIOUS
  <1>2. Bit[e] = Bit[s] * Bit[e - s]
    <2>1. Bit[s + (e - s)] = Bit[s] * Bit[e - s]
      BY <1>1, BitSum
    <2>. QED BY <1>1, <2>1
  <1>3. Bit[s] \in Nat \ {0} /\ Bit[e - s] \in Nat \ {0}
    BY <1>1, BitIs
  <1>4. /\ (n % (Bit[s] * Bit[e - s])) % Bit[s] = n % Bit[s]
        /\ (n % (Bit[s] * Bit[e - s])) \div Bit[s] = (n \div Bit[s]) % Bit[e - s]
    BY <1>3, DivTwice
  <1>. QED BY <1>2, <1>4

\* The low i + 1 bits are the low i and the next.
LEMMA NextBit ==
  ASSUME NEW n \in Int, NEW i \in Nat
  PROVE  /\ n % Bit[i] \in 0..Bit[i] - 1 /\ n % Bit[i + 1] \in Nat
         /\ n % Bit[i + 1] = (n % Bit[i]) + IF (n \div Bit[i]) % 2 = 1 THEN Bit[i] ELSE 0
  <1>. DEFINE b == Bit[i]
              d == (n \div b) % 2
  <1>1. b \in Nat \ {0} /\ Bit[i + 1] = b * 2
    BY BitIs
  <1>2. n % Bit[i + 1] = b * d + (n % b)
    <2>1. 2 \in Nat \ {0}
      OBVIOUS
    <2>. HIDE DEF b
    <2>2. n % (b * 2) = b * ((n \div b) % 2) + (n % b)
      BY <1>1, <2>1, DivTwice
    <2>. QED BY <1>1, <2>2
  <1>3. n % b \in 0..b - 1 /\ n \div b \in Int
    BY <1>1, DivIs
  <1>. HIDE DEF b
  <1>4. d \in {0, 1}
    BY <1>3
  <1>. QED BY <1>1, <1>2, <1>3, <1>4 DEF b

LEMMA MaskedIsSlice ==
  ASSUME NEW p, p.start \in Nat, p.end \in Nat, p.start < p.end, p.end <= WordBits, NEW x \in Int
  PROVE  Masked(p, x) = (Unsigned(x) % Bit[p.end]) - (Unsigned(x) % Bit[p.start])
  <1>. DEFINE u == Unsigned(x)
              a == p.start
              e == p.end
              Low(k) == u % Bit[k]
              Sum(k) == IF k <= a THEN 0 ELSE IF k <= e THEN Low(k) - Low(a) ELSE Low(e) - Low(a)
  <1>0. u \in Int /\ WordBits \in Nat
    BY UnsignedIs, WidthIs
  <1>1. PICK s, f : /\ f = [i \in 1..WordBits |-> MaskBit(p, u, i)]
                    /\ IsSum(s, f, WordBits) /\ Masked(p, x) = s[WordBits]
    BY MaskedIs
  <1>. HIDE DEF u
  <1>2. \A k \in Nat : Low(k) \in Int
                       /\ Low(k + 1) = Low(k) + IF (u \div Bit[k]) % 2 = 1 THEN Bit[k] ELSE 0
    <2>. TAKE k \in Nat
    <2>1. Low(k) \in 0..Bit[k] - 1
          /\ Low(k + 1) = Low(k) + IF (u \div Bit[k]) % 2 = 1 THEN Bit[k] ELSE 0
      BY <1>0, NextBit
    <2>. QED BY <2>1
  <1>3. \A i \in 1..WordBits : s[i] = s[i - 1] + MaskBit(p, u, i)
    BY <1>1 DEF IsSum
  <1>. DEFINE S == {k \in Nat : k <= WordBits => s[k] = Sum(k)}
  <1>4. 0 \in S
    BY <1>1 DEF IsSum
  <1>5. ASSUME NEW k \in Nat, k \in S PROVE k + 1 \in S
    <2>. SUFFICES ASSUME k + 1 <= WordBits PROVE s[k + 1] = Sum(k + 1)
      OBVIOUS
    <2>1. k + 1 \in 1..WordBits /\ k + 1 - 1 = k /\ s[k] = Sum(k)
      BY <1>0, <1>5
    <2>. DEFINE d == IF (u \div Bit[k]) % 2 = 1 THEN Bit[k] ELSE 0
    <2>2. s[k + 1] = Sum(k) + IF k \in a..e - 1 THEN d ELSE 0
      BY <1>3, <2>1 DEF MaskBit
    <2>3. Low(k + 1) = Low(k) + d /\ Low(k) \in Int /\ Low(a) \in Int /\ Low(e) \in Int /\ d \in Int
      BY <1>2, BitIs
    <2>. HIDE DEF d, Low
    <2>4. CASE k < a
      BY <2>2, <2>3, <2>4
    <2>5. CASE k = a
      BY <2>2, <2>3, <2>5
    <2>6. CASE k > a /\ k < e
      BY <2>2, <2>3, <2>6
    <2>7. CASE k > a /\ k = e
      BY <2>2, <2>3, <2>7
    <2>8. CASE k > e
      BY <2>2, <2>3, <2>8
    <2>. QED BY <2>4, <2>5, <2>6, <2>7, <2>8
  <1>6. s[WordBits] = Sum(WordBits)
    <2>1. Nat \subseteq S
      <3>. HIDE DEF S
      <3>. QED BY <1>4, <1>5, SetInduction
    <2>2. WordBits \in S
      <3>. HIDE DEF S
      <3>. QED BY <1>0, <2>1
    <2>. QED BY <1>0, <2>2
  <1>7. Sum(WordBits) = Low(e) - Low(a)
    <2>. HIDE DEF Low
    <2>. QED BY <1>0
  <1>. QED BY <1>1, <1>6, <1>7 DEF u

\* The signed and the unsigned word have the same low bits.
LEMMA SameLowBits ==
  ASSUME NEW n \in Int, NEW e \in Nat, e <= WordBits
  PROVE  Unsigned(n) % Bit[e] = n % Bit[e]
  BY LowBits, WidthIs DEF Unsigned

\* A word without its low a bits is a multiple of Bit[a], signed or not.
LEMMA SliceToTheTop ==
  ASSUME NEW x \in SignedWords, NEW a \in Nat, a < WordBits
  PROVE  Signed(Unsigned(x) - (Unsigned(x) % Bit[a])) \div Bit[a] = x \div Bit[a]
  <1>. DEFINE u == Unsigned(x)
              w == Bit[WordBits]
              h == Bit[WordBits - 1]
              b == Bit[a]
              c == Bit[WordBits - 1 - a]
              q == x \div b
              r == x % b
  <1>1. x \in Int /\ h \in Nat \ {0} /\ w = 2 * h /\ b \in Nat \ {0} /\ -h <= x /\ x < h
    BY WidthIs, BitIs DEF SignedWords
  <1>2. c \in Nat \ {0} /\ h = b * c
    <2>1. WordBits - 1 - a \in Nat /\ a + (WordBits - 1 - a) = WordBits - 1
      BY WidthIs
    <2>2. Bit[a + (WordBits - 1 - a)] = b * c
      BY <2>1, BitSum
    <2>. QED BY <2>1, <2>2, BitIs
  <1>3. u = IF x >= 0 THEN x ELSE x + w
    <2>1. Signed(x) = x
      BY <1>1, SignedIs
    <2>2. Unsigned(x) = IF Signed(x) >= 0 THEN Signed(x) ELSE Signed(x) + Bit[WordBits]
      BY <1>1, SignedIs
    <2>. QED BY <2>1, <2>2
  <1>4. u % b = r
    <2>1. a <= WordBits
      BY WidthIs
    <2>. QED BY <1>1, <2>1, SameLowBits
  <1>5. q \in Int /\ r \in 0..b - 1 /\ x = b * q + r
    BY <1>1, DivIs
  <1>6. -c <= q
    <2>. HIDE DEF b, c, q, r, h, w
    <2>. SUFFICES ASSUME q <= -c - 1 PROVE FALSE
      BY <1>2, <1>5
    <2>1. b * q <= b * (-c - 1)
      BY <1>1, <1>2, <1>5
    <2>2. b * (-c - 1) = -h - b
      BY <1>1, <1>2
    <2>3. b * q \in Int
      BY <1>1, <1>5
    <2>. QED BY <1>1, <1>5, <2>1, <2>2, <2>3
  <1>7. b * q \in Int /\ -h <= b * q /\ b * q < h
    <2>. HIDE DEF b, c, q, r, h, w
    <2>1. b * q \in Int /\ b * q >= b * (-c) /\ b * (-c) = -h
      BY <1>1, <1>2, <1>5, <1>6
    <2>. QED BY <1>1, <1>5, <2>1
  <1>8. b * q \in SignedWords
    <2>. HIDE DEF b, q
    <2>. QED BY <1>1, <1>7 DEF SignedWords
  <1>9. Signed(u - (u % b)) = b * q
    <2>1. u - (u % b) = IF x >= 0 THEN b * q ELSE b * q + w
      <3>. HIDE DEF u, b, q, r, w, h
      <3>. QED BY <1>1, <1>3, <1>4, <1>5, <1>7
    <2>2. Unsigned(b * q) = Unsigned(b * q + w)
      <3>1. (b * q + w) % w = (b * q) % w
        <4>. DEFINE m == b * q
        <4>1. m \in Int /\ w \in Nat \ {0}
          BY <1>1, <1>7
        <4>. HIDE DEF m, w
        <4>2. m \div w \in Int /\ m % w \in 0..w - 1 /\ m = w * (m \div w) + (m % w)
          BY <4>1, DivIs
        <4>3. m + w \in Int /\ m + w = w * (m \div w + 1) + (m % w) /\ m \div w + 1 \in Int
          BY <4>1, <4>2
        <4>4. (m + w) % w = m % w
          BY <4>1, <4>2, <4>3, DivUnique
        <4>. QED BY <4>4 DEF m
      <3>. QED BY <3>1 DEF Unsigned
    <2>3. Signed(u - (u % b)) = Signed(b * q)
      BY <2>1, <2>2 DEF Signed
    <2>. QED BY <1>7, <1>8, <2>3, SignedIs
  <1>10. (b * q) \div b = q
    <2>. DEFINE m == b * q
    <2>1. m \in Int /\ m = b * q + 0 /\ 0 \in 0..b - 1
      BY <1>1, <1>7
    <2>. HIDE DEF m, b, q
    <2>2. m \div b = q
      BY <1>1, <1>5, <2>1, DivUnique
    <2>. QED BY <2>2 DEF m
  <1>. QED BY <1>9, <1>10

\* Below the top bit, the bits from a to before e are those of any number.
LEMMA SliceBelowTheTop ==
  ASSUME NEW x \in Int, NEW a \in Nat, NEW e \in Nat, a < e, e < WordBits
  PROVE  Signed((Unsigned(x) % Bit[e]) - (Unsigned(x) % Bit[a])) \div Bit[a]
           = (x \div Bit[a]) % Bit[e - a]
  <1>. DEFINE n == x % Bit[e]
              h == Bit[WordBits - 1]
              b == Bit[a]
              m == n - (n % b)
  <1>1. Unsigned(x) % Bit[e] = n /\ Unsigned(x) % b = x % b
    <2>1. a <= WordBits /\ e <= WordBits
      BY WidthIs
    <2>. QED BY <2>1, SameLowBits
  <1>2. n % b = x % b /\ n \div b = (x \div b) % Bit[e - a]
    BY LowBits
  <1>3. b \in Nat \ {0} /\ h \in Nat \ {0} /\ n \in 0..Bit[e] - 1 /\ Bit[e] <= h
    <2>1. b \in Nat \ {0} /\ h \in Nat \ {0} /\ Bit[e] \in Nat \ {0}
      BY WidthIs, BitIs
    <2>2. Bit[e] <= Bit[WordBits - 1]
      <3>1. e <= WordBits - 1 /\ WordBits - 1 \in Nat
        BY WidthIs
      <3>. QED BY <3>1, BitGrows
    <2>3. n \in 0..Bit[e] - 1
      BY <2>1, DivIs
    <2>. QED BY <2>1, <2>2, <2>3
  <1>. HIDE DEF n, h, b
  <1>4. n \in Int /\ n \div b \in Int /\ n % b \in 0..b - 1 /\ n = b * (n \div b) + (n % b)
    <2>1. n \in Int
      BY <1>3, WidthIs, BitIs
    <2>. QED BY <1>3, <2>1, DivIs
  <1>5. n \div b >= 0
    BY <1>3
  <1>6. m \in Nat /\ m <= n /\ m = b * (n \div b) + 0
    <2>1. b * (n \div b) >= 0 /\ b * (n \div b) \in Int
      BY <1>3, <1>4, <1>5
    <2>. QED BY <1>4, <2>1
  <1>7. m \in SignedWords
    <2>1. m < h /\ m >= 0
      <3>1. Bit[e] \in Int
        BY BitIs
      <3>. HIDE DEF m
      <3>. QED BY <1>3, <1>4, <1>6, <3>1
    <2>. HIDE DEF m
    <2>. QED BY <1>3, <1>6, <2>1 DEF SignedWords, h
  <1>8. Signed(m) = m
    <2>1. m \in Int
      BY <1>6
    <2>. HIDE DEF m
    <2>. QED BY <1>7, <2>1, SignedIs
  <1>9. m \div b = n \div b
    <2>1. m \in Int /\ 0 \in 0..b - 1
      BY <1>3, <1>6
    <2>. HIDE DEF m
    <2>. QED BY <1>3, <1>4, <1>6, <2>1, DivUnique
  <1>. QED BY <1>1, <1>2, <1>8, <1>9 DEF n, b

\* A bit field is the slice of the word from its start bit to before its end
\* bit, with a sign only if it includes the top bit (bitfield.go:72-76).
THEOREM BitFieldsAreSlices == Spec => []BitFieldIsASlice
  <1>. DEFINE p == Outer
              slice == Given \div Bit[p.start]
  <1>1. ASSUME IInv, Parsed("BitField"), IsInt(Wrapped)
        PROVE  value.num = IF p.end = WordBits THEN slice ELSE slice % Bit[p.end - p.start]
    <2>1. at # -1 /\ Len(parser) > 1 /\ p.kind = "BitField"
      BY <1>1 DEF Parsed
    <2>2. ValueOK(Wrapped) /\ WrapperOK(p, Len(parser)) /\ value = ParseWrapped(Wrapped, p)
      BY <1>1, <2>1, ParsedIs
    <2>3. Given \in SignedWords /\ Given \in Int
      BY <1>1, <2>2, ToInt64Is DEF Given
    <2>4. /\ p.start \in Nat /\ p.end \in Nat /\ p.start < p.end /\ p.end <= WordBits
          /\ p.start < WordBits /\ WordBits \in Nat
      BY <2>1, <2>2, WidthIs DEF WrapperOK
    <2>. DEFINE g == Given
                u == Unsigned(g)
    <2>5. value.num = Signed((u % Bit[p.end]) - (u % Bit[p.start])) \div Bit[p.start]
      <3>1. value = BitField(p, Wrapped)
        BY <2>1, <2>2 DEF ParseWrapped
      <3>2. value.num = Signed(Masked(p, g)) \div Bit[p.start]
        BY <1>1, <3>1 DEF BitField, IntOf, Given
      <3>3. Masked(p, g) = (u % Bit[p.end]) - (u % Bit[p.start])
        <4>. HIDE DEF g
        <4>1. g \in Int
          BY <2>3 DEF g
        <4>. HIDE DEF p
        <4>. QED BY <2>4, <4>1, MaskedIsSlice
      <3>. QED BY <3>2, <3>3
    <2>6. CASE p.end = WordBits
      <3>1. u % Bit[p.end] = u
        <4>1. u \in Words /\ Bit[WordBits] \in Nat \ {0}
          BY <2>3, UnsignedIs, WidthIs
        <4>2. u = Bit[WordBits] * 0 + u /\ u \in Int
          BY <4>1 DEF Words
        <4>. HIDE DEF u
        <4>3. u % Bit[WordBits] = u
          BY <4>1, <4>2, DivUnique DEF Words
        <4>. QED BY <2>6, <4>3
      <3>2. Signed(u - (u % Bit[p.start])) \div Bit[p.start] = slice
        BY <2>3, <2>4, SliceToTheTop
      <3>. QED BY <2>5, <2>6, <3>1, <3>2
    <2>7. CASE p.end # WordBits
      <3>1. p.end < WordBits
        BY <2>4, <2>7
      <3>2. Signed((u % Bit[p.end]) - (u % Bit[p.start])) \div Bit[p.start] = slice % Bit[p.end - p.start]
        BY <2>3, <2>4, <3>1, SliceBelowTheTop
      <3>. QED BY <2>5, <2>7, <3>2
    <2>. QED BY <2>6, <2>7
  <1>2. IInv => BitFieldIsASlice
    BY <1>1 DEF BitFieldIsASlice
  <1>. QED BY <1>2, IInvHolds, PTL

-----------------------------------------------------------------------------
(* What an encoder writes, read back.                                      *)

Place(i) == Bit[Group * i]

LEMMA PlaceIs ==
  /\ Place(0) = 1 /\ Bit[Group] \in Nat /\ Bit[Group] >= 2
  /\ \A i \in Nat : Place(i) \in Nat \ {0} /\ Place(i + 1) = Place(i) * Bit[Group]
  <1>1. Group \in Nat \ {0} /\ Group - 1 \in Nat /\ Group - 1 + 1 = Group
    BY VarIntWidth
  <1>2. Bit[Group - 1 + 1] = 2 * Bit[Group - 1] /\ Bit[Group - 1] \in Nat \ {0}
    BY <1>1, BitIs
  <1>3. Bit[Group] \in Nat /\ Bit[Group] >= 2
    BY <1>1, <1>2
  <1>. QED BY <1>1, <1>3, PowersIs DEF Place

LEMMA EncodingIs ==
  \A n \in Nat :
    /\ Encoding[n] \in Seq(Nat)
    /\ Encoding[n] = IF n < Bit[Group] THEN <<n>>
                     ELSE <<Bit[Group] + (n % Bit[Group])>> \o Encoding[n \div Bit[Group]]
  <1>. DEFINE g == Bit[Group]
              V == Seq(Nat)
              P == 0..g - 1
              B == [n \in Nat |-> <<n>>]
              H == [n \in Nat |-> n \div g]
              G == [x \in Nat \X V |-> <<g + (x[1] % g)>> \o x[2]]
  <1>1. g \in Nat /\ g >= 2
    BY PlaceIs
  <1>. HIDE DEF g
  <1>2. B \in [Nat -> V]
    OBVIOUS
  <1>3. H \in [Nat -> Nat] /\ \A n \in Nat : n \notin P => H[n] < n
    <2>1. \A n \in Nat : n \div g \in Nat /\ (n >= g => n \div g < n)
      BY <1>1
    <2>. QED BY <1>1, <2>1
  <1>4. G \in [Nat \X V -> V]
    <2>1. ASSUME NEW x \in Nat \X V
          PROVE  <<g + (x[1] % g)>> \o x[2] \in V
      <3>1. x[1] \in Nat /\ x[2] \in Seq(Nat)
        OBVIOUS
      <3>2. g + (x[1] % g) \in Nat
        BY <1>1, <3>1
      <3>3. <<g + (x[1] % g)>> \in Seq(Nat)
        BY <3>2
      <3>. QED BY <3>1, <3>3
    <2>. QED BY <2>1
  <1>5. PICK f \in [Nat -> V] : Follows(f, P, B, H, G, Nat)
    <2>. HIDE DEF V, P, B, H, G
    <2>. QED BY <1>2, <1>3, <1>4, Recursion
  <1>6. \A n \in Nat : f[n] = IF n < g THEN <<n>> ELSE <<g + (n % g)>> \o f[n \div g]
    <2>. TAKE n \in Nat
    <2>1. n \in P <=> n < g
      BY <1>1
    <2>2. B[n] = <<n>> /\ H[n] = n \div g
      OBVIOUS
    <2>3. f[n] = IF n \in P THEN B[n] ELSE G[<<n, f[H[n]]>>]
      BY <1>5 DEF Follows
    <2>4. H[n] \in Nat /\ f[H[n]] \in V
      BY <1>3
    <2>5. G[<<n, f[H[n]]>>] = <<g + (n % g)>> \o f[H[n]]
      BY <2>4
    <2>. HIDE DEF P, B, H, G, V
    <2>. QED BY <2>1, <2>2, <2>3, <2>5
  <1>7. f = [n \in Nat |-> IF n < g THEN <<n>> ELSE <<g + (n % g)>> \o f[n \div g]]
    BY <1>6
  <1>8. Encoding = [n \in Nat |-> IF n < g THEN <<n>> ELSE <<g + (n % g)>> \o Encoding[n \div g]]
    BY <1>7 DEF Encoding, g
  <1>9. \A n \in Nat : Encoding[n] = IF n < g THEN <<n>> ELSE <<g + (n % g)>> \o Encoding[n \div g]
    BY <1>8
  <1>10. \A n \in Nat : Encoding[n] \in Seq(Nat)
    <2>. DEFINE T == {n \in Nat : Encoding[n] \notin Seq(Nat)}
    <2>. SUFFICES ASSUME T # {} PROVE FALSE
      OBVIOUS
    <2>1. PICK x \in T : \A y \in T : x <= y
      <3>1. T \subseteq Nat
        OBVIOUS
      <3>. HIDE DEF T
      <3>. QED BY <3>1, LeastNumber
    <2>0. x \in Nat /\ Encoding[x] \notin Seq(Nat)
          /\ \A y \in Nat : y < x => Encoding[y] \in Seq(Nat)
      <3>1. x \in Nat /\ Encoding[x] \notin Seq(Nat)
        BY ONLY x \in T
      <3>2. ASSUME NEW y \in Nat, y < x, Encoding[y] \notin Seq(Nat)
            PROVE  FALSE
        <4>1. y \in T
          BY ONLY <3>2
        <4>2. x <= y
          BY ONLY <2>1, <4>1
        <4>. QED BY ONLY <3>1, <3>2, <4>2
      <3>. QED BY ONLY <3>1, <3>2
    <2>. HIDE DEF T
    <2>2. CASE x < g
      <3>1. <<x>> \in Seq(Nat)
        BY <2>0
      <3>. QED BY <1>9, <2>0, <2>2, <3>1
    <2>3. CASE ~(x < g)
      <3>1. x \div g \in Nat /\ x \div g < x /\ x % g \in Nat
        <4>1. \A n \in Nat : n >= g => n \div g \in Nat /\ n \div g < n /\ n % g \in Nat
          BY ONLY <1>1
        <4>. QED BY ONLY <1>1, <2>0, <2>3, <4>1
      <3>2. Encoding[x \div g] \in Seq(Nat)
        BY <2>0, <3>1
      <3>3. <<g + (x % g)>> \in Seq(Nat)
        <4>1. g + (x % g) \in Nat
          BY ONLY <1>1, <3>1
        <4>. QED BY ONLY <4>1
      <3>4. <<g + (x % g)>> \o Encoding[x \div g] \in Seq(Nat)
        BY <3>2, <3>3
      <3>. QED BY <1>9, <2>0, <2>3, <3>4
    <2>. QED BY <2>2, <2>3
  <1>. QED BY <1>9, <1>10 DEF g

\* The groups of n, of which all but the last continue.
Encodes(E, n) ==
    /\ E \in Seq(Nat) /\ Len(E) >= 1
    /\ \A i \in Nat : i + 1 < Len(E) => E[i + 1] = Bit[Group] + ((n \div Place(i)) % Bit[Group])
    /\ \A i \in Nat : i + 1 = Len(E) => E[i + 1] = n \div Place(i) /\ E[i + 1] < Bit[Group]
                                        /\ (i > 0 => E[i + 1] > 0)

LEMMA EncodingEncodes == \A n \in Nat : Encodes(Encoding[n], n)
  <1>. DEFINE g == Bit[Group]
              T == {n \in Nat : ~Encodes(Encoding[n], n)}
  <1>. SUFFICES ASSUME T # {} PROVE FALSE
    OBVIOUS
  <1>1. PICK n \in T : \A y \in T : n <= y
    <2>1. T \subseteq Nat
      OBVIOUS
    <2>. HIDE DEF T
    <2>. QED BY <2>1, LeastNumber
  <1>2. g \in Nat /\ g >= 2 /\ n \in Nat /\ Place(0) = 1 /\ n \div Place(0) = n
    BY PlaceIs
  <1>. DEFINE E == Encoding[n]
  <1>. HIDE DEF g
  <1>3. CASE n < g
    <2>1. E = <<n>> /\ Len(E) = 1 /\ E[1] = n /\ E \in Seq(Nat)
      <3>1. E = <<n>>
        BY <1>2, <1>3, EncodingIs DEF g
      <3>. HIDE DEF E
      <3>. QED BY <1>2, <3>1
    <2>. HIDE DEF E
    <2>2. \A i \in Nat : ~(i + 1 < Len(E)) /\ (i + 1 = Len(E) => i = 0)
      BY <2>1
    <2>3. Encodes(E, n)
      BY <1>2, <1>3, <2>1, <2>2 DEF Encodes, g
    <2>. QED BY <2>3 DEF E
  <1>4. CASE ~(n < g)
    <2>. DEFINE m == n \div g
                F == Encoding[m]
                L == Len(F)
    <2>1. m \in Nat /\ m < n /\ m > 0 /\ n % g \in Nat
      BY <1>2, <1>4
    <2>2. Encodes(F, m)
      BY <1>1, <2>1
    <2>3. E = <<g + (n % g)>> \o F
      BY <1>2, <1>4, EncodingIs DEF g
    <2>4. \A i \in Nat : m \div Place(i) = n \div Place(i + 1)
      <3>. TAKE i \in Nat
      <3>1. Place(i) \in Nat \ {0} /\ Place(i + 1) = Place(i) * g /\ g \in Nat \ {0}
        BY <1>2, PlaceIs DEF g
      <3>2. (n \div g) \div Place(i) = n \div (g * Place(i))
        <4>. DEFINE b == Place(i)
        <4>1. n \in Int /\ g \in Nat \ {0} /\ b \in Nat \ {0}
          BY <1>2, <3>1
        <4>. HIDE DEF b
        <4>2. (n \div g) \div b = n \div (g * b)
          BY ONLY <4>1, DivTwice
        <4>. QED BY <4>2 DEF b
      <3>3. g * Place(i) = Place(i) * g
        BY <3>1
      <3>. QED BY <3>1, <3>2, <3>3
    <2>. HIDE DEF m, F, E
    <2>5. F \in Seq(Nat) /\ L \in Nat /\ L >= 1
      BY <2>2 DEF Encodes
    <2>6. Len(E) = L + 1 /\ E[1] = g + (n % g) /\ E \in Seq(Nat) /\ \A i \in 1..L : E[i + 1] = F[i]
      <3>1. g + (n % g) \in Nat
        BY <1>2, <2>1
      <3>. HIDE DEF L
      <3>2. <<g + (n % g)>> \in Seq(Nat) /\ Len(<<g + (n % g)>>) = 1
        BY <3>1
      <3>. QED BY <2>3, <2>5, <3>2 DEF L
    <2>. HIDE DEF L
    <2>7. ASSUME NEW i \in Nat, i + 1 < Len(E)
          PROVE  E[i + 1] = g + ((n \div Place(i)) % g)
      <3>1. CASE i = 0
        BY <1>2, <2>6, <3>1
      <3>2. CASE i # 0
        <4>. DEFINE j == i - 1
        <4>1. j \in Nat /\ j + 1 = i /\ i \in 1..L /\ j + 1 < L
          BY <2>5, <2>6, <2>7, <3>2
        <4>2. E[i + 1] = F[i]
          BY <2>6, <4>1
        <4>. HIDE DEF j
        <4>3. F[j + 1] = g + ((m \div Place(j)) % g)
          BY <2>2, <4>1 DEF Encodes, L, g
        <4>4. m \div Place(j) = n \div Place(i)
          BY <2>4, <4>1
        <4>. QED BY <4>1, <4>2, <4>3, <4>4
      <3>. QED BY <3>1, <3>2
    <2>8. ASSUME NEW i \in Nat, i + 1 = Len(E)
          PROVE  E[i + 1] = n \div Place(i) /\ E[i + 1] < g /\ E[i + 1] > 0
      <3>. DEFINE j == i - 1
      <3>1. j \in Nat /\ j + 1 = i /\ i = L /\ i \in 1..L
        BY <2>5, <2>6, <2>8
      <3>2. E[i + 1] = F[i]
        BY <2>6, <3>1
      <3>. HIDE DEF j
      <3>3. F[j + 1] = m \div Place(j) /\ F[j + 1] < g /\ (j > 0 => F[j + 1] > 0)
        BY <2>2, <3>1 DEF Encodes, L, g
      <3>4. m \div Place(j) = n \div Place(i)
        BY <2>4, <3>1
      <3>5. j = 0 => F[j + 1] > 0
        <4>1. m \div Place(0) = m
          BY <1>2, <2>1
        <4>. QED BY <2>1, <3>3, <4>1
      <3>6. j = 0 \/ j > 0
        BY <3>1
      <3>. QED BY <3>1, <3>2, <3>3, <3>4, <3>5, <3>6
    <2>9. Encodes(E, n)
      <3>1. Len(E) >= 1
        BY <2>5, <2>6
      <3>. QED BY <2>6, <2>7, <2>8, <3>1 DEF Encodes, g
    <2>. QED BY <2>9 DEF E
  <1>. QED BY <1>3, <1>4

\* A number of a word takes no more groups than are read.
LEMMA EncodingFits ==
  ASSUME NEW n \in Words, NEW E, Encodes(E, n)
  PROVE  Len(E) \in 1..Cap
  <1>. DEFINE l == Len(E) - 1
  <1>1. l \in Nat /\ l + 1 = Len(E) /\ n \in Nat /\ n < Bit[WordBits]
    BY WidthIs DEF Encodes, Words
  <1>. SUFFICES ASSUME l >= Cap PROVE FALSE
    BY <1>1, VarIntWidth
  <1>2. E[l + 1] = n \div Place(l) /\ E[l + 1] > 0
    <2>1. l > 0
      BY <1>1, VarIntWidth
    <2>. HIDE DEF l
    <2>. QED BY <1>1, <2>1 DEF Encodes
  <1>. HIDE DEF l
  <1>3. Place(l) \in Nat \ {0} /\ Place(l) <= n
    <2>1. Place(l) \in Nat \ {0}
      BY <1>1, PlaceIs
    <2>. DEFINE b == Place(l)
    <2>2. b \in Nat \ {0} /\ n \div b > 0
      BY <1>2, <2>1
    <2>. HIDE DEF b
    <2>3. b <= n
      BY <1>1, <2>2
    <2>. QED BY <2>1, <2>3 DEF b
  <1>4. Group * l >= WordBits /\ Group * l \in Nat
    <2>1. Group \in Nat \ {0} /\ Cap \in Nat \ {0} /\ Group * Cap >= WordBits /\ WordBits \in Nat
      BY VarIntWidth, WidthIs
    <2>. DEFINE a == Group
                c == Cap
    <2>2. a \in Nat \ {0} /\ c \in Nat \ {0} /\ a * c >= WordBits /\ l >= c
      BY <2>1
    <2>. HIDE DEF a, c
    <2>3. a * l \in Nat /\ a * c \in Nat /\ a * l >= a * c
      BY <1>1, <2>2
    <2>. QED BY <2>1, <2>2, <2>3 DEF a
  <1>5. Bit[WordBits] <= Place(l)
    BY <1>4, WidthIs, BitGrows DEF Place
  <1>. QED BY <1>1, <1>3, <1>5, WidthIs

LEMMA ReadsBack ==
  ASSUME NEW n \in Words, NEW E, Encodes(E, n),
         NEW buf, \A i \in 1..Cap : buf[i] \in Nat, \A i \in 1..Len(E) : buf[i] = E[i]
  PROVE  Groups(buf) = Len(E) /\ Base(buf) = n
  <1>. DEFINE g == Bit[Group]
              L == Len(E)
  <1>1. L \in 1..Cap /\ n \in Nat /\ g \in Nat \ {0} /\ Cap \in Nat
    BY EncodingFits, VarIntWidth DEF Words
  <1>. HIDE DEF g, L
  <1>2. \A i \in Nat : i + 1 < L => buf[i + 1] = g + ((n \div Place(i)) % g)
    <2>. TAKE i \in Nat
    <2>. HAVE i + 1 < L
    <2>1. i + 1 \in 1..L
      BY <1>1
    <2>. QED BY <2>1 DEF Encodes, g, L
  <1>. DEFINE l == L - 1
  <1>3. l \in Nat /\ l + 1 = L /\ L \in 1..L
    BY <1>1
  <1>. HIDE DEF l
  <1>4. buf[L] = n \div Place(l) /\ buf[L] < g
    BY <1>3 DEF Encodes, g, L
  <1>5. \A i \in Nat : Place(i) \in Nat \ {0} /\ Place(i + 1) = Place(i) * g /\ n \div Place(i) \in Nat
    <2>. TAKE i \in Nat
    <2>. DEFINE b == Place(i)
    <2>1. b \in Nat \ {0} /\ Place(i + 1) = b * g
      BY PlaceIs DEF g
    <2>. HIDE DEF b
    <2>2. n \div b \in Nat
      BY <1>1, <2>1
    <2>. QED BY <2>1, <2>2 DEF b
  <1>6. Groups(buf) = L
    <2>1. L \in LastGroups(buf)
      <3>1. ~Continues(buf[L])
        <4>1. buf[L] \in Nat
          BY <1>1
        <4>. QED BY <1>1, <1>4, <4>1 DEF Continues, g
      <3>. QED BY <1>1, <3>1 DEF LastGroups
    <2>2. ASSUME NEW i \in LastGroups(buf), i < L
          PROVE  FALSE
      <3>1. i \in 1..Cap /\ i # Cap
        BY <1>1, <2>2 DEF LastGroups
      <3>2. ~Continues(buf[i])
        BY <2>2, <3>1 DEF LastGroups
      <3>. DEFINE j == i - 1
      <3>3. j \in Nat /\ j + 1 = i
        BY <3>1
      <3>. HIDE DEF j
      <3>4. buf[i] = g + ((n \div Place(j)) % g)
        BY <1>2, <2>2, <3>3
      <3>5. (n \div Place(j)) % g \in Nat
        <4>1. n \div Place(j) \in Int
          BY <1>5, <3>3
        <4>. QED BY <1>1, <4>1, DivIs
      <3>. QED BY <1>1, <3>2, <3>4, <3>5 DEF Continues, g
    <2>3. Groups(buf) \in LastGroups(buf) /\ Groups(buf) \in Nat /\ Groups(buf) <= L
      BY <1>1, <2>1, GroupsIs
    <2>. QED BY <1>1, <2>2, <2>3
  <1>7. PICK s, f : /\ f = [i \in 1..L |-> GroupOf(buf, i)]
                    /\ IsSum(s, f, L) /\ Base(buf) = Unsigned(s[L])
    BY <1>6, BaseIs
  <1>8. s[0] = 0 /\ \A i \in Nat : i + 1 <= L => s[i + 1] = s[i] + (buf[i + 1] % g) * Place(i)
    <2>1. s[0] = 0 /\ \A i \in 1..L : s[i] = s[i - 1] + f[i]
      BY <1>7 DEF IsSum
    <2>2. ASSUME NEW i \in Nat, i + 1 <= L
          PROVE  s[i + 1] = s[i] + (buf[i + 1] % g) * Place(i)
      <3>1. i + 1 \in 1..L /\ i + 1 - 1 = i
        BY <1>1, <2>2
      <3>2. s[i + 1] = s[i] + f[i + 1] /\ f[i + 1] = GroupOf(buf, i + 1)
        BY <1>7, <2>1, <3>1
      <3>3. GroupOf(buf, i + 1) = (buf[i + 1] % g) * Place(i)
        BY <3>1 DEF GroupOf, Place, g
      <3>. QED BY <3>2, <3>3
    <2>. QED BY <2>1, <2>2
  <1>. DEFINE S == {i \in Nat : i < L => s[i] = n % Place(i)}
  <1>9. 0 \in S
    <2>1. n % 1 = 0
      BY <1>1
    <2>. QED BY <1>8, <2>1, PlaceIs
  <1>10. ASSUME NEW i \in Nat, i \in S PROVE i + 1 \in S
    <2>. SUFFICES ASSUME i + 1 < L PROVE s[i + 1] = n % Place(i + 1)
      OBVIOUS
    <2>. DEFINE b == Place(i)
                d == n \div b
    <2>1. b \in Nat \ {0} /\ Place(i + 1) = b * g /\ d \in Nat
      BY <1>5
    <2>2. s[i] = n % b
      BY <1>1, <1>10
    <2>3. s[i + 1] = s[i] + (buf[i + 1] % g) * b /\ buf[i + 1] = g + (d % g)
      BY <1>1, <1>2, <1>8
    <2>4. n % (b * g) = b * (d % g) + (n % b)
      <3>. HIDE DEF b
      <3>1. n \in Int /\ b \in Nat \ {0} /\ g \in Nat \ {0}
        BY <1>1, <2>1
      <3>2. n % (b * g) = b * ((n \div b) % g) + (n % b)
        BY ONLY <3>1, DivTwice
      <3>. QED BY <3>2
    <2>. HIDE DEF b, d
    <2>5. d % g \in 0..g - 1
      BY <1>1, <2>1
    <2>6. buf[i + 1] % g = d % g
      <3>. DEFINE r == d % g
                  m == g + r
      <3>1. m \in Int /\ m = g * 1 + r /\ r \in 0..g - 1
        BY <1>1, <2>5
      <3>. HIDE DEF m, r
      <3>2. m % g = r
        BY <1>1, <3>1, DivUnique
      <3>. QED BY <2>3, <3>2 DEF m, r
    <2>7. n % b \in Int /\ (d % g) * b = b * (d % g) /\ b * (d % g) \in Int
      BY <1>1, <2>1, <2>5
    <2>. QED BY <2>1, <2>2, <2>3, <2>4, <2>6, <2>7
  <1>11. s[l] = n % Place(l)
    <2>1. Nat \subseteq S
      <3>. HIDE DEF S
      <3>. QED BY <1>9, <1>10, SetInduction
    <2>2. l \in S /\ l < L
      <3>. HIDE DEF S
      <3>. QED BY <1>1, <1>3, <2>1
    <2>. QED BY <2>2
  <1>12. s[L] = n
    <2>. DEFINE b == Place(l)
                d == n \div b
    <2>1. b \in Nat \ {0} /\ d \in Nat /\ d < g /\ buf[L] = d
      BY <1>3, <1>4, <1>5
    <2>2. s[L] = s[l] + (buf[l + 1] % g) * b
      BY <1>1, <1>3, <1>8
    <2>3. n \div b = d /\ s[l] = n % b
      BY <1>11
    <2>. HIDE DEF b, d
    <2>4. d % g = d
      <3>1. d \in Int /\ d = g * 0 + d /\ d \in 0..g - 1 /\ 0 \in Int
        BY <1>1, <2>1
      <3>. QED BY <1>1, <3>1, DivUnique
    <2>5. s[L] = (n % b) + d * b
      BY <1>3, <2>1, <2>2, <2>3, <2>4
    <2>6. n = b * d + (n % b) /\ n % b \in Int
      <3>1. n \in Int /\ b \in Nat \ {0}
        BY <1>1, <2>1
      <3>2. n = b * (n \div b) + (n % b) /\ n % b \in 0..b - 1
        BY ONLY <3>1, DivIs
      <3>. QED BY <2>3, <3>1, <3>2
    <2>7. d * b = b * d /\ b * d \in Int
      BY <2>1
    <2>. QED BY <2>5, <2>6, <2>7
  <1>13. Unsigned(n) = n
    <2>1. Bit[WordBits] \in Nat \ {0} /\ n \in 0..Bit[WordBits] - 1
      BY WidthIs DEF Words
    <2>. DEFINE w == Bit[WordBits]
    <2>. HIDE DEF w
    <2>2. w \in Nat \ {0} /\ n \in 0..w - 1 /\ n = w * 0 + n
      BY <1>1, <2>1 DEF w
    <2>3. n % w = n
      <3>1. n \in Int /\ 0 \in Int
        BY <1>1
      <3>. QED BY ONLY <2>2, <3>1, DivUnique
    <2>. QED BY <2>3 DEF Unsigned, w
  <1>. QED BY <1>6, <1>7, <1>12, <1>13 DEF L

\* A varint reads back what an encoder wrote, up to the largest word, and takes
\* as many bytes, whatever follows them (varint.go:69-110); a sleb128 is the
\* same word with a sign.
THEOREM VarintsAreReadBack == Spec => []VarintsReadBack
  <1>1. ASSUME IInv, at # -1, value.type \in {"leb128", "sleb128"}, NEW n \in Words,
               IsPrefix(Encodings[n], SubSeq(data, at + 1, Len(data)))
        PROVE  /\ value.size = Len(Encodings[n])
               /\ value.num = IF value.type = "sleb128" THEN Signed(n) ELSE n
    <2>. DEFINE E == Encodings[n]
                buf == Buffer(at, Cap)
                L == Len(E)
    <2>1. at \in Nat /\ data \in Seq(Byte) /\ at <= Len(data) /\ ParserOK(parser)
          /\ data \in Contents
      BY <1>1, ParsedIs, NumbersAssumption DEF IInv, Byte
    <2>2. Encodes(E, n) /\ E \in Seq(Nat) /\ L \in 1..Cap
      <3>1. Encodes(E, n)
        BY EncodingEncodes DEF Encodings, Words
      <3>. HIDE DEF E
      <3>. QED BY <3>1, EncodingFits DEF Encodes
    <2>3. value = ParseBase(parser[1], at) /\ parser[1].kind \in Kinds
      <3>1. Len(parser) = 1
        <4>1. ParserOK(parser) /\ ValueOK(ParseBase(parser[1], at))
              /\ value = ParseAll(parser, ParseBase(parser[1], at))
          BY <1>1, ParsedIs
        <4>2. ~(Len(parser) > 1)
          BY <1>1, <4>1, ParseIsOK
        <4>3. Len(parser) \in Nat \ {0}
          BY <4>1, ParserIs
        <4>. DEFINE l == Len(parser)
        <4>4. l \in Nat \ {0} /\ ~(l > 1)
          BY <4>2, <4>3
        <4>. HIDE DEF l
        <4>5. l = 1
          BY ONLY <4>4
        <4>. QED BY <4>5 DEF l
      <3>. QED BY <1>1, <2>1, <3>1, ParsedIs, ParseAllOne, NumbersAssumption DEF ParserOK
    <2>. DEFINE t == parser[1].kind
    <2>4. t \in {"leb128", "sleb128"} /\ value = ParseVarInt(t, at)
      <3>1. t # "int"
        <4>. SUFFICES ASSUME t = "int" PROVE FALSE
          OBVIOUS
        <4>1. value = ParseInt(parser[1], at)
          BY <2>3 DEF ParseBase
        <4>2. value.type = "int"
          BY <4>1 DEF ParseInt, IntOf
        <4>. QED BY <1>1, <4>2
      <3>2. t # "string"
        <4>. SUFFICES ASSUME t = "string" PROVE FALSE
          OBVIOUS
        <4>1. value = [type |-> "string"]
          BY <2>3 DEF ParseBase
        <4>. QED BY <1>1, <4>1
      <3>3. t \in {"leb128", "sleb128"}
        BY <2>3, <3>1, <3>2 DEF Kinds
      <3>. QED BY <2>3, <3>3 DEF ParseBase
    <2>5. value = VarInt(t, IF t = "sleb128" THEN Signed(Base(buf)) ELSE Base(buf), Groups(buf))
      <3>1. InData(at)
        BY <1>1, <2>4 DEF ParseVarInt, IntOf
      <3>. QED BY <2>4, <3>1 DEF ParseVarInt
    <2>6. \A i \in 1..Cap : buf[i] \in Nat
      BY <2>1, BufferIs, VarIntWidth
    <2>7. \A i \in 1..L : buf[i] = E[i]
      <3>. DEFINE d == SubSeq(data, at + 1, Len(data))
      <3>1. Len(d) = Len(data) - at /\ \A i \in 1..Len(data) - at : d[i] = data[at + i]
        BY <2>1
      <3>2. L <= Len(d) /\ SubSeq(E, 1, L) = SubSeq(d, 1, L)
        BY <1>1 DEF IsPrefix
      <3>3. d \in Seq(Byte)
        BY <2>1
      <3>. HIDE DEF d, E
      <3>4. \A i \in 1..L : SubSeq(E, 1, L)[i] = E[i] /\ SubSeq(d, 1, L)[i] = d[i]
        BY <2>2, <3>2, <3>3
      <3>5. \A i \in 1..L : E[i] = d[i]
        BY <3>2, <3>4
      <3>6. \A i \in 1..L : i \in 1..Cap /\ i \in 1..Len(data) - at /\ at + i <= Len(data)
        BY <2>1, <2>2, <3>1, <3>2, VarIntWidth
      <3>. QED BY <3>1, <3>5, <3>6 DEF Buffer
    <2>. HIDE DEF E, buf
    <2>8. Groups(buf) = L /\ Base(buf) = n
      BY <2>2, <2>6, <2>7, ReadsBack
    <2>9. value.type = t
      BY <2>5 DEF VarInt
    <2>. QED BY <2>5, <2>8, <2>9 DEF VarInt, E
  <1>2. IInv => VarintsReadBack
    BY <1>1 DEF VarintsReadBack
  <1>. QED BY <1>2, IInvHolds, PTL

-----------------------------------------------------------------------------
(* Flags.                                                                  *)

LEMMA SequenceOfSet ==
  ASSUME NEW S, IsFiniteSet(S)
  PROVE  LET q == SetToSeq(S)
             n == Cardinality(S)
         IN  /\ n \in Nat /\ q \in [1..n -> S] /\ Len(q) = n
             /\ \A i, j \in 1..n : q[i] = q[j] => i = j
             /\ \A x \in S : \E i \in 1..n : q[i] = x
  <1>. DEFINE q == SetToSeq(S)
              n == Cardinality(S)
  <1>1. n \in Nat /\ \E f \in [1..n -> S] : IsInjective(f)
    BY FS_CardinalityType DEF ExistsBijection, Bijection, Injection
  <1>2. q \in [1..n -> S] /\ IsInjective(q)
    BY <1>1 DEF SetToSeq
  <1>3. q \in Injection(1..n, S)
    BY <1>2 DEF Injection
  <1>4. Cardinality(1..n) = n
    BY <1>1, FS_Interval
  <1>5. q \in Surjection(1..n, S)
    BY <1>3, <1>4, FS_Injection
  <1>. HIDE DEF q, n
  <1>6. Len(q) = n
    BY <1>1, <1>2
  <1>7. \A i, j \in 1..n : q[i] = q[j] => i = j
    BY <1>2 DEF IsInjective
  <1>8. \A x \in S : \E i \in 1..n : q[i] = x
    BY <1>5 DEF Surjection
  <1>. QED BY <1>1, <1>2, <1>6, <1>7, <1>8 DEF q, n

\* The elements of a finite set, counted by their name.
LEMMA CountedByName ==
  ASSUME NEW D, IsFiniteSet(D), NEW N, IsFiniteSet(N), NEW name \in [D -> N],
         NEW count, \A x \in N : count[x] = Cardinality({i \in D : name[i] = x})
  PROVE  LET q == SetToSeq(N)
         IN  SumTo([j \in DOMAIN q |-> count[q[j]]], Len(q)) = Cardinality(D)
  <1>. DEFINE q == SetToSeq(N)
              n == Cardinality(N)
              f == [j \in DOMAIN q |-> count[q[j]]]
              Of(x) == {i \in D : name[i] = x}
              UpTo(k) == {i \in D : \E j \in 1..k : name[i] = q[j]}
  <1>1. /\ n \in Nat /\ q \in [1..n -> N] /\ Len(q) = n
        /\ \A i, j \in 1..n : q[i] = q[j] => i = j
        /\ \A x \in N : \E i \in 1..n : q[i] = x
    BY SequenceOfSet
  <1>. HIDE DEF q, n
  <1>2. \A T \in SUBSET D : IsFiniteSet(T) /\ Cardinality(T) \in Nat
    BY FS_Subset, FS_CardinalityType
  <1>3. \A j \in 1..n : f[j] = Cardinality(Of(q[j])) /\ f[j] \in Int
    <2>. TAKE j \in 1..n
    <2>1. f[j] = Cardinality(Of(q[j]))
      BY <1>1
    <2>2. Of(q[j]) \in SUBSET D
      OBVIOUS
    <2>. HIDE DEF f, Of
    <2>. QED BY <1>2, <2>1, <2>2
  <1>. HIDE DEF f
  <1>4. PICK s : IsSum(s, f, n)
    BY <1>1, <1>3, SumIs
  <1>5. s[0] = 0 /\ \A j \in 1..n : s[j] = s[j - 1] + f[j]
    BY <1>4 DEF IsSum
  <1>. DEFINE S == {k \in Nat : k <= n => s[k] = Cardinality(UpTo(k))}
  <1>6. 0 \in S
    <2>1. UpTo(0) = {}
      OBVIOUS
    <2>2. Cardinality({}) = 0
      BY FS_EmptySet
    <2>. HIDE DEF UpTo
    <2>. QED BY <1>5, <2>1, <2>2
  <1>7. ASSUME NEW k \in Nat, k \in S PROVE k + 1 \in S
    <2>. SUFFICES ASSUME k + 1 <= n PROVE s[k + 1] = Cardinality(UpTo(k + 1))
      OBVIOUS
    <2>1. k + 1 \in 1..n /\ k + 1 - 1 = k /\ k <= n /\ \A j \in 1..k : j \in 1..n /\ j # k + 1
      BY <1>1
    <2>2. s[k] = Cardinality(UpTo(k))
      BY <1>7, <2>1
    <2>3. s[k + 1] = s[k] + Cardinality(Of(q[k + 1]))
      BY <1>3, <1>5, <2>1
    <2>4. UpTo(k + 1) = UpTo(k) \cup Of(q[k + 1])
      <3>1. \A j \in 1..k + 1 : j \in 1..k \/ j = k + 1
        OBVIOUS
      <3>2. \A j \in 1..k : j \in 1..k + 1
        OBVIOUS
      <3>. QED BY <2>1, <3>1, <3>2
    <2>5. UpTo(k) \cap Of(q[k + 1]) = {}
      BY <1>1, <2>1
    <2>6. UpTo(k) \in SUBSET D /\ Of(q[k + 1]) \in SUBSET D
      OBVIOUS
    <2>7. Cardinality({}) = 0
      BY FS_EmptySet
    <2>. HIDE DEF UpTo, Of
    <2>. DEFINE a == UpTo(k)
                b == Of(q[k + 1])
    <2>8. IsFiniteSet(a) /\ IsFiniteSet(b) /\ a \cap b = {}
          /\ Cardinality(a) \in Nat /\ Cardinality(b) \in Nat
      BY <1>2, <2>5, <2>6
    <2>. HIDE DEF a, b
    <2>9. Cardinality(a \cup b) = Cardinality(a) + Cardinality(b) - Cardinality(a \cap b)
      BY <2>8, FS_Union
    <2>10. Cardinality(a \cup b) = Cardinality(a) + Cardinality(b)
      <3>1. Cardinality(a \cap b) = 0
        BY <2>7, <2>8
      <3>. DEFINE x == Cardinality(a)
                  y == Cardinality(b)
      <3>2. x \in Nat /\ y \in Nat /\ Cardinality(a \cup b) = x + y - 0
        BY <2>8, <2>9, <3>1
      <3>. HIDE DEF x, y
      <3>3. x + y - 0 = x + y
        BY <3>2
      <3>. QED BY <3>2, <3>3 DEF x, y
    <2>. QED BY <2>2, <2>3, <2>4, <2>10 DEF a, b
  <1>8. s[n] = Cardinality(UpTo(n))
    <2>1. Nat \subseteq S
      <3>. HIDE DEF S
      <3>. QED BY <1>6, <1>7, SetInduction
    <2>2. n \in S
      <3>. HIDE DEF S
      <3>. QED BY <1>1, <2>1
    <2>. QED BY <1>1, <2>2
  <1>9. UpTo(n) = D
    BY <1>1
  <1>10. SumTo(f, n) = s[n]
    BY <1>4 DEF IsSum
  <1>. HIDE DEF UpTo
  <1>. QED BY <1>1, <1>8, <1>9, <1>10 DEF f, q

\* A name that flags answer is that of a bit that is set, and each set bit is
\* answered as often as it was given a name (flags.go:44-58).
THEOREM FlagsNameTheBitsSet == Spec => []FlagsNameSetBits
  <1>. DEFINE bits == Outer.bits
              set == {i \in DOMAIN bits : IsSet(Given, bits[i][2])}
              names == SetToSeq(DOMAIN value.count)
  <1>1. ASSUME IInv, Parsed("Flags"), IsInt(Wrapped)
        PROVE  /\ \A n \in DOMAIN value.count : value.count[n] > 0 => n \in {bits[i][1] : i \in set}
               /\ SumTo([j \in DOMAIN names |-> value.count[names[j]]], Len(names)) = Cardinality(set)
    <2>. DEFINE Same(b) == {i \in DOMAIN bits : bits[i][2] = b}
                NameOf(b) == bits[Max(Same(b))][1]
                Listed(n) == {i \in DOMAIN bits : IsSet(Given, bits[i][2]) /\ NameOf(bits[i][2]) = n}
                N == {bits[i][1] : i \in DOMAIN bits}
                count == [n \in N |-> Cardinality(Listed(n))]
                name == [i \in set |-> NameOf(bits[i][2])]
    <2>1. at # -1 /\ Len(parser) > 1 /\ Outer.kind = "Flags"
      BY <1>1 DEF Parsed
    <2>2. WrapperOK(Outer, Len(parser)) /\ value = Flags(Outer, Wrapped)
      BY <1>1, <2>1, ParsedIs DEF ParseWrapped
    <2>3. PICK m \in Nat : DOMAIN bits = 1..m
      BY <2>1, <2>2 DEF WrapperOK
    <2>4. value.count = count
      BY <1>1, <2>2 DEF Flags, Given
    <2>5. \A i \in set : \E j \in set : bits[j][1] = name[i]
      <3>. TAKE i \in set
      <3>. DEFINE S == Same(bits[i][2])
                  j == Max(S)
      <3>1. i \in S /\ S \subseteq 1..m
        BY <2>3
      <3>2. j \in S
        <4>. HIDE DEF S
        <4>. QED BY <3>1, MaxOfNumbers
      <3>3. bits[j][2] = bits[i][2] /\ j \in DOMAIN bits
        <4>. HIDE DEF j
        <4>. QED BY <3>2
      <3>4. name[i] = bits[j][1]
        OBVIOUS
      <3>. HIDE DEF j
      <3>5. j \in set
        BY <3>3
      <3>. QED BY <3>4, <3>5
    <2>6. name \in [set -> N]
      <3>1. \A i \in set : name[i] \in N
        <4>. TAKE i \in set
        <4>1. PICK j \in set : bits[j][1] = name[i]
          BY <2>5
        <4>. HIDE DEF name
        <4>. QED BY <4>1
      <3>2. name = [i \in set |-> name[i]]
        OBVIOUS
      <3>. HIDE DEF name, N, set
      <3>. QED BY <3>1, <3>2
    <2>7. \A n : Listed(n) = {i \in set : name[i] = n}
      <3>. HIDE DEF NameOf
      <3>. QED OBVIOUS
    <2>8. \A n \in N : count[n] = Cardinality({i \in set : name[i] = n})
      <3>1. \A n \in N : count[n] = Cardinality(Listed(n))
        OBVIOUS
      <3>. HIDE DEF Listed, N, count, name, set
      <3>. QED BY <2>7, <3>1
    <2>9. DOMAIN count = N
      OBVIOUS
    <2>10. IsFiniteSet(1..m)
      BY FS_Interval
    <2>11. IsFiniteSet(set)
      <3>1. set \in SUBSET (1..m)
        BY <2>3
      <3>. HIDE DEF set
      <3>. QED BY <2>10, <3>1, FS_Subset
    <2>12. IsFiniteSet(N)
      <3>. DEFINE h == [i \in 1..m |-> bits[i][1]]
      <3>1. h \in Surjection(1..m, N)
        BY <2>3 DEF Surjection
      <3>. HIDE DEF h, N
      <3>. QED BY <2>10, <3>1, FS_Surjection
    <2>. HIDE DEF count, Listed, Same
    <2>13. SumTo([j \in DOMAIN names |-> value.count[names[j]]], Len(names)) = Cardinality(set)
      <3>. HIDE DEF N, name, set
      <3>1. LET q == SetToSeq(N) IN SumTo([j \in DOMAIN q |-> count[q[j]]], Len(q)) = Cardinality(set)
        BY <2>6, <2>8, <2>11, <2>12, CountedByName
      <3>. QED BY <2>4, <2>9, <3>1
    <2>14. ASSUME NEW n \in N, count[n] > 0
           PROVE  n \in {bits[i][1] : i \in set}
      <3>. HIDE DEF set
      <3>1. {i \in set : name[i] = n} # {}
        <4>. HIDE DEF N, name
        <4>. SUFFICES ASSUME {i \in set : name[i] = n} = {} PROVE FALSE
          OBVIOUS
        <4>1. Cardinality({}) = 0
          BY FS_EmptySet
        <4>2. count[n] = 0
          BY <2>8, <4>1
        <4>. QED BY <2>14, <4>2
      <3>2. PICK i \in set : name[i] = n
        BY <3>1
      <3>. HIDE DEF name
      <3>3. PICK j \in set : bits[j][1] = n
        BY <2>5, <3>2
      <3>. QED BY <3>3
    <2>. QED BY <2>4, <2>9, <2>13, <2>14
  <1>2. IInv => FlagsNameSetBits
    BY <1>1 DEF FlagsNameSetBits
  <1>. QED BY <1>2, IInvHolds, PTL
=============================================================================
