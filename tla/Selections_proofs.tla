-------------------------- MODULE Selections_proofs --------------------------
(***************************************************************************)
(* What Joined and Selected are: nothing for no item, and one item more    *)
(* for each turn of the loop.  FlattenSeq is a recursive function, so that *)
(* its equations are proved from the least number for which they fail.     *)
(***************************************************************************)
EXTENDS Selections, FiniteSetTheorems, WellFoundedInduction, TLAPS

\* A set of natural numbers that is not empty has a least element.
LEMMA LeastOf ==
  ASSUME NEW S, S \subseteq Nat, S # {}
  PROVE  \E m \in S : \A k \in S : m <= k
<1> DEFINE Less == {ss \in Nat \X Nat : ss[1] < ss[2]}
<1>1. IsWellFoundedOn(Less, Nat)
  BY NatLessThanWellFounded DEF OpToRel
<1>2. \A x, y \in Nat : y < x => <<y, x>> \in Less
  OBVIOUS
<1> HIDE DEF Less
<1>3. \E m \in S : \A k \in S : ~(<<k, m>> \in Less)
  BY <1>1, WFMin
<1>4. \A x, y \in Nat : ~(y < x) => x <= y
  OBVIOUS
<1> QED BY <1>2, <1>3, <1>4

(***************************************************************************)
(* The function by which FlattenSeq is defined: there is one for every     *)
(* length, and the one for a length goes on with the one for a smaller.    *)
(***************************************************************************)
Unrolls(g, ss, n) == g = [i \in 1 .. n |-> IF i = 1 THEN ss[i] ELSE g[i - 1] \o ss[i]]

LEMMA UnrollsExists ==
  ASSUME NEW ss, NEW n \in Nat
  PROVE  \E g : Unrolls(g, ss, n)
<1> DEFINE Bad == {k \in Nat : ~\E g : Unrolls(g, ss, k)}
<1> SUFFICES ASSUME Bad # {} PROVE FALSE
  OBVIOUS
<1>1. PICK m \in Bad : \A k \in Bad : m <= k
  <2>1. Bad \subseteq Nat
    OBVIOUS
  <2> HIDE DEF Bad
  <2> QED BY <2>1, LeastOf
<1>2. m # 0
  <2>1. Unrolls(<<>>, ss, 0)
    BY DEF Unrolls
  <2> QED BY <2>1
<1>3. PICK g : Unrolls(g, ss, m - 1)
  BY <1>1, <1>2
<1> DEFINE h == [i \in 1 .. m |-> IF i = m THEN IF m = 1 THEN ss[1] ELSE g[m - 1] \o ss[m]
                                  ELSE g[i]]
<1>4. m \in Nat \ {0}
  BY <1>2
<1>5. ASSUME NEW i \in 1 .. m PROVE h[i] = IF i = 1 THEN ss[i] ELSE h[i - 1] \o ss[i]
  <2>1. CASE i = m
    BY <1>4, <2>1
  <2>2. CASE i # m
    <3>1. i \in 1 .. m - 1 /\ (i # 1 => i - 1 \in 1 .. m /\ i - 1 # m)
      BY <1>4, <2>2
    <3>2. g[i] = IF i = 1 THEN ss[i] ELSE g[i - 1] \o ss[i]
      BY <1>3, <3>1 DEF Unrolls
    <3> QED BY <2>2, <3>1, <3>2
  <2> QED BY <2>1, <2>2
<1>6. Unrolls(h, ss, m)
  BY <1>5 DEF Unrolls
<1> QED BY <1>6

LEMMA UnrollsAt ==
  ASSUME NEW ss, NEW g, NEW n \in Nat, Unrolls(g, ss, n), NEW i \in 1 .. n
  PROVE  g[i] = IF i = 1 THEN ss[i] ELSE g[i - 1] \o ss[i]
BY DEF Unrolls

LEMMA UnrollsAgree ==
  ASSUME NEW ss, NEW tt, NEW g, NEW h, NEW n \in Nat, NEW m \in Nat, n <= m,
         Unrolls(g, ss, n), Unrolls(h, tt, m), \A i \in 1 .. n : ss[i] = tt[i]
  PROVE  \A i \in 1 .. n : g[i] = h[i]
<1> DEFINE Bad == {i \in 1 .. n : g[i] # h[i]}
<1> SUFFICES ASSUME Bad # {} PROVE FALSE
  OBVIOUS
<1>1. PICK k \in Bad : \A i \in Bad : k <= i
  <2>1. Bad \subseteq Nat
    OBVIOUS
  <2> HIDE DEF Bad
  <2> QED BY <2>1, LeastOf
<1>2. k \in 1 .. n /\ k \in 1 .. m /\ ss[k] = tt[k]
  BY <1>1
<1>3. g[k] = IF k = 1 THEN ss[k] ELSE g[k - 1] \o ss[k]
  BY <1>2, UnrollsAt
<1>4. h[k] = IF k = 1 THEN tt[k] ELSE h[k - 1] \o tt[k]
  BY <1>2, UnrollsAt
<1>5. k # 1 => k - 1 \in 1 .. n /\ g[k - 1] = h[k - 1]
  BY <1>1, <1>2
<1> QED BY <1>1, <1>2, <1>3, <1>4, <1>5

LEMMA FlattenIs ==
  ASSUME NEW ss, NEW n \in Nat \ {0}, Len(ss) = n
  PROVE  \E g : Unrolls(g, ss, n) /\ FlattenSeq(ss) = g[n]
<1> DEFINE g == CHOOSE x : Unrolls(x, ss, n)
<1>1. Unrolls(g, ss, n)
  BY UnrollsExists
<1>2. FlattenSeq(ss) = g[n]
  BY DEF FlattenSeq, Unrolls
<1> HIDE DEF g
<1> QED BY <1>1, <1>2

(***************************************************************************)
(* Nothing, and one more.                                                  *)
(***************************************************************************)
LEMMA JoinedNone == \A f : Joined(f, 0) = <<>>
  BY DEF Joined, FlattenSeq

LEMMA FirstItems ==
  ASSUME NEW f, NEW n \in Nat
  PROVE  Len([k \in 1 .. n |-> f[k]]) = n /\ \A i \in 1 .. n : [k \in 1 .. n |-> f[k]][i] = f[i]
OBVIOUS

LEMMA JoinedNext ==
  ASSUME NEW f, NEW n \in Nat, NEW S, f[n + 1] \in Seq(S)
  PROVE  Joined(f, n + 1) = Joined(f, n) \o f[n + 1]
<1> DEFINE ss == [k \in 1 .. n |-> f[k]]
           tt == [k \in 1 .. n + 1 |-> f[k]]
<1>1. /\ Len(ss) = n /\ \A i \in 1 .. n : ss[i] = f[i]
      /\ Len(tt) = n + 1 /\ \A i \in 1 .. n + 1 : tt[i] = f[i]
  BY FirstItems
<1>2. Joined(f, n) = FlattenSeq(ss) /\ Joined(f, n + 1) = FlattenSeq(tt)
  BY DEF Joined
<1> HIDE DEF ss, tt
<1>3. PICK h : Unrolls(h, tt, n + 1) /\ FlattenSeq(tt) = h[n + 1]
  BY <1>1, FlattenIs
<1>4. h[n + 1] = IF n + 1 = 1 THEN tt[n + 1] ELSE h[n] \o tt[n + 1]
  <2>1. n + 1 \in 1 .. n + 1 /\ n + 1 \in Nat /\ (n + 1) - 1 = n
    OBVIOUS
  <2> QED BY <1>3, <2>1, UnrollsAt
<1>5. CASE n = 0
  <2>1. Joined(f, n) = <<>>
    BY <1>5, JoinedNone
  <2>2. <<>> \o f[n + 1] = f[n + 1]
    OBVIOUS
  <2> QED BY <1>1, <1>2, <1>3, <1>4, <1>5, <2>1, <2>2
<1>6. CASE n # 0
  <2>1. PICK g : Unrolls(g, ss, n) /\ FlattenSeq(ss) = g[n]
    BY <1>1, <1>6, FlattenIs
  <2>2. g[n] = h[n]
    BY <1>1, <1>3, <1>6, <2>1, UnrollsAgree
  <2>3. n + 1 # 1 /\ tt[n + 1] = f[n + 1]
    BY <1>1, <1>6
  <2> QED BY <1>2, <1>3, <1>4, <2>1, <2>2, <2>3
<1> QED BY <1>5, <1>6

LEMMA JoinedTyped ==
  ASSUME NEW f, NEW n \in Nat, NEW S, \A k \in 1 .. n : f[k] \in Seq(S)
  PROVE  Joined(f, n) \in Seq(S)
<1> DEFINE Bad == {k \in 0 .. n : Joined(f, k) \notin Seq(S)}
<1> SUFFICES ASSUME Bad # {} PROVE FALSE
  OBVIOUS
<1>1. PICK k \in Bad : \A i \in Bad : k <= i
  <2>1. Bad \subseteq Nat
    OBVIOUS
  <2> HIDE DEF Bad
  <2> QED BY <2>1, LeastOf
<1>2. k # 0
  <2>1. Joined(f, 0) \in Seq(S)
    <3>1. Joined(f, 0) = <<>>
      BY JoinedNone
    <3>2. <<>> \in Seq(S)
      OBVIOUS
    <3> QED BY <3>1, <3>2
  <2>2. Joined(f, k) \notin Seq(S)
    OBVIOUS
  <2> HIDE DEF Bad
  <2> QED BY <2>1, <2>2
<1>3. k - 1 \in 0 .. n /\ k \in 1 .. n /\ k - 1 \in Nat /\ (k - 1) + 1 = k
  BY <1>2
<1>4. Joined(f, k - 1) \in Seq(S)
  BY <1>1, <1>3
<1>5. Joined(f, k) = Joined(f, k - 1) \o f[k]
  <2>1. f[(k - 1) + 1] \in Seq(S)
    BY <1>3
  <2> QED BY <1>3, <2>1, JoinedNext
<1>6. f[k] \in Seq(S)
  BY <1>3
<1> HIDE DEF Bad
<1>7. Joined(f, k) \in Seq(S)
  BY <1>4, <1>5, <1>6
<1> QED BY <1>7 DEF Bad

LEMMA SelectedTyped ==
  ASSUME NEW s, Len(s) \in Nat, NEW I, NEW T, \A k \in 1 .. Len(s) : k \in I => s[k] \in T
  PROVE  Selected(s, I) \in Seq(T)
<1> DEFINE f == Picks(s, I)
<1>1. \A k \in 1 .. Len(s) : f[k] \in Seq(T)
  BY DEF Picks
<1> HIDE DEF f
<1>2. Joined(f, Len(s)) \in Seq(T)
  BY <1>1, JoinedTyped
<1> QED BY <1>2 DEF Selected, f

\* The elements of a finite set, in some order.
LEMMA SetToSeqTyped ==
  ASSUME NEW S, IsFiniteSet(S)
  PROVE  SetToSeq(S) \in Seq(S)
<1>1. Cardinality(S) \in Nat /\ ExistsBijection(1 .. Cardinality(S), S)
  BY FS_CardinalityType
<1>2. \E f \in [1 .. Cardinality(S) -> S] : IsInjective(f)
  BY <1>1 DEF ExistsBijection, Bijection, Injection
<1>3. SetToSeq(S) \in [1 .. Cardinality(S) -> S]
  BY <1>2 DEF SetToSeq
<1> QED BY <1>1, <1>3

(***************************************************************************)
(* Induction, for what can be said as membership in a set.                 *)
(***************************************************************************)
LEMMA UpTo ==
  ASSUME NEW N \in Nat, NEW S, 0 \in S, \A n \in 0 .. N - 1 : n \in S => n + 1 \in S
  PROVE  \A n \in 0 .. N : n \in S
<1> DEFINE Bad == {n \in 0 .. N : n \notin S}
<1> SUFFICES ASSUME Bad # {} PROVE FALSE
  OBVIOUS
<1>1. PICK m \in Bad : \A k \in Bad : m <= k
  <2>1. Bad \subseteq Nat
    OBVIOUS
  <2> HIDE DEF Bad
  <2> QED BY <2>1, LeastOf
<1>2. m \in 0 .. N /\ m \notin S /\ m # 0
  OBVIOUS
<1>3. m - 1 \in 0 .. N - 1 /\ (m - 1) + 1 = m /\ ~(m <= m - 1)
  BY <1>2
<1>4. m - 1 \in S
  BY <1>1, <1>3
<1> QED BY <1>2, <1>3, <1>4

\* The greatest element of a set of numbers with a bound.
LEMMA MaxIs ==
  ASSUME NEW N \in Nat, NEW S, S \subseteq 0 .. N, S # {}
  PROVE  Max(S) \in S /\ \A k \in S : k <= Max(S)
<1> DEFINE D == {N - k : k \in S}
<1>1. PICK m \in D : \A k \in D : m <= k
  <2>1. D \subseteq Nat
    <3>1. \A k \in S : N - k \in Nat
      OBVIOUS
    <3> QED BY <3>1
  <2>2. D # {}
    <3>1. PICK k \in S : TRUE
      OBVIOUS
    <3>2. N - k \in D
      OBVIOUS
    <3> QED BY <3>2
  <2> HIDE DEF D
  <2> QED BY <2>1, <2>2, LeastOf
<1>2. N - m \in S
  OBVIOUS
<1>3. \A k \in S : k <= N - m
  <2> TAKE k \in S
  <2>1. m <= N - k
    BY <1>1
  <2>2. m \in 0 .. N /\ k \in 0 .. N
    OBVIOUS
  <2> HIDE DEF D
  <2> QED BY <2>1, <2>2
<1>4. \E x \in S : \A y \in S : x >= y
  <2>1. \A y \in S : N - m >= y
    BY <1>2, <1>3
  <2> QED BY <1>2, <2>1
<1>5. Max(S) \in S /\ \A y \in S : Max(S) >= y
  BY <1>4 DEF Max
<1> QED BY <1>5

(***************************************************************************)
(* What is joined depends on the items only; items without a length add    *)
(* nothing, and items of length one are the elements.                      *)
(***************************************************************************)
LEMMA JoinedSame ==
  ASSUME NEW f, NEW g, NEW n \in Nat, \A k \in 1 .. n : f[k] = g[k]
  PROVE  Joined(f, n) = Joined(g, n)
<1>1. [k \in 1 .. n |-> f[k]] = [k \in 1 .. n |-> g[k]]
  OBVIOUS
<1> QED BY <1>1 DEF Joined

LEMMA JoinedStep ==
  ASSUME NEW f, NEW N \in Nat, NEW S, \A k \in 1 .. N : f[k] \in Seq(S), NEW n \in 0 .. N - 1
  PROVE  /\ Joined(f, n + 1) = Joined(f, n) \o f[n + 1]
         /\ Joined(f, n) \in Seq(S) /\ f[n + 1] \in Seq(S) /\ Joined(f, n + 1) \in Seq(S)
<1>1. n \in Nat /\ n + 1 \in Nat /\ n + 1 \in 1 .. N
  OBVIOUS
<1>2. f[n + 1] \in Seq(S)
  BY <1>1
<1>3. (\A k \in 1 .. n : f[k] \in Seq(S)) /\ (\A k \in 1 .. n + 1 : f[k] \in Seq(S))
  OBVIOUS
<1>4. Joined(f, n) \in Seq(S) /\ Joined(f, n + 1) \in Seq(S)
  BY <1>1, <1>3, JoinedTyped
<1>5. Joined(f, n + 1) = Joined(f, n) \o f[n + 1]
  BY <1>1, <1>2, JoinedNext
<1> QED BY <1>2, <1>4, <1>5

LEMMA JoinedOfNothing ==
  ASSUME NEW f, NEW N \in Nat, \A k \in 1 .. N : f[k] = <<>>
  PROVE  Joined(f, N) = <<>>
<1> DEFINE S == {n \in 0 .. N : Joined(f, n) = <<>>}
<1>1. 0 \in S
  BY JoinedNone
<1>2. ASSUME NEW n \in 0 .. N - 1, n \in S PROVE n + 1 \in S
  <2>1. \A k \in 1 .. N : f[k] \in Seq({})
    <3>1. <<>> \in Seq({})
      OBVIOUS
    <3> QED BY <3>1
  <2>2. Joined(f, n + 1) = Joined(f, n) \o f[n + 1]
    BY <2>1, JoinedStep
  <2>3. Joined(f, n) = <<>> /\ f[n + 1] = <<>> /\ n + 1 \in 0 .. N
    BY <1>2
  <2>4. <<>> \o <<>> = <<>>
    OBVIOUS
  <2> QED BY <2>2, <2>3, <2>4
<1> HIDE DEF S
<1>3. N \in 0 .. N
  OBVIOUS
<1>4. N \in S
  BY <1>1, <1>2, <1>3, UpTo
<1> QED BY <1>4 DEF S

LEMMA AppendOne ==
  ASSUME NEW T, NEW x \in Seq(T), NEW e \in T
  PROVE  /\ Len(x \o <<e>>) = Len(x) + 1 /\ (x \o <<e>>)[Len(x) + 1] = e
         /\ \A k \in 1 .. Len(x) : (x \o <<e>>)[k] = x[k]
OBVIOUS

LEMMA JoinedOnes ==
  ASSUME NEW f, NEW N \in Nat, NEW T, NEW g, \A k \in 1 .. N : g[k] \in T /\ f[k] = <<g[k]>>
  PROVE  /\ Joined(f, N) \in Seq(T) /\ Len(Joined(f, N)) = N
         /\ \A k \in 1 .. N : Joined(f, N)[k] = g[k]
<1> DEFINE S == {n \in 0 .. N : Len(Joined(f, n)) = n /\ \A k \in 1 .. n : Joined(f, n)[k] = g[k]}
<1>0. \A k \in 1 .. N : f[k] \in Seq(T)
  <2>1. \A e \in T : <<e>> \in Seq(T)
    OBVIOUS
  <2> HIDE DEF S
  <2> QED BY <2>1
<1>1. 0 \in S
  <2>1. Len(<<>>) = 0 /\ 0 \in 0 .. N /\ 1 .. 0 = {}
    OBVIOUS
  <2> QED BY <2>1, JoinedNone
<1>2. ASSUME NEW n \in 0 .. N - 1, n \in S PROVE n + 1 \in S
  <2>1. /\ Joined(f, n + 1) = Joined(f, n) \o <<g[n + 1]>>
        /\ Joined(f, n) \in Seq(T) /\ g[n + 1] \in T
    <3>1. n + 1 \in 1 .. N
      OBVIOUS
    <3>2. f[n + 1] = <<g[n + 1]>> /\ g[n + 1] \in T
      BY <3>1
    <3> QED BY <1>0, <3>2, JoinedStep
  <2>2. Len(Joined(f, n)) = n /\ \A k \in 1 .. n : Joined(f, n)[k] = g[k]
    BY <1>2
  <2>3. /\ Len(Joined(f, n + 1)) = n + 1 /\ Joined(f, n + 1)[n + 1] = g[n + 1]
        /\ \A k \in 1 .. n : Joined(f, n + 1)[k] = g[k]
    <3> DEFINE J == Joined(f, n)
               K == Joined(f, n + 1)
               e == g[n + 1]
    <3>1. K = J \o <<e>> /\ J \in Seq(T) /\ e \in T
      BY <2>1
    <3>2. Len(J) = n /\ \A k \in 1 .. n : J[k] = g[k]
      BY <2>2
    <3> HIDE DEF S, J, K, e
    <3>3. /\ Len(J \o <<e>>) = Len(J) + 1 /\ (J \o <<e>>)[Len(J) + 1] = e
          /\ \A k \in 1 .. Len(J) : (J \o <<e>>)[k] = J[k]
      BY <3>1, AppendOne
    <3>4. Len(K) = n + 1 /\ K[n + 1] = e /\ \A k \in 1 .. n : K[k] = g[k]
      BY <3>1, <3>2, <3>3
    <3> QED BY <3>4 DEF K, e
  <2>4. n + 1 \in 0 .. N /\ \A k \in 1 .. n + 1 : k = n + 1 \/ k \in 1 .. n
    OBVIOUS
  <2> QED BY <2>3, <2>4
<1> HIDE DEF S
<1>3. N \in 0 .. N
  OBVIOUS
<1>4. N \in S
  BY <1>1, <1>2, <1>3, UpTo
<1>5. Joined(f, N) \in Seq(T)
  BY <1>0, JoinedTyped
<1> QED BY <1>4, <1>5 DEF S

(***************************************************************************)
(* A loop that takes some elements of s: those at I.  Count is how many    *)
(* were taken of the first n, and the place of s[n], if it was taken.      *)
(***************************************************************************)
Count(s, I, n) == Len(Joined(Picks(s, I), n))

LEMMA PicksTyped ==
  ASSUME NEW T, NEW s \in Seq(T), NEW I
  PROVE  /\ \A k \in 1 .. Len(s) : Picks(s, I)[k] = IF k \in I THEN <<s[k]>> ELSE <<>>
         /\ \A k \in 1 .. Len(s) : Picks(s, I)[k] \in Seq(T)
         /\ \A n \in 0 .. Len(s) : Joined(Picks(s, I), n) \in Seq(T) /\ Count(s, I, n) \in Nat
<1>1. \A k \in 1 .. Len(s) : Picks(s, I)[k] = IF k \in I THEN <<s[k]>> ELSE <<>>
  BY DEF Picks
<1>2. \A k \in 1 .. Len(s) : Picks(s, I)[k] \in Seq(T)
  <2>1. \A e \in T : <<e>> \in Seq(T)
    OBVIOUS
  <2>2. <<>> \in Seq(T)
    OBVIOUS
  <2>3. \A k \in 1 .. Len(s) : s[k] \in T
    OBVIOUS
  <2> QED BY <1>1, <2>1, <2>2, <2>3
<1>3. ASSUME NEW n \in 0 .. Len(s) PROVE Joined(Picks(s, I), n) \in Seq(T) /\ Count(s, I, n) \in Nat
  <2>1. n \in Nat /\ \A k \in 1 .. n : Picks(s, I)[k] \in Seq(T)
    <3>1. Len(s) \in Nat
      OBVIOUS
    <3>2. \A k \in 1 .. n : k \in 1 .. Len(s)
      BY <3>1
    <3> QED BY <1>2, <3>1, <3>2
  <2>2. Joined(Picks(s, I), n) \in Seq(T)
    BY <2>1, JoinedTyped
  <2> QED BY <2>2 DEF Count
<1> QED BY <1>1, <1>2, <1>3

LEMMA CountNext ==
  ASSUME NEW T, NEW s \in Seq(T), NEW I
  PROVE  /\ Count(s, I, 0) = 0
         /\ \A n \in 0 .. Len(s) - 1 :
              /\ n + 1 \notin I => /\ Joined(Picks(s, I), n + 1) = Joined(Picks(s, I), n)
                                   /\ Count(s, I, n + 1) = Count(s, I, n)
              /\ n + 1 \in I => /\ Joined(Picks(s, I), n + 1) = Append(Joined(Picks(s, I), n), s[n + 1])
                                /\ Count(s, I, n + 1) = Count(s, I, n) + 1
<1>1. Count(s, I, 0) = 0
  BY JoinedNone DEF Count
<1>2. ASSUME NEW n \in 0 .. Len(s) - 1
      PROVE  /\ n + 1 \notin I => /\ Joined(Picks(s, I), n + 1) = Joined(Picks(s, I), n)
                                  /\ Count(s, I, n + 1) = Count(s, I, n)
             /\ n + 1 \in I => /\ Joined(Picks(s, I), n + 1) = Append(Joined(Picks(s, I), n), s[n + 1])
                               /\ Count(s, I, n + 1) = Count(s, I, n) + 1
  <2>0. Len(s) \in Nat
    OBVIOUS
  <2> DEFINE f == Picks(s, I)
             J == Joined(f, n)
  <2>1. \A k \in 1 .. Len(s) : f[k] \in Seq(T)
    BY PicksTyped
  <2>2. n + 1 \in 1 .. Len(s)
    BY <2>0
  <2>3. f[n + 1] = IF n + 1 \in I THEN <<s[n + 1]>> ELSE <<>>
    BY <2>2, PicksTyped
  <2>4. Joined(f, n + 1) = J \o f[n + 1] /\ J \in Seq(T)
    <3> HIDE DEF f
    <3> QED BY <2>0, <2>1, JoinedStep
  <2>5. Count(s, I, n) = Len(J) /\ Count(s, I, n + 1) = Len(Joined(f, n + 1))
    BY DEF Count
  <2>6. s[n + 1] \in T
    BY <2>2
  <2>7. CASE n + 1 \notin I
    <3> HIDE DEF f, J
    <3>1. J \o <<>> = J
      BY <2>4
    <3> QED BY <2>3, <2>4, <2>5, <2>7, <3>1 DEF f, J
  <2>8. CASE n + 1 \in I
    <3> HIDE DEF f, J
    <3>1. J \o <<s[n + 1]>> = Append(J, s[n + 1])
      BY <2>4, <2>6
    <3>2. Len(J \o <<s[n + 1]>>) = Len(J) + 1
      BY <2>4, <2>6, AppendOne
    <3> QED BY <2>3, <2>4, <2>5, <2>8, <3>1, <3>2 DEF f, J
  <2> QED BY <2>7, <2>8
<1> QED BY <1>1, <1>2

LEMMA CountStep ==
  ASSUME NEW T, NEW s \in Seq(T), NEW I, NEW n \in 0 .. Len(s) - 1
  PROVE  /\ n + 1 \notin I => /\ Joined(Picks(s, I), n + 1) = Joined(Picks(s, I), n)
                              /\ Count(s, I, n + 1) = Count(s, I, n)
         /\ n + 1 \in I => /\ Joined(Picks(s, I), n + 1) = Append(Joined(Picks(s, I), n), s[n + 1])
                           /\ Count(s, I, n + 1) = Count(s, I, n) + 1
BY CountNext

LEMMA CountMonotone ==
  ASSUME NEW T, NEW s \in Seq(T), NEW I, NEW m \in 0 .. Len(s)
  PROVE  /\ \A n \in m .. Len(s) : Count(s, I, m) <= Count(s, I, n)
         /\ \A n \in m .. Len(s) :
              \A k \in 1 .. Count(s, I, m) : Joined(Picks(s, I), n)[k] = Joined(Picks(s, I), m)[k]
<1> DEFINE C(n) == Count(s, I, n)
           J(n) == Joined(Picks(s, I), n)
           S == {n \in 0 .. Len(s) : n >= m => C(m) <= C(n) /\ \A k \in 1 .. C(m) : J(n)[k] = J(m)[k]}
<1>0. Len(s) \in Nat /\ m \in Nat
  OBVIOUS
<1>1. C(m) \in Nat
  BY PicksTyped
<1>2. m = 0 => 0 \in S
  BY <1>0, <1>1
<1>3. 0 \in S
  BY <1>0, <1>2
<1>4. ASSUME NEW n \in 0 .. Len(s) - 1, n \in S PROVE n + 1 \in S
  <2>1. n + 1 \in 0 .. Len(s) /\ n \in 0 .. Len(s) /\ n + 1 \in 1 .. Len(s)
    BY <1>0
  <2>2. CASE n + 1 <= m
    <3>1. n + 1 >= m => n + 1 = m
      BY <2>2, <1>0
    <3>2. C(m) <= C(m)
      BY <1>1
    <3> QED BY <2>1, <3>1, <3>2
  <2>3. CASE n >= m
    <3>1. C(m) <= C(n) /\ \A k \in 1 .. C(m) : J(n)[k] = J(m)[k]
      BY <1>4, <2>3
    <3>2. C(n) \in Nat /\ J(n) \in Seq(T) /\ C(n) = Len(J(n))
      BY <2>1, PicksTyped DEF Count
    <3>3. CASE n + 1 \notin I
      <4>1. C(n + 1) = C(n) /\ J(n + 1) = J(n)
        BY <3>3, CountStep
      <4> QED BY <2>1, <3>1, <4>1
    <3>4. CASE n + 1 \in I
      <4>1. C(n + 1) = C(n) + 1 /\ J(n + 1) = Append(J(n), s[n + 1])
        BY <3>4, CountStep
      <4>2. s[n + 1] \in T
        BY <2>1
      <4> HIDE DEF C, J
      <4>3. \A k \in 1 .. C(m) : k \in 1 .. Len(J(n)) /\ Append(J(n), s[n + 1])[k] = J(n)[k]
        BY <1>1, <3>1, <3>2, <4>2
      <4>4. C(m) <= C(n + 1)
        BY <1>1, <3>1, <3>2, <4>1
      <4> QED BY <2>1, <3>1, <4>1, <4>3, <4>4
    <3> QED BY <3>3, <3>4
  <2>4. n + 1 <= m \/ n >= m
    BY <1>0
  <2> QED BY <2>2, <2>3, <2>4
<1> HIDE DEF S
<1>5. \A n \in 0 .. Len(s) : n \in S
  BY <1>0, <1>3, <1>4, UpTo
<1>6. \A n \in m .. Len(s) : n \in 0 .. Len(s) /\ n >= m
  BY <1>0
<1> QED BY <1>5, <1>6 DEF S

\* An element that is taken is where the count says.
LEMMA TakenAt ==
  ASSUME NEW T, NEW s \in Seq(T), NEW I, NEW n \in 1 .. Len(s), n \in I, NEW m \in n .. Len(s)
  PROVE  /\ Count(s, I, n) \in 1 .. Count(s, I, m)
         /\ Joined(Picks(s, I), m)[Count(s, I, n)] = s[n]
<1>0. Len(s) \in Nat /\ n - 1 \in 0 .. Len(s) - 1 /\ (n - 1) + 1 = n /\ n \in 0 .. Len(s)
      /\ n - 1 \in 0 .. Len(s) /\ m \in 0 .. Len(s)
  OBVIOUS
<1> DEFINE J == Joined(Picks(s, I), n - 1)
<1>1. Joined(Picks(s, I), n) = Append(J, s[n]) /\ Count(s, I, n) = Count(s, I, n - 1) + 1
  <2> DEFINE p == n - 1
  <2>1. p \in 0 .. Len(s) - 1 /\ p + 1 = n
    BY <1>0
  <2> HIDE DEF p
  <2>2. /\ Joined(Picks(s, I), n) = Append(Joined(Picks(s, I), p), s[n])
        /\ Count(s, I, n) = Count(s, I, p) + 1
    BY <2>1, CountNext
  <2> QED BY <2>2 DEF p
<1>2. J \in Seq(T) /\ Count(s, I, n - 1) = Len(J) /\ s[n] \in T
  <2>1. J \in Seq(T)
    BY <1>0, PicksTyped
  <2> QED BY <2>1 DEF Count
<1>3. Count(s, I, n) <= Count(s, I, m) /\ Count(s, I, m) \in Nat
  BY <1>0, CountMonotone, PicksTyped
<1> HIDE DEF J
<1>4. Append(J, s[n])[Len(J) + 1] = s[n] /\ Len(J) \in Nat
  BY <1>2
<1>5. Count(s, I, n) \in 1 .. Count(s, I, m) /\ Count(s, I, n) \in 1 .. Count(s, I, n)
  BY <1>1, <1>2, <1>3, <1>4
<1>6. Joined(Picks(s, I), m)[Count(s, I, n)] = Joined(Picks(s, I), n)[Count(s, I, n)]
  BY <1>0, <1>5, CountMonotone
<1> QED BY <1>1, <1>2, <1>4, <1>5, <1>6

\* Every element of the result was taken from somewhere.
LEMMA TakenFrom ==
  ASSUME NEW T, NEW s \in Seq(T), NEW I, NEW m \in 0 .. Len(s), NEW k \in 1 .. Count(s, I, m)
  PROVE  \E n \in 1 .. m : n \in I /\ Count(s, I, n) = k
<1> DEFINE S == {n \in 0 .. Len(s) : \A x \in 1 .. Count(s, I, n) : \E y \in 1 .. n : y \in I /\ Count(s, I, y) = x}
<1>0. Len(s) \in Nat
  OBVIOUS
<1>1. 0 \in S
  <2>1. 1 .. 0 = {}
    OBVIOUS
  <2> QED BY <1>0, <2>1, CountNext
<1>2. ASSUME NEW n \in 0 .. Len(s) - 1, n \in S PROVE n + 1 \in S
  <2>1. n + 1 \in 0 .. Len(s) /\ n \in 0 .. Len(s) /\ n + 1 \in 1 .. n + 1 /\ (\A y \in 1 .. n : y \in 1 .. n + 1)
    BY <1>0
  <2>2. \A x \in 1 .. Count(s, I, n) : \E y \in 1 .. n + 1 : y \in I /\ Count(s, I, y) = x
    BY <1>2, <2>1
  <2>3. Count(s, I, n) \in Nat
    BY <2>1, PicksTyped
  <2>4. CASE n + 1 \notin I
    <3>1. Count(s, I, n + 1) = Count(s, I, n)
      BY <2>4, CountNext
    <3> QED BY <2>1, <2>2, <3>1
  <2>5. CASE n + 1 \in I
    <3>1. Count(s, I, n + 1) = Count(s, I, n) + 1
      BY <2>5, CountNext
    <3>2. \A x \in 1 .. Count(s, I, n + 1) : x \in 1 .. Count(s, I, n) \/ x = Count(s, I, n + 1)
      BY <2>3, <3>1
    <3>3. \A x \in 1 .. Count(s, I, n + 1) : \E y \in 1 .. n + 1 : y \in I /\ Count(s, I, y) = x
      BY <2>1, <2>2, <2>5, <3>2
    <3> QED BY <2>1, <3>3
  <2> QED BY <2>4, <2>5
<1> HIDE DEF S
<1>3. m \in S
  BY <1>0, <1>1, <1>2, UpTo
<1> QED BY <1>3 DEF S

(***************************************************************************)
(* What two loops do, one behind the other: the second joins an item for   *)
(* each element that the first has taken.                                  *)
(***************************************************************************)
LEMMA JoinedThrough ==
  ASSUME NEW T, NEW s \in Seq(T), NEW I, NEW h, NEW S, NEW f,
         \A k \in 1 .. Count(s, I, Len(s)) : h[k] \in Seq(S),
         \A n \in 1 .. Len(s) : f[n] = IF n \in I THEN h[Count(s, I, n)] ELSE <<>>
  PROVE  Joined(h, Count(s, I, Len(s))) = Joined(f, Len(s))
<1> DEFINE N == Len(s)
           C(n) == Count(s, I, n)
           R == {n \in 0 .. N : Joined(h, C(n)) = Joined(f, n)}
<1>0. N \in Nat /\ N \in 0 .. N /\ C(N) \in Nat /\ \A n \in 0 .. N : C(n) \in Nat /\ C(n) <= C(N)
  <2>1. N \in Nat /\ N \in 0 .. N /\ \A n \in 0 .. N : N \in n .. N
    OBVIOUS
  <2>2. \A n \in 0 .. N : C(n) \in Nat
    BY PicksTyped
  <2>3. \A n \in 0 .. N : C(n) <= C(N)
    BY <2>1, CountMonotone
  <2> QED BY <2>1, <2>2, <2>3
<1>1. 0 \in R
  <2>1. C(0) = 0
    BY CountNext
  <2> QED BY <1>0, <2>1, JoinedNone
<1>2. ASSUME NEW n \in 0 .. N - 1, n \in R PROVE n + 1 \in R
  <2>0. Joined(h, C(n)) = Joined(f, n)
    BY <1>2
  <2>1. n + 1 \in 1 .. N /\ n + 1 \in 0 .. N /\ n \in 0 .. N /\ n \in Nat
    BY <1>0
  <2>2. CASE n + 1 \notin I
    <3>1. C(n + 1) = C(n)
      BY <2>2, CountNext
    <3>2. f[n + 1] = <<>> /\ <<>> \in Seq(S)
      <4>1. <<>> \in Seq(S)
        OBVIOUS
      <4> QED BY <2>1, <2>2, <4>1
    <3>3. Joined(f, n + 1) = Joined(f, n) \o <<>>
      BY <2>1, <3>2, JoinedNext
    <3>4. Joined(h, C(n)) \in Seq(S)
      <4>1. C(n) \in Nat /\ \A k \in 1 .. C(n) : h[k] \in Seq(S)
        BY <1>0, <2>1
      <4> HIDE DEF C
      <4> QED BY <4>1, JoinedTyped
    <3>5. Joined(h, C(n)) \o <<>> = Joined(h, C(n))
      BY <3>4
    <3>6. Joined(h, C(n + 1)) = Joined(f, n + 1)
      BY <2>0, <3>1, <3>3, <3>5
    <3> QED BY <2>1, <3>6
  <2>3. CASE n + 1 \in I
    <3>1. C(n + 1) = C(n) + 1
      BY <2>3, CountNext
    <3>2. f[n + 1] = h[C(n + 1)]
      BY <2>1, <2>3
    <3>3. h[C(n) + 1] \in Seq(S)
      <4>1. C(n) + 1 \in 1 .. C(N)
        <5>1. C(n + 1) <= C(N) /\ C(n) \in Nat /\ C(N) \in Nat
          BY <1>0, <2>1
        <5> HIDE DEF C
        <5> QED BY <3>1, <5>1
      <4> QED BY <4>1
    <3>4. f[n + 1] \in Seq(S)
      BY <3>1, <3>2, <3>3
    <3>5. Joined(f, n + 1) = Joined(f, n) \o f[n + 1]
      BY <2>1, <3>4, JoinedNext
    <3>6. Joined(h, C(n) + 1) = Joined(h, C(n)) \o h[C(n) + 1]
      <4>1. C(n) \in Nat
        BY <1>0, <2>1
      <4> HIDE DEF C
      <4> QED BY <3>3, <4>1, JoinedNext
    <3>7. Joined(h, C(n + 1)) = Joined(f, n + 1)
      BY <2>0, <3>1, <3>2, <3>5, <3>6
    <3> QED BY <2>1, <3>7
  <2> QED BY <2>2, <2>3
<1> HIDE DEF R
<1>3. N \in R
  BY <1>0, <1>1, <1>2, UpTo
<1> QED BY <1>3 DEF R

\* Where the first loop takes the last element of a kind, the result has it.
SelectedIn(s, I, A) == {k \in 1 .. Count(s, I, Len(s)) : Selected(s, I)[k] \in A}
TakenIn(s, I, A) == {n \in 1 .. Len(s) : n \in I /\ s[n] \in A}

LEMMA LastTaken ==
  ASSUME NEW T, NEW s \in Seq(T), NEW I, NEW A
  PROVE  /\ SelectedIn(s, I, A) = {} <=> TakenIn(s, I, A) = {}
         /\ TakenIn(s, I, A) # {} =>
              /\ Max(TakenIn(s, I, A)) \in TakenIn(s, I, A)
              /\ Selected(s, I)[Max(SelectedIn(s, I, A))] = s[Max(TakenIn(s, I, A))]
<1> DEFINE K == SelectedIn(s, I, A)
           G == TakenIn(s, I, A)
<1>a. /\ \A k : k \in K <=> k \in 1 .. Count(s, I, Len(s)) /\ Selected(s, I)[k] \in A
      /\ \A n : n \in G <=> n \in 1 .. Len(s) /\ n \in I /\ s[n] \in A
  BY DEF SelectedIn, TakenIn
<1> HIDE DEF K, G
<1> DEFINE C(n) == Count(s, I, n)
           N == Len(s)
<1>0. N \in Nat /\ N \in 0 .. N /\ C(N) \in Nat
  <2>1. N \in Nat /\ N \in 0 .. N
    OBVIOUS
  <2> QED BY <2>1, PicksTyped
<1>1. ASSUME NEW n \in G PROVE C(n) \in K /\ Selected(s, I)[C(n)] = s[n] /\ n \in 0 .. N
  <2>1. n \in 1 .. N /\ n \in I /\ s[n] \in A /\ N \in n .. N /\ n \in 0 .. N
    BY <1>0, <1>a
  <2>2. C(n) \in 1 .. C(N) /\ Selected(s, I)[C(n)] = s[n]
    BY <2>1, TakenAt DEF Selected
  <2> QED BY <1>a, <2>1, <2>2
<1>2. ASSUME NEW k \in K PROVE \E n \in G : C(n) = k
  <2>1. k \in 1 .. C(N) /\ Selected(s, I)[k] \in A
    BY <1>a
  <2>2. PICK n \in 1 .. N : n \in I /\ C(n) = k
    BY <1>0, <2>1, TakenFrom
  <2>3. N \in n .. N
    BY <1>0
  <2>4. Selected(s, I)[k] = s[n]
    BY <2>2, <2>3, TakenAt DEF Selected
  <2> QED BY <1>a, <2>1, <2>2, <2>4
<1>3. K = {} <=> G = {}
  BY <1>1, <1>2
<1>4. ASSUME G # {} PROVE Max(G) \in G /\ Max(K) \in K /\ Selected(s, I)[Max(K)] = s[Max(G)]
  <2>1. Max(G) \in G /\ \A n \in G : n <= Max(G)
    <3>1. G \subseteq 0 .. N
      BY <1>1
    <3> QED BY <1>0, <1>4, <3>1, MaxIs
  <2>2. Max(K) \in K /\ \A k \in K : k <= Max(K)
    <3>1. K \subseteq 0 .. C(N)
      BY <1>0, <1>a
    <3>2. K # {}
      BY <1>3, <1>4
    <3> QED BY <1>0, <3>1, <3>2, MaxIs
  <2>3. C(Max(G)) \in K /\ Selected(s, I)[C(Max(G))] = s[Max(G)]
    BY <1>1, <2>1
  <2>4. C(Max(G)) <= Max(K)
    BY <2>2, <2>3
  <2>5. PICK n \in G : C(n) = Max(K)
    BY <1>2, <2>2
  <2>6. n <= Max(G) /\ n \in 0 .. N /\ Max(G) \in 0 .. N
    BY <1>1, <2>1
  <2>7. Max(G) \in n .. N
    BY <2>6
  <2>8. C(n) <= C(Max(G))
    BY <2>6, <2>7, CountMonotone
  <2>9. Max(K) \in Nat /\ C(Max(G)) \in Nat
    BY <1>a, <2>2, <2>3
  <2>10. Max(K) = C(Max(G))
    <3> HIDE DEF C
    <3> QED BY <2>4, <2>5, <2>8, <2>9
  <2> QED BY <2>1, <2>2, <2>3, <2>10
<1> QED BY <1>3, <1>4 DEF K, G
=============================================================================
