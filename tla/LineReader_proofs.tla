------------------------- MODULE LineReader_proofs -------------------------
(***************************************************************************)
(* Proofs of the invariants of LineReader, for all files, all sizes of     *)
(* chunks and any number of exceptions.                                    *)
(***************************************************************************)
EXTENDS LineReader, Selections_proofs, TLAPS

LEMMA Concat ==
  ASSUME NEW T, NEW x \in Seq(T), NEW y \in Seq(T)
  PROVE  /\ x \o y \in Seq(T) /\ Len(x \o y) = Len(x) + Len(y)
         /\ Len(x) \in Nat /\ Len(y) \in Nat
         /\ \A i \in 1 .. Len(x) : (x \o y)[i] = x[i]
         /\ \A i \in Len(x) + 1 .. Len(x) + Len(y) : (x \o y)[i] = y[i - Len(x)]
OBVIOUS

(***************************************************************************)
(* The bytes of a file: each of them lies in a whole character.            *)
(***************************************************************************)
Byte == [c : Written, k : 1 .. 3, of : 1 .. 3]

\* The character that byte i is in begins behind the place Before(B, i) and ends at After(B, i).
Before(B, i) == i - B[i].k
After(B, i) == (i - B[i].k) + B[i].of

WholeAt(B, enc, i) ==
  /\ B[i] \in Byte /\ B[i].of = Width(enc, B[i].c) /\ B[i].k <= B[i].of
  /\ Before(B, i) \in 0 .. i - 1 /\ After(B, i) \in i .. Len(B)
  /\ \A j \in 1 .. B[i].of : B[Before(B, i) + j] = [c |-> B[i].c, k |-> j, of |-> B[i].of]
  /\ enc \in Multibyte => \E m \in Nat : Before(B, i) = 2 * m

IsLayout(B, enc) ==
  /\ B \in Seq(Byte)
  /\ \A i \in 1 .. Len(B) : WholeAt(B, enc, i)
  /\ enc \in Multibyte => \E m \in Nat : Len(B) = 2 * m

LEMMA OneChar ==
  ASSUME NEW enc, NEW c \in Written
  PROVE  /\ BytesOf(enc, c) \in Seq(Byte) /\ Width(enc, c) \in 1 .. 3
         /\ Len(BytesOf(enc, c)) = Width(enc, c)
         /\ \A k \in 1 .. Width(enc, c) :
              BytesOf(enc, c)[k] = [c |-> c, k |-> k, of |-> Width(enc, c)]
         /\ enc \in Multibyte => Width(enc, c) = 2
<1>1. Width(enc, c) \in 1 .. 3
  BY DEF Width
<1>2. enc \in Multibyte => Width(enc, c) = 2
  BY DEF Width
<1> DEFINE w == Width(enc, c)
<1> HIDE DEF w
<1>3. w \in 1 .. 3
  BY <1>1 DEF w
<1>4. \A k \in 1 .. w : [c |-> c, k |-> k, of |-> w] \in Byte
  BY <1>3 DEF Byte
<1>5. BytesOf(enc, c) = [k \in 1 .. w |-> [c |-> c, k |-> k, of |-> w]]
  BY DEF BytesOf, w
<1>6. BytesOf(enc, c) \in [1 .. w -> Byte]
  BY <1>4, <1>5
<1>7. BytesOf(enc, c) \in Seq(Byte) /\ Len(BytesOf(enc, c)) = w
  <2> DEFINE z == BytesOf(enc, c)
  <2>1. z \in [1 .. w -> Byte] /\ w \in Nat
    BY <1>3, <1>6
  <2> HIDE DEF z
  <2>2. z \in Seq(Byte) /\ Len(z) = w
    BY <2>1
  <2> QED BY <2>2 DEF z
<1>8. \A k \in 1 .. w : BytesOf(enc, c)[k] = [c |-> c, k |-> k, of |-> w]
  BY <1>5
<1> QED BY <1>2, <1>3, <1>7, <1>8 DEF w

LEMMA LayoutNext ==
  ASSUME NEW B, NEW enc, IsLayout(B, enc), NEW c \in Written
  PROVE  IsLayout(B \o BytesOf(enc, c), enc)
<1> DEFINE w == Width(enc, c)
           y == BytesOf(enc, c)
           D == B \o y
           L == Len(B)
<1>1. /\ y \in Seq(Byte) /\ w \in 1 .. 3 /\ Len(y) = w
      /\ \A k \in 1 .. w : y[k] = [c |-> c, k |-> k, of |-> w]
      /\ enc \in Multibyte => w = 2
  BY OneChar
<1>2. B \in Seq(Byte)
  BY DEF IsLayout
<1>3. \A i \in 1 .. L : WholeAt(B, enc, i)
  BY DEF IsLayout
<1>4. w = Width(enc, c)
  OBVIOUS
<1> HIDE DEF w, y
<1>5. /\ D \in Seq(Byte) /\ Len(D) = L + w /\ L \in Nat
      /\ \A i \in 1 .. L : D[i] = B[i]
      /\ \A i \in L + 1 .. L + w : D[i] = y[i - L]
  BY <1>1, <1>2, Concat
<1> HIDE DEF L, D
<1>6. ASSUME NEW i \in 1 .. L PROVE WholeAt(D, enc, i)
  <2>1. WholeAt(B, enc, i) /\ D[i] = B[i]
    BY <1>3, <1>5
  <2>2. Before(B, i) \in 0 .. i - 1 /\ After(B, i) \in i .. L
    BY <2>1 DEF WholeAt, L
  <2>3. Before(D, i) = Before(B, i) /\ After(D, i) = After(B, i)
    BY <2>1 DEF Before, After
  <2>4. ASSUME NEW j \in 1 .. B[i].of
        PROVE  D[Before(B, i) + j] = [c |-> B[i].c, k |-> j, of |-> B[i].of]
    <3>1. B[i].of \in 1 .. 3 /\ B[i].k \in 1 .. 3
      BY <2>1 DEF WholeAt, Byte
    <3>2. Before(B, i) + j \in 1 .. L
      <4> DEFINE p == i - B[i].k
                 w1 == B[i].of
      <4>1. p \in 0 .. i - 1 /\ p + w1 \in i .. L /\ w1 \in 1 .. 3
        BY <2>2, <3>1 DEF Before, After
      <4>2. L \in Nat
        BY <1>5
      <4> HIDE DEF p, w1
      <4>3. j \in 1 .. w1 => p + j \in 1 .. L
        BY <4>1, <4>2
      <4> QED BY <4>3 DEF Before, p, w1
    <3>3. D[Before(B, i) + j] = B[Before(B, i) + j]
      BY <1>5, <3>2
    <3> QED BY <2>1, <3>3 DEF WholeAt
  <2>5. After(D, i) \in i .. Len(D)
    BY <1>1, <1>5, <2>2, <2>3
  <2> QED BY <2>1, <2>2, <2>3, <2>4, <2>5 DEF WholeAt
<1>7. ASSUME NEW i \in L + 1 .. L + w PROVE WholeAt(D, enc, i)
  <2>1. i - L \in 1 .. w /\ D[i] = y[i - L]
    BY <1>1, <1>5
  <2>2. D[i] = [c |-> c, k |-> i - L, of |-> w]
    BY <1>1, <2>1
  <2>3. D[i].c = c /\ D[i].k = i - L /\ D[i].of = w
    BY <2>2
  <2>4. Before(D, i) = L /\ After(D, i) = L + w
    BY <1>1, <1>5, <2>3 DEF Before, After
  <2>5. D[i] \in Byte
    BY <1>1, <2>1, <2>2 DEF Byte
  <2>6. ASSUME NEW j \in 1 .. w PROVE D[L + j] = [c |-> c, k |-> j, of |-> w]
    <3>1. L + j \in L + 1 .. L + w /\ (L + j) - L = j
      BY <1>1, <1>5
    <3>2. D[L + j] = y[(L + j) - L]
      BY <1>5, <3>1
    <3> QED BY <1>1, <3>1, <3>2
  <2>7. enc \in Multibyte => \E m \in Nat : L = 2 * m
    BY DEF IsLayout, L
  <2>8. D[i].of = Width(enc, D[i].c) /\ D[i].k <= D[i].of
    BY <1>4, <2>1, <2>3
  <2>9. Before(D, i) \in 0 .. i - 1 /\ After(D, i) \in i .. Len(D)
    BY <1>1, <1>5, <2>4
  <2> QED BY <2>3, <2>4, <2>5, <2>6, <2>7, <2>8, <2>9 DEF WholeAt
<1>8. enc \in Multibyte => \E m \in Nat : Len(D) = 2 * m
  <2>1. SUFFICES ASSUME enc \in Multibyte PROVE \E m \in Nat : Len(D) = 2 * m
    OBVIOUS
  <2>2. PICK m \in Nat : L = 2 * m
    BY <2>1 DEF IsLayout, L
  <2>3. Len(D) = 2 * (m + 1) /\ m + 1 \in Nat
    BY <1>1, <1>5, <2>1, <2>2
  <2> QED BY <2>3
<1>9. \A i \in 1 .. Len(D) : WholeAt(D, enc, i)
  BY <1>1, <1>5, <1>6, <1>7
<1> QED BY <1>5, <1>8, <1>9 DEF IsLayout, D, y

(***************************************************************************)
(* What is written in a file, in bytes, begins with its first character.   *)
(***************************************************************************)
LEMMA LayoutWhole ==
  ASSUME NEW f \in Files
  PROVE  /\ IsLayout(Layout[f], f.encoding)
         /\ Len(Layout[f]) > 0 => Layout[f][1].c = f.chars[1]
<1> DEFINE N == Len(f.chars)
           g == [i \in 1 .. N |-> BytesOf(f.encoding, f.chars[i])]
           S == {n \in 0 .. N : /\ IsLayout(Joined(g, n), f.encoding)
                                /\ n > 0 => Len(Joined(g, n)) > 0 /\ Joined(g, n)[1].c = f.chars[1]}
<1>1. f.chars \in Seq(Written)
  BY LineReaderAssumption
<1>2. N \in Nat /\ \A i \in 1 .. N : f.chars[i] \in Written
  BY <1>1
<1>3. Layout[f] = Joined(g, N)
  BY DEF Layout
<1>4. \A i \in 1 .. N : g[i] = BytesOf(f.encoding, f.chars[i]) /\ g[i] \in Seq(Byte)
  BY <1>2, OneChar
<1>5. 0 \in S
  <2>1. IsLayout(<<>>, f.encoding)
    <3>1. <<>> \in Seq(Byte)
      OBVIOUS
    <3>2. 1 .. Len(<<>>) = {} /\ Len(<<>>) = 2 * 0 /\ 0 \in Nat
      OBVIOUS
    <3> QED BY <3>1, <3>2 DEF IsLayout
  <2> HIDE DEF g
  <2>2. Joined(g, 0) = <<>>
    BY JoinedNone
  <2> QED BY <1>2, <2>1, <2>2
<1>6. ASSUME NEW n \in 0 .. N - 1, n \in S PROVE n + 1 \in S
  <2> HIDE DEF g
  <2>1. n + 1 \in 1 .. N /\ n + 1 \in 0 .. N
    BY <1>2
  <2>2. Joined(g, n + 1) = Joined(g, n) \o g[n + 1] /\ Joined(g, n) \in Seq(Byte)
    BY <1>2, <1>4, JoinedStep
  <2>3. g[n + 1] = BytesOf(f.encoding, f.chars[n + 1]) /\ f.chars[n + 1] \in Written
    BY <1>2, <1>4, <2>1
  <2>4. IsLayout(Joined(g, n), f.encoding)
    BY <1>6
  <2>5. IsLayout(Joined(g, n + 1), f.encoding)
    BY <2>2, <2>3, <2>4, LayoutNext
  <2> DEFINE x == Joined(g, n)
             y == BytesOf(f.encoding, f.chars[n + 1])
  <2>6. /\ y \in Seq(Byte) /\ Len(y) > 0 /\ y[1].c = f.chars[n + 1]
    <3> DEFINE w == Width(f.encoding, f.chars[n + 1])
    <3>1. y \in Seq(Byte) /\ w \in 1 .. 3 /\ Len(y) = w
      BY <2>3, OneChar
    <3>2. \A k \in 1 .. w : y[k] = [c |-> f.chars[n + 1], k |-> k, of |-> w]
      BY <2>3, OneChar
    <3> HIDE DEF y, w
    <3>3. 1 \in 1 .. w
      BY <3>1
    <3>4. y[1] = [c |-> f.chars[n + 1], k |-> 1, of |-> w]
      BY <3>2, <3>3
    <3> QED BY <3>1, <3>4
  <2>7. x \in Seq(Byte) /\ Joined(g, n + 1) = x \o y
    BY <2>2, <2>3
  <2>8. n > 0 => Len(x) > 0 /\ x[1].c = f.chars[1]
    BY <1>6
  <2>9. n = 0 => x = <<>>
    BY JoinedNone
  <2> HIDE DEF x, y
  <2>10. Len(x \o y) > 0 /\ (x \o y)[1].c = f.chars[1]
    <3>1. CASE n = 0
      <4>1. x \o y = y /\ n + 1 = 1
        BY <2>6, <2>7, <2>9, <3>1
      <4> QED BY <2>6, <4>1
    <3>2. CASE n > 0
      <4>1. 1 \in 1 .. Len(x) /\ Len(x) \in Nat
        BY <2>7, <2>8, <3>2
      <4>2. (x \o y)[1] = x[1] /\ Len(x \o y) > 0
        BY <2>6, <2>7, <4>1
      <4> QED BY <2>8, <3>2, <4>2
    <3> QED BY <3>1, <3>2
  <2> QED BY <2>1, <2>5, <2>7, <2>10
<1>7. N \in S
  <2> HIDE DEF S
  <2>1. \A n \in 0 .. N : n \in S
    BY <1>2, <1>5, <1>6, UpTo
  <2> QED BY <1>2, <2>1
<1>8. N = 0 => Len(Joined(g, N)) = 0
  <2>1. Len(<<>>) = 0
    OBVIOUS
  <2> HIDE DEF g
  <2> QED BY <2>1, JoinedNone
<1> HIDE DEF g
<1>9. IsLayout(Joined(g, N), f.encoding) /\ (N > 0 => Joined(g, N)[1].c = f.chars[1])
  BY <1>7
<1> QED BY <1>2, <1>3, <1>8, <1>9

(***************************************************************************)
(* Where characters begin and end.                                         *)
(***************************************************************************)
EndsIn(B, i) == i = 0 \/ B[i].k = B[i].of

LEMMA NextByte ==
  ASSUME NEW B, NEW enc, IsLayout(B, enc), NEW i \in 0 .. Len(B) - 1
  PROVE  /\ EndsIn(B, i) <=> B[i + 1].k = 1
         /\ ~EndsIn(B, i) => B[i + 1] = [c |-> B[i].c, k |-> B[i].k + 1, of |-> B[i].of]
<1>0. Len(B) \in Nat /\ i + 1 \in 1 .. Len(B)
  BY DEF IsLayout
<1> DEFINE n == i + 1
<1>1. WholeAt(B, enc, n) /\ n \in 1 .. Len(B)
  BY <1>0 DEF IsLayout
<1> HIDE DEF n
<1>2. B[n].k \in 1 .. 3 /\ B[n].of \in 1 .. 3 /\ B[n].k <= B[n].of
  BY <1>1 DEF WholeAt, Byte
<1>3. B[n].k \in 1 .. n
  BY <1>1, <1>2 DEF WholeAt, Before
<1>4. CASE i = 0
  <2>1. n = 1
    BY <1>4 DEF n
  <2> QED BY <1>2, <1>3, <1>4, <2>1 DEF EndsIn, n
<1>5. CASE i # 0
  <2>1. i \in 1 .. Len(B) /\ WholeAt(B, enc, i)
    BY <1>0, <1>5 DEF IsLayout
  <2>2. B[i].k \in 1 .. 3 /\ B[i].of \in 1 .. 3 /\ B[i].k <= B[i].of
    BY <2>1 DEF WholeAt, Byte
  <2>3. ~EndsIn(B, i) => B[n] = [c |-> B[i].c, k |-> B[i].k + 1, of |-> B[i].of]
    <3>1. SUFFICES ASSUME ~EndsIn(B, i)
                   PROVE  B[n] = [c |-> B[i].c, k |-> B[i].k + 1, of |-> B[i].of]
      OBVIOUS
    <3> DEFINE j == B[i].k + 1
    <3>2. j \in 1 .. B[i].of
      BY <2>2, <3>1 DEF EndsIn
    <3>3. Before(B, i) + j = n
      BY <1>0, <2>1, <2>2 DEF Before, n
    <3> HIDE DEF j
    <3>4. B[Before(B, i) + j] = [c |-> B[i].c, k |-> j, of |-> B[i].of]
      BY <2>1, <3>2 DEF WholeAt
    <3> QED BY <3>3, <3>4 DEF j
  <2>4. B[n].k # 1 => ~EndsIn(B, i)
    <3>1. SUFFICES ASSUME B[n].k # 1 PROVE ~EndsIn(B, i)
      OBVIOUS
    <3> DEFINE j == B[n].k - 1
    <3>2. j \in 1 .. B[n].of
      BY <1>2, <3>1
    <3>3. Before(B, n) + j = i
      BY <1>0, <1>2 DEF Before, n
    <3> HIDE DEF j
    <3>4. B[Before(B, n) + j] = [c |-> B[n].c, k |-> j, of |-> B[n].of]
      BY <1>1, <3>2 DEF WholeAt
    <3>5. B[i].k = j /\ B[i].of = B[n].of
      BY <3>3, <3>4
    <3>6. j # B[n].of
      BY <1>2, <3>1 DEF j
    <3> QED BY <1>5, <3>5, <3>6 DEF EndsIn
  <2>5. ~EndsIn(B, i) => B[n].k # 1
    BY <2>2, <2>3
  <2> QED BY <2>3, <2>4, <2>5 DEF n
<1> QED BY <1>4, <1>5

LEMMA CharEnds ==
  ASSUME NEW B, NEW enc, IsLayout(B, enc), NEW i \in 1 .. Len(B)
  PROVE  EndsIn(B, After(B, i)) /\ B[After(B, i)].c = B[i].c
<1>1. WholeAt(B, enc, i)
  BY DEF IsLayout
<1> DEFINE j == B[i].of
<1>2. j \in 1 .. B[i].of /\ Before(B, i) + j = After(B, i)
  BY <1>1 DEF WholeAt, Byte, Before, After
<1> HIDE DEF j
<1>3. B[Before(B, i) + j] = [c |-> B[i].c, k |-> j, of |-> B[i].of]
  BY <1>1, <1>2 DEF WholeAt
<1> QED BY <1>2, <1>3 DEF EndsIn, j

(***************************************************************************)
(* A run: all the characters between two places, in their order.           *)
(***************************************************************************)
EndOf(B, d) == d.at + (B[d.at].of - 1)
IsCharOf(B, d) == d.at \in 1 .. Len(B) /\ B[d.at].k = 1 /\ d = Char(B[d.at].c, d.at)

Within(B, m, b, e) ==
  \A n \in 1 .. Len(m) : IsCharOf(B, m[n]) /\ m[n].at > b /\ EndOf(B, m[n]) <= e
Rises(m) == \A n \in 1 .. Len(m) : \A p \in 1 .. n - 1 : m[p].at < m[n].at
Adjoins(B, m) == \A n \in 1 .. Len(m) - 1 : m[n + 1].at = EndOf(B, m[n]) + 1

Letter == Written \cup {"?", "nul"}
Piece == [c : Letter, at : Nat]

Run(B, m, b, e) ==
  /\ m \in Seq(Piece) /\ b \in Nat /\ e \in Nat
  /\ Within(B, m, b, e) /\ Rises(m) /\ Adjoins(B, m)
  /\ m = <<>> => b = e
  /\ m # <<>> => m[1].at = b + 1 /\ EndOf(B, m[Len(m)]) = e

LEMMA RunEnd ==
  ASSUME NEW B, NEW enc, IsLayout(B, enc), NEW d, IsCharOf(B, d)
  PROVE  EndOf(B, d) = After(B, d.at) /\ EndOf(B, d) \in d.at .. Len(B) /\ d \in Piece
<1>1. WholeAt(B, enc, d.at) /\ d.at \in Nat
  BY DEF IsLayout, IsCharOf
<1>2. B[d.at].k = 1 /\ B[d.at].of \in 1 .. 3 /\ B[d.at].c \in Written
  BY <1>1 DEF WholeAt, Byte, IsCharOf
<1>3. EndOf(B, d) = After(B, d.at)
  BY <1>1, <1>2 DEF EndOf, After
<1>4. After(B, d.at) \in d.at .. Len(B)
  BY <1>1 DEF WholeAt
<1>5. d \in Piece
  BY <1>1, <1>2 DEF IsCharOf, Char, Piece, Letter
<1> QED BY <1>3, <1>4, <1>5

LEMMA RunNone ==
  ASSUME NEW B, NEW b \in Nat
  PROVE  Run(B, <<>>, b, b)
<1>1. <<>> \in Seq(Piece) /\ Len(<<>>) = 0 /\ 1 .. 0 = {} /\ 1 .. 0 - 1 = {}
  OBVIOUS
<1> QED BY <1>1 DEF Run, Within, Rises, Adjoins

LEMMA RunOne ==
  ASSUME NEW B, NEW enc, IsLayout(B, enc), NEW d, IsCharOf(B, d), NEW b \in Nat, d.at = b + 1
  PROVE  Run(B, <<d>>, b, EndOf(B, d))
<1>1. EndOf(B, d) \in Nat /\ d \in Piece /\ EndOf(B, d) >= d.at /\ d.at \in Nat
  BY RunEnd DEF IsCharOf
<1>2. <<d>> \in Seq(Piece) /\ Len(<<d>>) = 1 /\ <<d>>[1] = d /\ <<d>> # <<>> /\ 1 .. 1 - 1 = {} /\ 1 .. 1 = {1}
  BY <1>1
<1> DEFINE m == <<d>>
<1> HIDE DEF m
<1>3. m \in Seq(Piece) /\ Len(m) = 1 /\ m[1] = d /\ m # <<>>
  BY <1>2 DEF m
<1>4. Within(B, m, b, EndOf(B, d)) /\ Rises(m) /\ Adjoins(B, m)
  BY <1>1, <1>2, <1>3 DEF Within, Rises, Adjoins
<1> QED BY <1>1, <1>3, <1>4 DEF Run, m

LEMMA RunConcat ==
  ASSUME NEW B, NEW enc, IsLayout(B, enc), NEW x, NEW y, NEW b, NEW c, NEW e,
         Run(B, x, b, c), Run(B, y, c, e), b <= c, c <= e
  PROVE  Run(B, x \o y, b, e)
<1> DEFINE m == x \o y
           L == Len(x)
           K == Len(y)
<1>0. x \in Seq(Piece) /\ y \in Seq(Piece) /\ b \in Nat /\ c \in Nat /\ e \in Nat
  BY DEF Run
<1>1. /\ m \in Seq(Piece) /\ Len(m) = L + K /\ L \in Nat /\ K \in Nat
      /\ \A i \in 1 .. L : m[i] = x[i]
      /\ \A i \in L + 1 .. L + K : m[i] = y[i - L]
  BY <1>0, Concat
<1>2. (x = <<>> => m = y) /\ (y = <<>> => m = x) /\ (x # <<>> => L > 0) /\ (y # <<>> => K > 0)
  BY <1>0
<1>3. CASE x = <<>>
  BY <1>2, <1>3 DEF Run
<1>4. CASE y = <<>>
  BY <1>2, <1>4 DEF Run
<1>5. CASE x # <<>> /\ y # <<>>
  <2> HIDE DEF m, L, K
  <2>0. L > 0 /\ K > 0
    BY <1>2, <1>5
  <2>1. \A i \in 1 .. L : IsCharOf(B, m[i]) /\ m[i].at > b /\ EndOf(B, m[i]) <= c
    BY <1>1 DEF Run, Within, L
  <2>2. \A i \in L + 1 .. L + K : i - L \in 1 .. K
    BY <1>1
  <2>3. \A i \in L + 1 .. L + K : IsCharOf(B, m[i]) /\ m[i].at > c /\ EndOf(B, m[i]) <= e
    BY <1>1, <2>2 DEF Run, Within, K
  <2>4. \A i \in 1 .. L + K : IsCharOf(B, m[i]) => EndOf(B, m[i]) \in Nat /\ m[i].at \in Nat /\ m[i].at <= EndOf(B, m[i])
    <3>1. ASSUME NEW d, IsCharOf(B, d) PROVE EndOf(B, d) \in Nat /\ d.at \in Nat /\ d.at <= EndOf(B, d)
      BY <3>1, RunEnd DEF IsCharOf
    <3> QED BY <3>1
  <2>5. \A i \in 1 .. L + K : i \in 1 .. L \/ i \in L + 1 .. L + K
    BY <1>1
  <2>6. Within(B, m, b, e)
    <3>1. \A i \in 1 .. L : IsCharOf(B, m[i]) /\ m[i].at > b /\ EndOf(B, m[i]) <= e
      <4> SUFFICES ASSUME NEW i \in 1 .. L PROVE EndOf(B, m[i]) <= e
        BY <2>1
      <4>1. i \in 1 .. L + K
        BY <1>1
      <4>2. EndOf(B, m[i]) \in Nat /\ EndOf(B, m[i]) <= c
        BY <2>1, <2>4, <4>1
      <4> QED BY <1>0, <4>2
    <3>2. \A i \in L + 1 .. L + K : IsCharOf(B, m[i]) /\ m[i].at > b /\ EndOf(B, m[i]) <= e
      <4> SUFFICES ASSUME NEW i \in L + 1 .. L + K PROVE m[i].at > b
        BY <2>3
      <4>1. i \in 1 .. L + K
        BY <1>1
      <4>2. m[i].at \in Nat /\ m[i].at > c
        BY <2>3, <2>4, <4>1
      <4> QED BY <1>0, <4>2
    <3> QED BY <1>1, <2>5, <3>1, <3>2 DEF Within
  <2>7. Rises(m)
    <3> SUFFICES ASSUME NEW n \in 1 .. L + K, NEW p \in 1 .. n - 1 PROVE m[p].at < m[n].at
      BY <1>1 DEF Rises
    <3>1. CASE n \in 1 .. L
      <4>1. p \in 1 .. L /\ m[p] = x[p] /\ m[n] = x[n]
        BY <1>1, <3>1
      <4> QED BY <3>1, <4>1 DEF Run, Rises, L
    <3>2. CASE p \in L + 1 .. L + K
      <4> DEFINE p1 == p - L
                 n1 == n - L
      <4>0. p \in L + 1 .. L + K /\ n \in L + 1 .. L + K /\ p < n
        BY <1>1, <3>2
      <4>1. n1 \in 1 .. K /\ p1 \in 1 .. n1 - 1 /\ m[p] = y[p1] /\ m[n] = y[n1]
        <5>1. n1 \in 1 .. K /\ p1 \in 1 .. n1 - 1
          BY <1>1, <4>0
        <5> QED BY <1>1, <4>0, <5>1
      <4> HIDE DEF p1, n1
      <4>2. y[p1].at < y[n1].at
        BY <4>1 DEF Run, Rises, K
      <4> QED BY <4>1, <4>2
    <3>3. CASE p \in 1 .. L /\ n \in L + 1 .. L + K
      <4>1. p \in 1 .. L + K
        BY <1>1
      <4>2. /\ EndOf(B, m[p]) \in Nat /\ m[p].at \in Nat /\ m[p].at <= EndOf(B, m[p])
            /\ EndOf(B, m[p]) <= c /\ m[n].at > c /\ m[n].at \in Nat
        BY <2>1, <2>3, <2>4, <3>3, <4>1
      <4> QED BY <1>0, <4>2
    <3> QED BY <1>1, <3>1, <3>2, <3>3
  <2>8. Adjoins(B, m)
    <3> SUFFICES ASSUME NEW n \in 1 .. (L + K) - 1 PROVE m[n + 1].at = EndOf(B, m[n]) + 1
      BY <1>1 DEF Adjoins
    <3>1. CASE n < L
      <4>1. n \in 1 .. L - 1 /\ m[n] = x[n] /\ m[n + 1] = x[n + 1]
        <5>1. L \in Nat /\ \A i \in 1 .. L : m[i] = x[i]
          BY <1>1
        <5>2. n \in 1 .. L - 1 /\ n \in 1 .. L /\ n + 1 \in 1 .. L
          BY <3>1, <5>1
        <5> QED BY <5>1, <5>2
      <4> QED BY <4>1 DEF Run, Adjoins, L
    <3>2. CASE n = L
      <4>1. m[n] = x[L] /\ m[n + 1] = y[1]
        BY <1>1, <2>0, <3>2
      <4>2. EndOf(B, x[L]) = c /\ y[1].at = c + 1
        BY <1>5 DEF Run, L
      <4> QED BY <4>1, <4>2
    <3>3. CASE n > L
      <4> DEFINE p == n - L
      <4>1. p \in 1 .. K - 1 /\ n - L = p /\ (n + 1) - L = p + 1 /\ n + 1 \in L + 1 .. L + K /\ n \in L + 1 .. L + K
        BY <1>1, <3>3
      <4>2. m[n] = y[p] /\ m[n + 1] = y[p + 1]
        BY <1>1, <4>1
      <4> HIDE DEF p
      <4>3. y[p + 1].at = EndOf(B, y[p]) + 1
        BY <4>1 DEF Run, Adjoins, K
      <4> QED BY <4>2, <4>3
    <3> QED BY <1>1, <3>1, <3>2, <3>3
  <2>9. m # <<>> /\ m[1].at = b + 1 /\ EndOf(B, m[Len(m)]) = e
    <3>1. m[1] = x[1] /\ m[Len(m)] = y[K]
      <4>1. 1 \in 1 .. L /\ L + K \in L + 1 .. L + K /\ (L + K) - L = K
        BY <1>1, <2>0
      <4> QED BY <1>1, <4>1
    <3>2. x[1].at = b + 1 /\ EndOf(B, y[K]) = e
      BY <1>5 DEF Run, K
    <3>3. m # <<>>
      BY <1>1, <2>0
    <3> QED BY <3>1, <3>2, <3>3
  <2> QED BY <1>0, <1>1, <2>6, <2>7, <2>8, <2>9 DEF Run, m
<1> QED BY <1>3, <1>4, <1>5

LEMMA PartOf ==
  ASSUME NEW T, NEW m \in Seq(T), NEW p \in 1 .. Len(m) + 1, NEW q \in p - 1 .. Len(m)
  PROVE  /\ SubSeq(m, p, q) \in Seq(T) /\ Len(SubSeq(m, p, q)) = (q + 1) - p
         /\ \A i \in 1 .. (q + 1) - p : SubSeq(m, p, q)[i] = m[(p - 1) + i]
OBVIOUS

LEMMA RunPart ==
  ASSUME NEW B, NEW enc, IsLayout(B, enc), NEW m, NEW b, NEW e, Run(B, m, b, e),
         NEW p \in 1 .. Len(m), NEW q \in p .. Len(m)
  PROVE  Run(B, SubSeq(m, p, q), m[p].at - 1, EndOf(B, m[q]))
<1> DEFINE s == SubSeq(m, p, q)
           K == (q + 1) - p
           h == p - 1
           L == Len(m)
<1>0. m \in Seq(Piece) /\ L \in Nat /\ b \in Nat /\ e \in Nat
  BY DEF Run
<1>1. s \in Seq(Piece) /\ Len(s) = K /\ \A i \in 1 .. K : s[i] = m[h + i]
  <2>1. p \in 1 .. Len(m) + 1 /\ q \in p - 1 .. Len(m)
    BY <1>0
  <2> QED BY <1>0, <2>1, PartOf
<1>2. p \in 1 .. L /\ q \in p .. L /\ K = (q + 1) - p /\ h = p - 1
  OBVIOUS
<1>3. Within(B, m, b, e) /\ Rises(m) /\ Adjoins(B, m) /\ L = Len(m)
  BY DEF Run
<1> HIDE DEF s, K, h, L
<1>4. K \in Nat \ {0} /\ \A i \in 1 .. K : h + i \in p .. q /\ h + i \in 1 .. L
  BY <1>0, <1>2
<1>5. \A i \in p .. q : IsCharOf(B, m[i]) /\ EndOf(B, m[i]) \in Nat /\ m[i].at \in Nat /\ m[i].at <= EndOf(B, m[i])
                        /\ m[i].at > b
  <2>1. ASSUME NEW d, IsCharOf(B, d) PROVE EndOf(B, d) \in Nat /\ d.at \in Nat /\ d.at <= EndOf(B, d)
    BY <2>1, RunEnd DEF IsCharOf
  <2>2. \A i \in p .. q : i \in 1 .. L
    BY <1>0, <1>2
  <2> QED BY <1>3, <2>1, <2>2 DEF Within
<1>6. \A i \in p .. q : \A j \in p .. q : i < j => m[i].at < m[j].at
  <2> SUFFICES ASSUME NEW i \in p .. q, NEW j \in p .. q, i < j PROVE m[i].at < m[j].at
    OBVIOUS
  <2>1. j \in 1 .. L /\ i \in 1 .. j - 1
    BY <1>0, <1>2
  <2> QED BY <1>3, <2>1 DEF Rises
<1>7. \A i \in p .. q : i < q => m[i + 1].at = EndOf(B, m[i]) + 1
  <2> SUFFICES ASSUME NEW i \in p .. q, i < q PROVE m[i + 1].at = EndOf(B, m[i]) + 1
    OBVIOUS
  <2>1. i \in 1 .. L - 1
    BY <1>0, <1>2
  <2> QED BY <1>3, <2>1 DEF Adjoins
<1>8. \A i \in p .. q : m[i].at >= m[p].at /\ EndOf(B, m[i]) <= EndOf(B, m[q])
  <2> SUFFICES ASSUME NEW i \in p .. q PROVE m[i].at >= m[p].at /\ EndOf(B, m[i]) <= EndOf(B, m[q])
    OBVIOUS
  <2>0. p \in p .. q /\ q \in p .. q /\ i \in Nat /\ p \in Nat /\ q \in Nat
    BY <1>0, <1>2
  <2>1. i = p \/ m[p].at < m[i].at
    BY <1>6, <2>0
  <2>2. CASE i = q
    BY <1>5, <2>0, <2>1, <2>2
  <2>3. CASE i # q
    <3> DEFINE j == i + 1
    <3>1. i < q /\ j \in p .. q /\ j \in Nat
      BY <2>0, <2>3
    <3>2. m[j].at = EndOf(B, m[i]) + 1
      BY <1>7, <3>1
    <3> HIDE DEF j
    <3>3. j = q \/ m[j].at < m[q].at
      BY <1>6, <2>0, <3>1
    <3>4. /\ EndOf(B, m[i]) \in Nat /\ m[j].at \in Nat /\ m[q].at \in Nat /\ EndOf(B, m[q]) \in Nat
          /\ m[q].at <= EndOf(B, m[q]) /\ m[p].at \in Nat /\ m[i].at \in Nat
      BY <1>5, <2>0, <3>1
    <3>5. m[j].at <= m[q].at
      BY <3>3, <3>4
    <3> QED BY <2>1, <3>2, <3>4, <3>5
  <2> QED BY <2>2, <2>3
<1>9. m[p].at - 1 \in Nat
  <2>1. p \in p .. q
    BY <1>0, <1>2
  <2>2. m[p].at \in Nat /\ m[p].at > b
    BY <1>5, <2>1
  <2> QED BY <1>0, <2>2
<1>10. Within(B, s, m[p].at - 1, EndOf(B, m[q]))
  <2> SUFFICES ASSUME NEW n \in 1 .. K
               PROVE  IsCharOf(B, s[n]) /\ s[n].at > m[p].at - 1 /\ EndOf(B, s[n]) <= EndOf(B, m[q])
    BY <1>1 DEF Within
  <2> DEFINE i == h + n
  <2>1. i \in p .. q /\ s[n] = m[i] /\ p \in p .. q
    BY <1>0, <1>1, <1>2, <1>4
  <2> HIDE DEF i
  <2>2. IsCharOf(B, m[i]) /\ m[i].at >= m[p].at /\ EndOf(B, m[i]) <= EndOf(B, m[q])
    BY <1>5, <1>8, <2>1
  <2>3. m[i].at \in Nat /\ m[p].at \in Nat
    BY <1>5, <2>1
  <2> QED BY <2>1, <2>2, <2>3
<1>11. Rises(s)
  <2> SUFFICES ASSUME NEW n \in 1 .. K, NEW r \in 1 .. n - 1 PROVE s[r].at < s[n].at
    BY <1>1 DEF Rises
  <2> DEFINE i == h + n
             j == h + r
  <2>1. r \in 1 .. K
    BY <1>4
  <2>2. i \in p .. q /\ j \in p .. q /\ j < i /\ s[n] = m[i] /\ s[r] = m[j]
    BY <1>0, <1>1, <1>2, <1>4, <2>1
  <2> HIDE DEF i, j
  <2> QED BY <1>6, <2>2
<1>12. Adjoins(B, s)
  <2> SUFFICES ASSUME NEW n \in 1 .. K - 1 PROVE s[n + 1].at = EndOf(B, s[n]) + 1
    BY <1>1 DEF Adjoins
  <2> DEFINE i == h + n
  <2>1. n \in 1 .. K /\ n + 1 \in 1 .. K /\ h + (n + 1) = i + 1
    BY <1>0, <1>2, <1>4
  <2>2. s[n] = m[i] /\ s[n + 1] = m[i + 1] /\ i \in p .. q /\ i < q
    BY <1>0, <1>1, <1>2, <1>4, <2>1
  <2> HIDE DEF i
  <2> QED BY <1>7, <2>2
<1>13. s # <<>> /\ s[1] = m[p] /\ s[K] = m[q] /\ Len(s) = K
  <2>1. 1 \in 1 .. K /\ K \in 1 .. K /\ h + 1 = p /\ h + K = q
    BY <1>0, <1>2, <1>4
  <2>2. s # <<>>
    BY <1>1, <1>4
  <2> QED BY <1>1, <2>1, <2>2
<1>14. EndOf(B, m[q]) \in Nat /\ m[p].at \in Nat
  <2>1. p \in p .. q /\ q \in p .. q
    BY <1>0, <1>2
  <2> QED BY <1>5, <2>1
<1>15. s[1].at = (m[p].at - 1) + 1 /\ EndOf(B, s[Len(s)]) = EndOf(B, m[q])
  BY <1>13, <1>14
<1>16. Run(B, s, m[p].at - 1, EndOf(B, m[q]))
  BY <1>1, <1>9, <1>10, <1>11, <1>12, <1>13, <1>14, <1>15 DEF Run
<1> QED BY <1>16 DEF s

(***************************************************************************)
(* Every character between the two places is in a run.                     *)
(***************************************************************************)
LEMMA RunComplete ==
  ASSUME NEW B, NEW enc, IsLayout(B, enc), NEW m, NEW b, NEW e, Run(B, m, b, e),
         NEW i \in b + 1 .. e, B[i].k = 1
  PROVE  \E n \in 1 .. Len(m) : m[n] = Char(B[i].c, i)
<1> DEFINE L == Len(m)
           S == {n \in 1 .. L : m[n].at <= i}
<1>0. m \in Seq(Piece) /\ L \in Nat /\ b \in Nat /\ e \in Nat
  BY DEF Run
<1>1. m # <<>>
  BY <1>0 DEF Run
<1>2. 1 \in S
  BY <1>0, <1>1 DEF Run
<1>3. S \subseteq 0 .. L /\ S # {}
  BY <1>0, <1>2
<1> DEFINE n == Max(S)
<1>4. n \in S /\ \A k \in S : k <= n
  BY <1>0, <1>3, MaxIs
<1> HIDE DEF n
<1>5. n \in 1 .. L /\ m[n].at <= i
  BY <1>4
<1>6. Within(B, m, b, e) /\ Rises(m) /\ Adjoins(B, m)
  BY DEF Run
<1>7. IsCharOf(B, m[n])
  BY <1>5, <1>6 DEF Within
<1>8. EndOf(B, m[n]) = After(B, m[n].at) /\ EndOf(B, m[n]) \in Nat /\ m[n].at \in Nat
  BY <1>7, RunEnd DEF IsCharOf
<1>9. i <= EndOf(B, m[n])
  <2>1. CASE n = L
    <3>1. EndOf(B, m[n]) = e
      BY <1>1, <2>1 DEF Run
    <3> QED BY <3>1
  <2>2. CASE n < L
    <3>1. n \in 1 .. L - 1 /\ n + 1 \in 1 .. L /\ ~(n + 1 <= n)
      BY <1>0, <1>5, <2>2
    <3>2. ~(m[n + 1].at <= i)
      BY <1>4, <3>1
    <3>3. m[n + 1].at = EndOf(B, m[n]) + 1
      BY <1>6, <3>1 DEF Adjoins
    <3> QED BY <1>0, <1>8, <3>2, <3>3
  <2> QED BY <1>0, <1>5, <2>1, <2>2
<1> DEFINE a == m[n].at
           j == (i - a) + 1
<1>10. a \in 1 .. Len(B) /\ B[a].k = 1 /\ m[n] = Char(B[a].c, a)
  BY <1>7 DEF IsCharOf
<1>11. a <= i /\ i <= After(B, a) /\ a \in Nat
  BY <1>5, <1>8, <1>9
<1> HIDE DEF a
<1>12. WholeAt(B, enc, a)
  BY <1>10 DEF IsLayout
<1>13. j \in 1 .. B[a].of /\ Before(B, a) + j = i
  BY <1>0, <1>10, <1>11, <1>12 DEF WholeAt, Byte, Before, After
<1> HIDE DEF j
<1>14. B[i] = [c |-> B[a].c, k |-> j, of |-> B[a].of]
  BY <1>12, <1>13 DEF WholeAt
<1>15. j = 1
  BY <1>14
<1>16. a = i
  BY <1>0, <1>10, <1>11, <1>13, <1>15 DEF Before
<1> QED BY <1>5, <1>10, <1>16

LEMMA JoinedHas ==
  ASSUME NEW f, NEW N \in Nat, NEW S, \A k \in 1 .. N : f[k] \in Seq(S),
         NEW k \in 1 .. N, NEW j \in 1 .. Len(f[k])
  PROVE  \E x \in 1 .. Len(Joined(f, N)) : Joined(f, N)[x] = f[k][j]
<1> DEFINE D == {n \in 0 .. N : n >= k => \E x \in 1 .. Len(Joined(f, n)) : Joined(f, n)[x] = f[k][j]}
<1>1. 0 \in D
  OBVIOUS
<1>2. ASSUME NEW n \in 0 .. N - 1, n \in D PROVE n + 1 \in D
  <2> DEFINE a == Joined(f, n)
             y == f[n + 1]
             z == Joined(f, n + 1)
  <2>1. z = a \o y /\ a \in Seq(S) /\ y \in Seq(S)
    BY JoinedStep
  <2>2. n >= k => \E x \in 1 .. Len(a) : a[x] = f[k][j]
    BY <1>2
  <2>3. n + 1 = k => y = f[k]
    OBVIOUS
  <2>4. n + 1 \in 0 .. N /\ n + 1 \in Nat /\ n \in Nat
    OBVIOUS
  <2> HIDE DEF a, y, z, D
  <2>5. n + 1 >= k => \E x \in 1 .. Len(z) : z[x] = f[k][j]
    <3>1. CASE n >= k
      <4>1. PICK x \in 1 .. Len(a) : a[x] = f[k][j]
        BY <2>2, <3>1
      <4>2. x \in 1 .. Len(z) /\ z[x] = a[x]
        BY <2>1, Concat
      <4> QED BY <4>1, <4>2
    <3>2. CASE n + 1 = k
      <4>1. y = f[k] /\ j \in 1 .. Len(y)
        BY <2>3, <3>2
      <4> DEFINE x == Len(a) + j
      <4>2. x \in Len(a) + 1 .. Len(a) + Len(y) /\ x - Len(a) = j /\ x \in 1 .. Len(a) + Len(y)
        BY <2>1, <4>1
      <4> HIDE DEF x
      <4>3. z[x] = y[j] /\ x \in 1 .. Len(z)
        BY <2>1, <4>2, Concat
      <4> QED BY <4>1, <4>3
    <3> QED BY <2>4, <3>1, <3>2
  <2> QED BY <2>4, <2>5 DEF D, z
<1>3. \A n \in 0 .. N : n \in D
  <2> HIDE DEF D
  <2> QED BY <1>1, <1>2, UpTo
<1> QED BY <1>3

\* These are said by operators, for the lemma to be cited.
IsParts(f, N, S) == N \in Nat /\ \A k \in 1 .. N : f[k] \in Seq(S)
Has(s, d) == \E x \in 1 .. Len(s) : s[x] = d

LEMMA JoinedItem ==
  ASSUME NEW f, NEW N, NEW S, IsParts(f, N, S), NEW n \in 1 .. N, NEW d, f[n] = <<d>>
  PROVE  Has(Joined(f, N), d)
<1> USE DEF IsParts, Has
<1> DEFINE j == 1
<1>1. j \in 1 .. Len(f[n]) /\ f[n][j] = d
  OBVIOUS
<1> HIDE DEF j
<1>2. \E x \in 1 .. Len(Joined(f, N)) : Joined(f, N)[x] = f[n][j]
  BY <1>1, JoinedHas
<1> QED BY <1>1, <1>2

(***************************************************************************)
(* What the bytes of a chunk are read as.                                  *)
(***************************************************************************)
LEMMA BytesLaid ==
  ASSUME file \in Files
  PROVE  IsLayout(Bytes, file.encoding)
BY LayoutWhole DEF Bytes

PieceIn(S, b, e) == [c : S, at : b .. e]

\* What is not the beginning of a character is in the same one as the byte before it.
LEMMA SameChar ==
  ASSUME NEW B, NEW enc, IsLayout(B, enc), NEW i \in 1 .. Len(B) - 1, B[i + 1].k # 1
  PROVE  After(B, i + 1) = After(B, i)
<1>1. B[i + 1] = [c |-> B[i].c, k |-> B[i].k + 1, of |-> B[i].of]
  <2>1. i \in 0 .. Len(B) - 1
    OBVIOUS
  <2> QED BY <2>1, NextByte
<1> DEFINE n == i + 1
<1> HIDE DEF n
<1>2. B[n].k = B[i].k + 1 /\ B[n].of = B[i].of
  BY <1>1 DEF n
<1>3. WholeAt(B, enc, i)
  BY DEF IsLayout
<1>4. B[i].k \in 1 .. 3 /\ B[i].of \in 1 .. 3
  BY <1>3 DEF WholeAt, Byte
<1>5. After(B, n) = After(B, i)
  BY <1>2, <1>4 DEF After, n
<1> QED BY <1>5 DEF n

Parts(f, B, from, to) ==
  \A n \in 1 .. to - (from - 1) :
    f[n] = IF B[(from - 1) + n].k = 1
           THEN <<Char(B[(from - 1) + n].c, (from - 1) + n)>> ELSE <<>>

LEMMA JoinedRun ==
  ASSUME NEW B, NEW enc, IsLayout(B, enc), NEW from \in Nat \ {0}, NEW to \in from - 1 .. Len(B),
         EndsIn(B, from - 1), EndsIn(B, to), NEW f, Parts(f, B, from, to)
  PROVE  Run(B, Joined(f, to - (from - 1)), from - 1, to)
<1> DEFINE b == from - 1
           N == to - b
           E(n) == IF n = 0 THEN b ELSE After(B, b + n)
           J(n) == Joined(f, n)
           D == {n \in 0 .. N : Run(B, J(n), b, E(n)) /\ E(n) >= b /\ E(n) \in Nat}
<1>0. b \in Nat /\ N \in Nat /\ to \in Nat /\ Len(B) \in Nat /\ b + N = to /\ to <= Len(B)
  BY DEF IsLayout
<1>1. \A n \in 1 .. N : f[n] = IF B[b + n].k = 1 THEN <<Char(B[b + n].c, b + n)>> ELSE <<>>
  BY DEF Parts
<1>2. EndsIn(B, b) /\ EndsIn(B, to)
  OBVIOUS
<1> HIDE DEF b, N
<1>3. \A n \in 1 .. N : b + n \in 1 .. Len(B) /\ WholeAt(B, enc, b + n)
  BY <1>0 DEF IsLayout
<1>4. \A n \in 1 .. N : B[b + n].k = 1 => IsCharOf(B, Char(B[b + n].c, b + n))
  BY <1>3 DEF IsCharOf, Char
<1>5. \A n \in 1 .. N : f[n] \in Seq(Piece)
  <2> SUFFICES ASSUME NEW n \in 1 .. N PROVE f[n] \in Seq(Piece)
    OBVIOUS
  <2>1. CASE B[b + n].k = 1
    <3> DEFINE d == Char(B[b + n].c, b + n)
    <3>1. IsCharOf(B, d) /\ f[n] = <<d>>
      BY <1>1, <1>4, <2>1
    <3> HIDE DEF d
    <3>2. d \in Piece
      BY <3>1, RunEnd
    <3> QED BY <3>1, <3>2
  <2>2. CASE B[b + n].k # 1
    <3>1. f[n] = <<>>
      BY <1>1, <2>2
    <3> QED BY <3>1
  <2> QED BY <2>1, <2>2
<1>6. \A n \in 1 .. N : E(n) \in b + n .. Len(B)
  <2> SUFFICES ASSUME NEW n \in 1 .. N PROVE E(n) \in b + n .. Len(B)
    OBVIOUS
  <2>1. WholeAt(B, enc, b + n) /\ n # 0
    BY <1>3
  <2> QED BY <2>1 DEF WholeAt
<1>7. 0 \in D
  <2>1. J(0) = <<>>
    BY JoinedNone
  <2>2. Run(B, J(0), b, E(0))
    BY <1>0, <2>1, RunNone
  <2> QED BY <1>0, <2>2
<1>8. ASSUME NEW n \in 0 .. N - 1, n \in D PROVE n + 1 \in D
  <2>1. Run(B, J(n), b, E(n)) /\ E(n) >= b /\ E(n) \in Nat
    BY <1>8
  <2>2. J(n + 1) = J(n) \o f[n + 1] /\ J(n) \in Seq(Piece) /\ f[n + 1] \in Seq(Piece)
    BY <1>0, <1>5, JoinedStep
  <2>3. n + 1 \in 1 .. N /\ n + 1 \in 0 .. N /\ n + 1 # 0 /\ b + (n + 1) = (b + n) + 1
    BY <1>0
  <2>4. E(n + 1) \in b + (n + 1) .. Len(B) /\ E(n + 1) = After(B, b + (n + 1))
    BY <1>6, <2>3
  <2>5. E(n + 1) >= b /\ E(n + 1) \in Nat
    BY <1>0, <2>3, <2>4
  <2>6. b + n \in 0 .. Len(B) - 1
    BY <1>0
  <2> DEFINE p == b + n
             i == b + (n + 1)
             r == n + 1
  <2>7. p \in 0 .. Len(B) - 1 /\ i = p + 1
    BY <2>3, <2>6
  <2>8. i = b + r /\ r \in 1 .. N /\ (n = 0 => p = b) /\ (n # 0 => p = b + n /\ n \in 1 .. N)
    BY <1>0, <2>3
  <2> HIDE DEF p, i, r, E, J
  <2>9. CASE B[i].k = 1
    <3> DEFINE d == Char(B[i].c, i)
    <3>1. f[r] = <<d>> /\ IsCharOf(B, d)
      BY <1>1, <1>4, <2>8, <2>9
    <3>2. EndsIn(B, p)
      BY <2>7, <2>9, NextByte
    <3>3. E(n) = p
      <4>1. CASE n = 0
        BY <2>8, <4>1 DEF E
      <4>2. CASE n # 0
        <5>1. E(n) = After(B, p) /\ p \in 1 .. Len(B) /\ WholeAt(B, enc, p)
          BY <1>3, <2>8, <4>2 DEF E
        <5>2. B[p].k = B[p].of /\ B[p].of \in 1 .. 3
          BY <3>2, <5>1 DEF EndsIn, WholeAt, Byte
        <5> QED BY <5>1, <5>2 DEF After
      <4> QED BY <4>1, <4>2
    <3>4. d.at = E(n) + 1 /\ d.at = i
      BY <2>7, <3>3 DEF Char
    <3> HIDE DEF d
    <3>5. Run(B, <<d>>, E(n), EndOf(B, d)) /\ EndOf(B, d) = After(B, d.at) /\ EndOf(B, d) \in d.at .. Len(B)
      BY <2>1, <3>1, <3>4, RunOne, RunEnd
    <3>6. EndOf(B, d) = E(r) /\ E(n) <= E(r)
      <4>1. After(B, i) = E(r)
        BY <2>4 DEF i, r
      <4> QED BY <1>0, <2>1, <3>4, <3>5, <4>1
    <3>7. Run(B, J(n) \o <<d>>, b, E(r))
      BY <2>1, <3>5, <3>6, RunConcat
    <3>8. J(r) = J(n) \o <<d>>
      BY <2>2, <3>1 DEF r
    <3> QED BY <2>3, <2>5, <3>7, <3>8 DEF r
  <2>10. CASE B[i].k # 1
    <3>1. f[r] = <<>> /\ ~EndsIn(B, p)
      <4>1. f[r] = <<>>
        BY <1>1, <2>8, <2>10
      <4>2. B[p + 1].k # 1
        BY <2>7, <2>10
      <4>3. ~EndsIn(B, p)
        BY <2>7, <4>2, NextByte
      <4> QED BY <4>1, <4>3
    <3>2. n # 0
      BY <1>2, <2>8, <3>1
    <3>3. E(n) = After(B, p) /\ p \in 1 .. Len(B) - 1
      BY <1>3, <2>7, <2>8, <3>2 DEF E
    <3>4. After(B, i) = After(B, p)
      BY <2>7, <2>10, <3>3, SameChar
    <3>5. E(r) = E(n)
      BY <2>4, <3>3, <3>4 DEF i, r
    <3>6. J(r) = J(n)
      <4>1. J(r) = J(n) \o <<>> /\ J(n) \in Seq(Piece)
        BY <2>2, <3>1 DEF r
      <4> QED BY <4>1
    <3> QED BY <2>1, <2>3, <3>5, <3>6 DEF r
  <2> QED BY <2>9, <2>10
<1>9. N \in D
  <2> HIDE DEF D
  <2>1. \A n \in 0 .. N : n \in D
    BY <1>0, <1>7, <1>8, UpTo
  <2> QED BY <1>0, <2>1
<1>10. E(N) = to
  <2>1. CASE N = 0
    BY <1>0, <2>1
  <2>2. CASE N # 0
    <3>1. N \in 1 .. N /\ b + N = to
      BY <1>0, <2>2
    <3>2. WholeAt(B, enc, to) /\ to # 0 /\ E(N) = After(B, to) /\ to \in Nat
      <4>1. WholeAt(B, enc, b + N) /\ b + N \in 1 .. Len(B)
        BY <1>3, <3>1
      <4> QED BY <1>0, <2>2, <3>1, <4>1
    <3>3. B[to].k = B[to].of /\ B[to].of \in 1 .. 3
      BY <1>2, <3>2 DEF EndsIn, WholeAt, Byte
    <3>4. After(B, to) = to
      BY <3>2, <3>3 DEF After
    <3> QED BY <3>2, <3>4
  <2> QED BY <2>1, <2>2
<1>11. Run(B, J(N), b, to)
  BY <1>9, <1>10
<1> QED BY <1>11 DEF N, b

(***************************************************************************)
(* Without "?", a chunk of whole characters is read as these.              *)
(***************************************************************************)
Plain(s) == \A n \in 1 .. Len(s) : s[n].c \notin {"?", "nul"}

LEMMA RunOfUTF16 ==
  ASSUME file \in Files, NEW from \in Nat \ {0}, NEW to \in from - 1 .. Len(Bytes),
         EndsIn(Bytes, from - 1), EndsIn(Bytes, to), file.encoding \in Multibyte, NEW type
  PROVE  /\ FromUTF16(type, from, to) \in Seq(PieceIn(Written \cup {"?"}, from, to))
         /\ Plain(FromUTF16(type, from, to)) => Run(Bytes, FromUTF16(type, from, to), from - 1, to)
         /\ type = file.encoding => Plain(FromUTF16(type, from, to))
<1> DEFINE B == Bytes
           enc == file.encoding
           b == from - 1
           s == FromUTF16(type, from, to)
<1>1. IsLayout(B, enc) /\ enc \in Multibyte
  BY BytesLaid
<1>2. \A i \in 1 .. Len(B) : WholeAt(B, enc, i)
  BY <1>1 DEF IsLayout
<1>3. b \in Nat /\ to \in b .. Len(B) /\ EndsIn(B, b) /\ EndsIn(B, to) /\ b + 1 = from /\ Len(B) \in Nat
  BY <1>1 DEF IsLayout
<1>4. s = [n \in 1 .. ((to - from) + 1) \div 2 |->
             Char(IF type = enc /\ B[from + 2 * (n - 1)].k = 1 THEN B[from + 2 * (n - 1)].c ELSE "?",
                  from + 2 * (n - 1))]
  BY DEF FromUTF16, Begins
<1> HIDE DEF B, enc, b, s
<1>5. \A i \in 1 .. Len(B) : B[i].of = 2 /\ B[i].k \in 1 .. 2 /\ B[i].c \in Written
  <2> SUFFICES ASSUME NEW i \in 1 .. Len(B) PROVE B[i].of = 2 /\ B[i].k \in 1 .. 2 /\ B[i].c \in Written
    OBVIOUS
  <2>1. WholeAt(B, enc, i)
    BY <1>2
  <2>2. B[i].of = 2
    BY <1>1, <2>1 DEF WholeAt, Width
  <2> QED BY <2>1, <2>2 DEF WholeAt, Byte
<1>6. ASSUME NEW i \in 0 .. Len(B), EndsIn(B, i) PROVE \E m \in Nat : i = 2 * m
  <2>1. CASE i = 0
    BY <2>1
  <2>2. CASE i # 0
    <3>1. i \in 1 .. Len(B) /\ WholeAt(B, enc, i)
      BY <1>2, <1>3, <2>2
    <3>2. PICK m \in Nat : Before(B, i) = 2 * m
      BY <1>1, <3>1 DEF WholeAt
    <3>3. B[i].k = 2
      BY <1>5, <1>6, <2>2, <3>1 DEF EndsIn
    <3>4. i = 2 * (m + 1) /\ m + 1 \in Nat
      BY <1>3, <3>1, <3>2, <3>3 DEF Before
    <3> QED BY <3>4
  <2> QED BY <2>1, <2>2
<1>7. b \in 0 .. Len(B) /\ to \in 0 .. Len(B)
  BY <1>3
<1>8. PICK x \in Nat : b = 2 * x
  BY <1>3, <1>6, <1>7
<1>9. PICK y \in Nat : to = 2 * y
  BY <1>3, <1>6, <1>7
<1> DEFINE N == y - x
<1>10. N \in Nat /\ ((to - from) + 1) \div 2 = N
  BY <1>3, <1>8, <1>9
<1>11. \A n \in 1 .. N : from + 2 * (n - 1) = b + (2 * n - 1)
  BY <1>3, <1>10
<1> DEFINE at(n) == b + (2 * n - 1)
<1>12. /\ s = [n \in 1 .. N |-> Char(IF type = enc /\ B[at(n)].k = 1 THEN B[at(n)].c ELSE "?", at(n))]
  BY <1>4, <1>10, <1>11
<1>13. \A n \in 1 .. N : at(n) \in from .. to - 1 /\ at(n) \in 1 .. Len(B)
  BY <1>3, <1>8, <1>9, <1>10
<1> HIDE DEF N
<1>14. \A n \in 1 .. N : s[n] = Char(IF type = enc /\ B[at(n)].k = 1 THEN B[at(n)].c ELSE "?", at(n))
  BY <1>12
<1>15. \A n \in 1 .. N : s[n] \in PieceIn(Written \cup {"?"}, from, to)
  <2> SUFFICES ASSUME NEW n \in 1 .. N PROVE s[n] \in PieceIn(Written \cup {"?"}, from, to)
    OBVIOUS
  <2> DEFINE a == at(n)
             c == IF type = enc /\ B[a].k = 1 THEN B[a].c ELSE "?"
  <2>1. a \in from .. to - 1 /\ a \in 1 .. Len(B)
    BY <1>13
  <2>2. s[n] = Char(c, a)
    BY <1>14
  <2> HIDE DEF a
  <2>3. c \in Written \cup {"?"}
    BY <1>5, <2>1
  <2>4. a \in from .. to
    BY <1>3, <2>1
  <2> HIDE DEF c
  <2> QED BY <2>2, <2>3, <2>4 DEF Char, PieceIn
<1>16. s \in Seq(PieceIn(Written \cup {"?"}, from, to)) /\ Len(s) = N
  <2>1. s \in [1 .. N -> PieceIn(Written \cup {"?"}, from, to)]
    <3>1. s = [n \in 1 .. N |-> s[n]]
      BY <1>12
    <3> QED BY <1>15, <3>1
  <2>2. N \in Nat
    BY <1>10
  <2> DEFINE T == PieceIn(Written \cup {"?"}, from, to)
  <2>3. s \in [1 .. N -> T]
    BY <2>1
  <2> HIDE DEF T
  <2>4. s \in Seq(T) /\ Len(s) = N
    BY <2>2, <2>3
  <2> QED BY <2>4 DEF T
<1>17. \A n \in 1 .. N : B[at(n)].k = 1
  <2> SUFFICES ASSUME NEW n \in 1 .. N PROVE B[at(n)].k = 1
    OBVIOUS
  <2> DEFINE i == at(n)
  <2>1. i \in 1 .. Len(B) /\ i = b + (2 * n - 1)
    BY <1>13
  <2> HIDE DEF i
  <2>2. WholeAt(B, enc, i)
    BY <1>2, <2>1
  <2>3. PICK m \in Nat : Before(B, i) = 2 * m
    BY <1>1, <2>2 DEF WholeAt
  <2>4. B[i].k \in 1 .. 2
    BY <1>5, <2>1
  <2>5. B[i].k = 1
    BY <1>8, <2>1, <2>3, <2>4 DEF Before
  <2> QED BY <2>5 DEF i
<1>18. Plain(s) => Run(B, s, b, to)
  <2> SUFFICES ASSUME Plain(s) PROVE Run(B, s, b, to)
    OBVIOUS
  <2>1. \A n \in 1 .. N : s[n] = Char(B[at(n)].c, at(n))
    <3> SUFFICES ASSUME NEW n \in 1 .. N PROVE s[n] = Char(B[at(n)].c, at(n))
      OBVIOUS
    <3>1. s[n] = Char(IF type = enc /\ B[at(n)].k = 1 THEN B[at(n)].c ELSE "?", at(n)) /\ s[n].c # "?"
      BY <1>14, <1>16 DEF Plain
    <3> HIDE DEF at
    <3>2. type = enc /\ B[at(n)].k = 1
      BY <3>1 DEF Char
    <3> QED BY <3>1, <3>2
  <2>2. \A n \in 1 .. N : s[n].at = at(n) /\ IsCharOf(B, s[n]) /\ EndOf(B, s[n]) = b + 2 * n
    <3> SUFFICES ASSUME NEW n \in 1 .. N
                 PROVE  s[n].at = at(n) /\ IsCharOf(B, s[n]) /\ EndOf(B, s[n]) = b + 2 * n
      OBVIOUS
    <3>1. s[n].at = at(n)
      <4> DEFINE a == at(n)
      <4>1. s[n] = Char(B[a].c, a)
        BY <2>1
      <4> HIDE DEF a
      <4>2. s[n].at = a
        BY <4>1 DEF Char
      <4> QED BY <4>2 DEF a
    <3>2. IsCharOf(B, s[n])
      <4>1. at(n) \in 1 .. Len(B) /\ B[at(n)].k = 1 /\ s[n] = Char(B[at(n)].c, at(n))
        BY <1>13, <1>17, <2>1
      <4> HIDE DEF at
      <4> QED BY <3>1, <4>1 DEF IsCharOf
    <3>3. B[at(n)].of = 2
      BY <1>5, <1>13
    <3>4. EndOf(B, s[n]) = at(n) + 1
      <4> DEFINE a == at(n)
      <4>1. s[n].at = a /\ B[a].of = 2 /\ a \in Nat
        BY <1>3, <1>13, <3>1, <3>3
      <4> HIDE DEF a
      <4>2. EndOf(B, s[n]) = a + 1
        BY <4>1 DEF EndOf
      <4> QED BY <4>2 DEF a
    <3> QED BY <1>3, <3>1, <3>2, <3>4
  <2>3. Within(B, s, b, to)
    <3> SUFFICES ASSUME NEW n \in 1 .. N PROVE s[n].at > b /\ EndOf(B, s[n]) <= to
      BY <1>16, <2>2 DEF Within
    <3>1. s[n].at = at(n) /\ EndOf(B, s[n]) = b + 2 * n
      BY <2>2
    <3>2. b + 2 * n <= to
      BY <1>8, <1>9, <1>10 DEF N
    <3> QED BY <1>3, <1>13, <3>1, <3>2
  <2>4. Rises(s)
    <3> SUFFICES ASSUME NEW n \in 1 .. N, NEW p \in 1 .. n - 1 PROVE s[p].at < s[n].at
      BY <1>16 DEF Rises
    <3>1. p \in 1 .. N
      BY <1>10
    <3>2. s[p].at = at(p) /\ s[n].at = at(n)
      BY <2>2, <3>1
    <3> QED BY <1>3, <1>10, <3>1, <3>2
  <2>5. Adjoins(B, s)
    <3> SUFFICES ASSUME NEW n \in 1 .. N - 1 PROVE s[n + 1].at = EndOf(B, s[n]) + 1
      BY <1>16 DEF Adjoins
    <3>1. n \in 1 .. N /\ n + 1 \in 1 .. N
      BY <1>10
    <3>2. s[n + 1].at = at(n + 1) /\ EndOf(B, s[n]) = b + 2 * n
      BY <2>2, <3>1
    <3> QED BY <1>3, <1>10, <3>2
  <2>6. s = <<>> => b = to
    <3>1. s = <<>> => N = 0
      BY <1>16
    <3> QED BY <1>8, <1>9, <3>1 DEF N
  <2>7. s # <<>> => s[1].at = b + 1 /\ EndOf(B, s[Len(s)]) = to
    <3> SUFFICES ASSUME s # <<>> PROVE s[1].at = b + 1 /\ EndOf(B, s[N]) = to
      BY <1>16
    <3>1. 1 \in 1 .. N /\ N \in 1 .. N
      BY <1>10, <1>16
    <3>2. s[1].at = at(1) /\ EndOf(B, s[N]) = b + 2 * N
      BY <2>2, <3>1
    <3> QED BY <1>3, <1>8, <1>9, <1>10, <3>2 DEF N
  <2>8. s \in Seq(Piece)
    <3>1. \A n \in 1 .. N : s[n] \in Piece
      BY <1>1, <2>2, RunEnd
    <3> QED BY <1>16, <3>1
  <2> QED BY <1>3, <2>3, <2>4, <2>5, <2>6, <2>7, <2>8 DEF Run
<1>19. type = enc => Plain(s)
  <2> SUFFICES ASSUME type = enc, NEW n \in 1 .. N PROVE s[n].c \notin {"?", "nul"}
    BY <1>16 DEF Plain
  <2>1. s[n] = Char(B[at(n)].c, at(n)) /\ B[at(n)].c \in Written
    BY <1>5, <1>13, <1>14, <1>17
  <2> HIDE DEF at
  <2> QED BY <2>1 DEF Char, Written
<1> QED BY <1>16, <1>18, <1>19 DEF B, b, s, enc

LEMMA IsSeq ==
  ASSUME NEW N \in Nat, NEW T, NEW s \in [1 .. N -> T]
  PROVE  s \in Seq(T) /\ Len(s) = N
OBVIOUS

LEMMA ByteTyped ==
  ASSUME file \in Files, NEW from \in Nat \ {0}, NEW to \in from - 1 .. Len(Bytes), NEW i \in from .. to
  PROVE  /\ Bytes[i].c \in Written /\ WholeAt(Bytes, file.encoding, i)
         /\ i \in 1 .. Len(Bytes)
<1>1. IsLayout(Bytes, file.encoding)
  BY BytesLaid
<1>2. i \in 1 .. Len(Bytes)
  BY <1>1 DEF IsLayout
<1> QED BY <1>1, <1>2 DEF IsLayout, WholeAt, Byte

\* What bytes that are read one by one are taken for: a zero is only met in UTF-16.
Bytewise == IF file.encoding \in Multibyte THEN Letter ELSE Written \cup {"?"}

LEMMA AloneIs ==
  ASSUME file \in Files, NEW from \in Nat \ {0}, NEW to \in from - 1 .. Len(Bytes), NEW i \in from .. to
  PROVE  /\ Alone(i) \in Bytewise
         /\ file.encoding \notin Multibyte =>
              /\ Alone(i) # "?" => Alone(i) = Bytes[i].c /\ Bytes[i].k = 1
              /\ Bytes[i].c \in {"text", "lf", "cr"} => Alone(i) = Bytes[i].c /\ Bytes[i].k = 1
<1>1. Bytes[i].c \in Written /\ WholeAt(Bytes, file.encoding, i)
  BY ByteTyped
<1>2. Alone(i) \in Letter /\ Bytes[i].c \in Written
  BY <1>1 DEF Alone, Letter
<1>3. ASSUME file.encoding \notin Multibyte
      PROVE  /\ Alone(i) \in Written \cup {"?"}
             /\ Alone(i) # "?" => Alone(i) = Bytes[i].c /\ Bytes[i].k = 1
             /\ Bytes[i].c \in {"text", "lf", "cr"} => Alone(i) = Bytes[i].c /\ Bytes[i].k = 1
  <2>1. file.encoding # "UTF16BE"
    BY <1>3 DEF Multibyte
  <2>2. Bytes[i].c \in {"text", "lf", "cr"} => Bytes[i].k = 1
    <3>1. Bytes[i].of = Width(file.encoding, Bytes[i].c) /\ Bytes[i].k \in 1 .. 3 /\ Bytes[i].k <= Bytes[i].of
      BY <1>1 DEF WholeAt, Byte
    <3>2. Bytes[i].c \in {"text", "lf", "cr"} => Bytes[i].of = 1
      BY <1>3, <3>1 DEF Width
    <3> QED BY <3>1, <3>2
  <2> QED BY <1>1, <2>1, <2>2 DEF Alone
<1> QED BY <1>2, <1>3 DEF Bytewise

\* What ByteOfUTF8 makes of each byte.
LEMMA UTF8Parts ==
  ASSUME file \in Files, NEW from \in Nat \ {0}, NEW to \in from - 1 .. Len(Bytes),
         NEW f, f = [n \in 1 .. (to - from) + 1 |-> ByteOfUTF8(from + (n - 1), from, to)]
  PROVE  /\ file.encoding \notin Multibyte =>
              \A n \in 1 .. to - (from - 1) :
                \/ f[n] = <<Char("?", (from - 1) + n)>>
                \/ /\ f[n] = IF Bytes[(from - 1) + n].k = 1
                             THEN <<Char(Bytes[(from - 1) + n].c, (from - 1) + n)>> ELSE <<>>
         /\ \A n \in 1 .. to - (from - 1) : f[n] \in Seq(PieceIn(Bytewise, from, to))
         /\ Joined(f, to - (from - 1)) = FromUTF8(from, to) /\ to - (from - 1) \in Nat
<1> DEFINE b == from - 1
           N == to - b
           B == Bytes
<1>0. N \in Nat /\ (to - from) + 1 = N /\ from = b + 1 /\ b \in Nat
  BY DEF b, N
<1>1. \A n \in 1 .. N : from + (n - 1) = b + n /\ b + n \in from .. to /\ n \in 1 .. (to - from) + 1
  BY <1>0
<1>2. \A n \in 1 .. N : f[n] = ByteOfUTF8(b + n, from, to)
  BY <1>0, <1>1
<1>3. ASSUME NEW i \in from .. to
      PROVE  /\ file.encoding \notin Multibyte =>
                  \/ ByteOfUTF8(i, from, to) = <<Char("?", i)>>
                  \/ ByteOfUTF8(i, from, to) = IF B[i].k = 1 THEN <<Char(B[i].c, i)>> ELSE <<>>
             /\ ByteOfUTF8(i, from, to) \in Seq(PieceIn(Bytewise, from, to))
  <2>1. \/ ByteOfUTF8(i, from, to) = <<Char(Alone(i), i)>>
        \/ ByteOfUTF8(i, from, to) = IF B[i].k = 1 THEN <<Char(B[i].c, i)>> ELSE <<>>
    BY DEF ByteOfUTF8, Begins
  <2>2. /\ Alone(i) \in Bytewise
        /\ file.encoding \notin Multibyte /\ Alone(i) # "?" => Alone(i) = B[i].c /\ B[i].k = 1
    BY AloneIs
  <2> DEFINE T == PieceIn(Bytewise, from, to)
  <2>3. B[i].c \in Bytewise
    BY ByteTyped DEF Bytewise, Letter
  <2>4. Char(Alone(i), i) \in T /\ Char(B[i].c, i) \in T
    BY <2>2, <2>3 DEF Char, PieceIn
  <2> HIDE DEF T
  <2>5. <<Char(Alone(i), i)>> \in Seq(T) /\ <<Char(B[i].c, i)>> \in Seq(T) /\ <<>> \in Seq(T)
    BY <2>4
  <2>6. ByteOfUTF8(i, from, to) \in Seq(T)
    BY <2>1, <2>5
  <2>7. file.encoding \notin Multibyte =>
          \/ ByteOfUTF8(i, from, to) = <<Char("?", i)>>
          \/ ByteOfUTF8(i, from, to) = IF B[i].k = 1 THEN <<Char(B[i].c, i)>> ELSE <<>>
    BY <2>1, <2>2
  <2> QED BY <2>6, <2>7 DEF T
<1>4. FromUTF8(from, to) = Joined(f, N)
  BY <1>0 DEF FromUTF8
<1> HIDE DEF b, N
<1>5. \A n \in 1 .. N :
        /\ file.encoding \notin Multibyte =>
             \/ f[n] = <<Char("?", b + n)>>
             \/ f[n] = IF B[b + n].k = 1 THEN <<Char(B[b + n].c, b + n)>> ELSE <<>>
        /\ f[n] \in Seq(PieceIn(Bytewise, from, to))
  BY <1>1, <1>2, <1>3
<1> QED BY <1>0, <1>4, <1>5 DEF b, N

LEMMA PlainParts ==
  ASSUME NEW f, NEW N \in Nat, NEW S, \A k \in 1 .. N : f[k] \in Seq(S), Plain(Joined(f, N))
  PROVE  \A n \in 1 .. N : Plain(f[n])
<1> SUFFICES ASSUME NEW n \in 1 .. N, NEW j \in 1 .. Len(f[n]) PROVE f[n][j].c \notin {"?", "nul"}
  BY DEF Plain
<1>1. PICK x \in 1 .. Len(Joined(f, N)) : Joined(f, N)[x] = f[n][j]
  BY JoinedHas
<1> QED BY <1>1 DEF Plain

LEMMA RunOfUTF8 ==
  ASSUME file \in Files, NEW from \in Nat \ {0}, NEW to \in from - 1 .. Len(Bytes),
         EndsIn(Bytes, from - 1), EndsIn(Bytes, to), Plain(FromUTF8(from, to)),
         file.encoding \notin Multibyte
  PROVE  Run(Bytes, FromUTF8(from, to), from - 1, to)
<1> DEFINE f == [n \in 1 .. (to - from) + 1 |-> ByteOfUTF8(from + (n - 1), from, to)]
           N == to - (from - 1)
           T == PieceIn(Bytewise, from, to)
<1>1. /\ \A n \in 1 .. N :
           \/ f[n] = <<Char("?", (from - 1) + n)>>
           \/ /\ f[n] = IF Bytes[(from - 1) + n].k = 1
                        THEN <<Char(Bytes[(from - 1) + n].c, (from - 1) + n)>> ELSE <<>>
      /\ \A n \in 1 .. N : f[n] \in Seq(T)
      /\ Joined(f, N) = FromUTF8(from, to) /\ N \in Nat
  <2> DEFINE g == f
  <2>1. g = f
    OBVIOUS
  <2> HIDE DEF g
  <2> QED BY <2>1, UTF8Parts
<1> HIDE DEF f, T
<1> HIDE DEF N
<1>2. \A n \in 1 .. N : Plain(f[n])
  <2>1. Plain(Joined(f, N))
    BY <1>1
  <2> QED BY <1>1, <2>1, PlainParts
<1>3. \A n \in 1 .. N : f[n] # <<Char("?", (from - 1) + n)>>
  <2> SUFFICES ASSUME NEW n \in 1 .. N, f[n] = <<Char("?", (from - 1) + n)>> PROVE FALSE
    OBVIOUS
  <2> DEFINE d == Char("?", (from - 1) + n)
  <2>1. d.c = "?" /\ f[n] = <<d>>
    BY DEF Char
  <2> HIDE DEF d
  <2>2. f[n][1] = d /\ 1 \in 1 .. Len(f[n])
    BY <2>1
  <2> QED BY <1>2, <2>1, <2>2 DEF Plain
<1>4. Parts(f, Bytes, from, to)
  BY <1>1, <1>3 DEF Parts, N
<1>5. IsLayout(Bytes, file.encoding)
  BY BytesLaid
<1>6. Run(Bytes, Joined(f, N), from - 1, to)
  BY <1>4, <1>5, JoinedRun DEF N
<1> QED BY <1>1, <1>6

\* A chunk that begins and ends between characters has each of them whole.
LEMMA WholeBetween ==
  ASSUME NEW B, NEW enc, IsLayout(B, enc), NEW b \in Nat, NEW to \in b .. Len(B),
         EndsIn(B, b), EndsIn(B, to), NEW i \in b + 1 .. to
  PROVE  Before(B, i) >= b /\ After(B, i) <= to
<1>1. Len(B) \in Nat /\ i \in 1 .. Len(B) /\ WholeAt(B, enc, i)
  BY DEF IsLayout
<1>2. B[i].k \in 1 .. B[i].of /\ B[i].of \in 1 .. 3
  BY <1>1 DEF WholeAt, Byte
<1>3. Before(B, i) + B[i].k = i /\ After(B, i) = Before(B, i) + B[i].of /\ Before(B, i) \in Nat
  BY <1>1, <1>2 DEF Before, After, WholeAt
<1>4. ASSUME NEW e \in Nat, EndsIn(B, e), Before(B, i) < e, e < After(B, i) PROVE FALSE
  <2> DEFINE j == e - Before(B, i)
             h == Before(B, i)
  <2>1. j \in 1 .. B[i].of /\ h + j = e /\ j # B[i].of /\ e # 0
    <3>1. h \in Nat /\ e \in Nat /\ h < e /\ e < h + B[i].of /\ B[i].of \in Nat
      BY <1>2, <1>3, <1>4
    <3> HIDE DEF h
    <3> QED BY <3>1 DEF h
  <2> HIDE DEF j
  <2>2. B[e] = [c |-> B[i].c, k |-> j, of |-> B[i].of]
    BY <1>1, <2>1 DEF WholeAt
  <2> QED BY <1>4, <2>1, <2>2 DEF EndsIn
<1>5. Before(B, i) >= b
  BY <1>2, <1>3, <1>4
<1>6. After(B, i) <= to
  BY <1>2, <1>3, <1>4
<1> QED BY <1>5, <1>6

LEMMA PlainUTF8 ==
  ASSUME file \in Files, NEW from \in Nat \ {0}, NEW to \in from - 1 .. Len(Bytes),
         EndsIn(Bytes, from - 1), EndsIn(Bytes, to), file.encoding = "UTF8"
  PROVE  Plain(FromUTF8(from, to))
<1> DEFINE f == [n \in 1 .. (to - from) + 1 |-> ByteOfUTF8(from + (n - 1), from, to)]
           b == from - 1
           N == to - b
           B == Bytes
           T == PieceIn(Written, from, to)
<1>1. IsLayout(B, file.encoding)
  BY BytesLaid
<1>2. b \in Nat /\ to \in b .. Len(B) /\ from = b + 1 /\ N \in Nat /\ (to - from) + 1 = N
  OBVIOUS
<1>3. FromUTF8(from, to) = Joined(f, N)
  BY <1>2 DEF FromUTF8
<1>4. ASSUME NEW i \in from .. to PROVE ByteOfUTF8(i, from, to) \in Seq(T)
  <2>1. Before(B, i) >= b /\ After(B, i) <= to
    BY <1>1, <1>2, WholeBetween
  <2>2. WholeAt(B, file.encoding, i) /\ B[i].c \in Written
    BY ByteTyped
  <2>3. (i - B[i].k) + 1 >= from /\ (i - B[i].k) + B[i].of <= to
    <3>1. Before(B, i) \in Nat
      BY <2>2 DEF WholeAt
    <3> QED BY <1>2, <2>1, <3>1 DEF Before, After
  <2>4. ByteOfUTF8(i, from, to) = IF Begins(i) THEN <<Char(B[i].c, i)>> ELSE <<>>
    BY <2>3 DEF ByteOfUTF8
  <2>5. Char(B[i].c, i) \in T
    BY <2>2 DEF Char, PieceIn
  <2> HIDE DEF T
  <2>6. <<Char(B[i].c, i)>> \in Seq(T) /\ <<>> \in Seq(T)
    BY <2>5
  <2> QED BY <2>4, <2>6
<1>5. \A n \in 1 .. N : f[n] \in Seq(T)
  <2> SUFFICES ASSUME NEW n \in 1 .. N PROVE f[n] \in Seq(T)
    OBVIOUS
  <2>1. n \in 1 .. (to - from) + 1 /\ from + (n - 1) \in from .. to
    BY <1>2
  <2> HIDE DEF T, N
  <2>2. f[n] = ByteOfUTF8(from + (n - 1), from, to)
    BY <2>1
  <2> QED BY <1>4, <2>1, <2>2
<1>6. Joined(f, N) \in Seq(T)
  <2> HIDE DEF f, N, T
  <2> QED BY <1>2, <1>5, JoinedTyped
<1>7. \A n \in 1 .. Len(FromUTF8(from, to)) : FromUTF8(from, to)[n] \in T
  <2> HIDE DEF f, N, T
  <2> QED BY <1>3, <1>6
<1> QED BY <1>7 DEF Plain, PieceIn, Written

LEMMA OfANSI ==
  ASSUME file \in Files, NEW from \in Nat \ {0}, NEW to \in from - 1 .. Len(Bytes)
  PROVE  /\ FromANSI(from, to) \in Seq(PieceIn(Bytewise, from, to))
         /\ Len(FromANSI(from, to)) = to - (from - 1) /\ to - (from - 1) \in Nat
         /\ \A n \in 1 .. to - (from - 1) :
              LET i == (from - 1) + n IN
              FromANSI(from, to)[n] = Char(Alone(i), i) /\ FromANSI(from, to)[n].at = i /\ i \in from .. to
<1> DEFINE b == from - 1
           N == to - b
           s == FromANSI(from, to)
           T == PieceIn(Bytewise, from, to)
<1>0. N \in Nat /\ (to - from) + 1 = N /\ from = b + 1 /\ b \in Nat
  OBVIOUS
<1>1. s = [n \in 1 .. N |-> Char(Alone(from + (n - 1)), from + (n - 1))]
  BY <1>0 DEF FromANSI
<1> HIDE DEF N, b, s
<1>2. \A n \in 1 .. N : b + n \in from .. to /\ from + (n - 1) = b + n
  BY <1>0 DEF N
<1>3. s = [n \in 1 .. N |-> Char(Alone(b + n), b + n)]
  BY <1>1, <1>2
<1>4. \A n \in 1 .. N : s[n] = Char(Alone(b + n), b + n)
  BY <1>3
<1>5. ASSUME NEW i \in from .. to
      PROVE  Char(Alone(i), i) \in T /\ Char(Alone(i), i).at = i
  <2>1. Alone(i) \in Bytewise
    BY AloneIs
  <2> QED BY <2>1 DEF Char, PieceIn
<1> HIDE DEF T
<1>6. \A n \in 1 .. N : s[n] \in T /\ s[n].at = b + n /\ b + n \in from .. to
  BY <1>2, <1>4, <1>5
<1>7. s \in Seq(T) /\ Len(s) = N
  <2>1. s = [n \in 1 .. N |-> s[n]]
    BY <1>3
  <2>2. s \in [1 .. N -> T]
    BY <1>6, <2>1
  <2> QED BY <1>0, <2>2, IsSeq
<1> QED BY <1>0, <1>4, <1>6, <1>7 DEF b, N, s, T

LEMMA RunOfANSI ==
  ASSUME file \in Files, NEW from \in Nat \ {0}, NEW to \in from - 1 .. Len(Bytes),
         EndsIn(Bytes, from - 1), EndsIn(Bytes, to), Plain(FromANSI(from, to)),
         file.encoding \notin Multibyte
  PROVE  Run(Bytes, FromANSI(from, to), from - 1, to)
<1> DEFINE B == Bytes
           enc == file.encoding
           b == from - 1
           N == to - b
           s == FromANSI(from, to)
<1>0. /\ s \in Seq(PieceIn(Bytewise, from, to)) /\ Len(s) = N /\ N \in Nat
      /\ \A n \in 1 .. N : s[n] = Char(Alone(b + n), b + n) /\ s[n].at = b + n /\ b + n \in from .. to
  BY OfANSI
<1>1. IsLayout(B, enc) /\ EndsIn(B, b) /\ EndsIn(B, to) /\ Plain(s)
  BY BytesLaid
<1>2. b \in Nat /\ to = b + N /\ from = b + 1 /\ to <= Len(B) /\ Len(B) \in Nat
  BY <1>1 DEF IsLayout
<1> HIDE DEF B, enc, b, N, s
<1>3. \A n \in 1 .. N : s[n] = Char(B[b + n].c, b + n) /\ B[b + n].k = 1 /\ s[n].at = b + n
  <2> SUFFICES ASSUME NEW n \in 1 .. N PROVE s[n] = Char(B[b + n].c, b + n) /\ B[b + n].k = 1
    BY <1>0
  <2> DEFINE i == b + n
  <2>1. s[n] = Char(Alone(i), i) /\ i \in from .. to
    BY <1>0
  <2>2. s[n].c # "?" /\ s[n].c = Alone(i)
    <3>1. s[n].c # "?"
      BY <1>0, <1>1 DEF Plain
    <3> HIDE DEF i
    <3> QED BY <2>1, <3>1 DEF Char
  <2> HIDE DEF i
  <2>3. Alone(i) # "?" => Alone(i) = B[i].c /\ B[i].k = 1
    BY <2>1, AloneIs DEF B
  <2>4. Alone(i) # "?"
    BY <2>2
  <2>5. s[n] = Char(B[i].c, i) /\ B[i].k = 1
    BY <2>1, <2>3, <2>4
  <2> QED BY <2>5 DEF i
<1>4. ASSUME NEW n \in 1 .. N PROVE B[b + n].of = 1
  <2> DEFINE i == b + n
  <2>0. i \in 1 .. Len(B) /\ i <= to /\ i # 0
    BY <1>0, <1>2
  <2>1. WholeAt(B, enc, i) /\ B[i].k = 1
    BY <1>1, <1>3, <2>0 DEF IsLayout
  <2>2. EndsIn(B, i)
    <3>1. CASE n = N
      BY <1>1, <1>2, <3>1
    <3>2. CASE n # N
      <4> DEFINE r == n + 1
      <4>1. r \in 1 .. N /\ i + 1 = b + r /\ i \in 0 .. Len(B) - 1
        BY <1>0, <1>2, <3>2
      <4> HIDE DEF r
      <4>2. B[b + r].k = 1
        BY <1>3, <4>1
      <4> HIDE DEF i
      <4>3. B[i + 1].k = 1
        BY <4>1, <4>2
      <4> QED BY <1>1, <4>1, <4>3, NextByte
    <3> QED BY <3>1, <3>2
  <2> HIDE DEF i
  <2>3. B[i].of = 1
    BY <2>0, <2>1, <2>2 DEF EndsIn
  <2> QED BY <2>3 DEF i
<1>5. \A n \in 1 .. N : IsCharOf(B, s[n]) /\ EndOf(B, s[n]) = b + n /\ s[n].at = b + n
  <2> SUFFICES ASSUME NEW n \in 1 .. N PROVE IsCharOf(B, s[n]) /\ EndOf(B, s[n]) = b + n
    BY <1>3
  <2> DEFINE i == b + n
  <2>1. i \in 1 .. Len(B)
    BY <1>0, <1>2
  <2>2. s[n] = Char(B[i].c, i) /\ B[i].k = 1 /\ s[n].at = i /\ B[i].of = 1
    BY <1>3, <1>4
  <2> HIDE DEF i
  <2>3. IsCharOf(B, s[n]) /\ EndOf(B, s[n]) = i
    BY <2>1, <2>2 DEF IsCharOf, EndOf
  <2> QED BY <2>3 DEF i
<1>6. Within(B, s, b, to) /\ Rises(s) /\ Adjoins(B, s)
  <2>1. \A n \in 1 .. N : b + n <= to /\ b + n > b
    BY <1>0, <1>2
  <2>2. Within(B, s, b, to)
    BY <1>0, <1>5, <2>1 DEF Within
  <2>3. Rises(s)
    <3> SUFFICES ASSUME NEW n \in 1 .. N, NEW p \in 1 .. n - 1 PROVE s[p].at < s[n].at
      BY <1>0 DEF Rises
    <3>1. p \in 1 .. N
      BY <1>0
    <3> QED BY <1>2, <1>5, <3>1
  <2>4. Adjoins(B, s)
    <3> SUFFICES ASSUME NEW n \in 1 .. N - 1 PROVE s[n + 1].at = EndOf(B, s[n]) + 1
      BY <1>0 DEF Adjoins
    <3>1. n \in 1 .. N /\ n + 1 \in 1 .. N
      BY <1>0
    <3>2. s[n + 1].at = b + (n + 1) /\ EndOf(B, s[n]) = b + n
      BY <1>5, <3>1
    <3> QED BY <1>2, <3>2
  <2> QED BY <2>2, <2>3, <2>4
<1>7. s \in Seq(Piece)
  <2>1. \A n \in 1 .. N : s[n] \in Piece
    BY <1>1, <1>5, RunEnd
  <2> QED BY <1>0, <2>1
<1>8. s = <<>> => b = to
  <2>1. s = <<>> => N = 0
    BY <1>0
  <2> QED BY <1>2, <2>1
<1>9. s # <<>> => s[1].at = b + 1 /\ EndOf(B, s[Len(s)]) = to
  <2> SUFFICES ASSUME s # <<>> PROVE s[1].at = b + 1 /\ EndOf(B, s[N]) = to
    BY <1>0
  <2>1. N # 0
    BY <1>0
  <2>2. 1 \in 1 .. N /\ N \in 1 .. N
    BY <1>0, <2>1
  <2> QED BY <1>2, <1>5, <2>2
<1>10. Run(B, s, b, to)
  BY <1>2, <1>6, <1>7, <1>8, <1>9 DEF Run
<1> QED BY <1>10 DEF B, b, s

(***************************************************************************)
(* ConvertStringToUTF16, for any bytes that are there.                     *)
(***************************************************************************)
\* What a chunk is taken for that is read in the given encoding.
Heard(type) ==
  IF type \in Multibyte <=> file.encoding \in Multibyte THEN Written \cup {"?"} ELSE Letter

LEMMA DecodeTyped ==
  ASSUME file \in Files, NEW from \in Nat \ {0}, NEW to \in from - 1 .. Len(Bytes), NEW type
  PROVE  ConvertStringToUTF16(type, from, to) \in Seq(PieceIn(Heard(type), from, to))
<1> DEFINE T == PieceIn(Heard(type), from, to)
<1>0. type \notin Multibyte => PieceIn(Bytewise, from, to) = T
  BY DEF Heard, Bytewise
<1>1. type \notin Multibyte => FromANSI(from, to) \in Seq(T)
  <2> HIDE DEF T
  <2> QED BY <1>0, OfANSI
<1>2. type \notin Multibyte => FromUTF8(from, to) \in Seq(T)
  <2> DEFINE f == [n \in 1 .. (to - from) + 1 |-> ByteOfUTF8(from + (n - 1), from, to)]
             N == to - (from - 1)
             U == PieceIn(Bytewise, from, to)
             g == f
  <2>1. g = f
    OBVIOUS
  <2> HIDE DEF g
  <2>2. (\A n \in 1 .. N : g[n] \in Seq(U)) /\ Joined(g, N) = FromUTF8(from, to) /\ N \in Nat
    BY <2>1, UTF8Parts
  <2> HIDE DEF f, N, T, U
  <2>3. FromUTF8(from, to) \in Seq(U)
    BY <2>2, JoinedTyped
  <2> QED BY <1>0, <2>3 DEF U
<1>3. FromUTF16(type, from, to) \in Seq(T)
  <2> DEFINE N == ((to - from) + 1) \div 2
             X(i) == IF type = file.encoding /\ Begins(i) THEN Bytes[i].c ELSE "?"
             s == FromUTF16(type, from, to)
  <2>1. s = [n \in 1 .. N |-> Char(X(from + 2 * (n - 1)), from + 2 * (n - 1))]
    BY DEF FromUTF16
  <2>2. N \in Nat /\ \A n \in 1 .. N : from + 2 * (n - 1) \in from .. to
    OBVIOUS
  <2>3. ASSUME NEW i \in from .. to PROVE Char(X(i), i) \in T
    <3>1. X(i) \in Heard(type)
      BY ByteTyped DEF Heard, Letter
    <3> HIDE DEF X
    <3> QED BY <3>1 DEF Char, PieceIn
  <2> HIDE DEF N, X, T, s
  <2>4. s \in [1 .. N -> T]
    BY <2>1, <2>2, <2>3
  <2>5. s \in Seq(T)
    BY <2>2, <2>4, IsSeq
  <2> QED BY <2>5 DEF s
<1> HIDE DEF T
<1>4. ConvertStringToUTF16(type, from, to) \in Seq(T)
  BY <1>1, <1>2, <1>3 DEF ConvertStringToUTF16, Multibyte
<1> QED BY <1>4 DEF T

LEMMA DecodeRun ==
  ASSUME file \in Files, NEW from \in Nat \ {0}, NEW to \in from - 1 .. Len(Bytes), NEW type,
         EndsIn(Bytes, from - 1), EndsIn(Bytes, to),
         type \in Multibyte <=> file.encoding \in Multibyte,
         Plain(ConvertStringToUTF16(type, from, to))
  PROVE  Run(Bytes, ConvertStringToUTF16(type, from, to), from - 1, to)
<1>1. CASE type \in Multibyte
  <2>1. ConvertStringToUTF16(type, from, to) = FromUTF16(type, from, to)
    BY <1>1 DEF ConvertStringToUTF16, Multibyte
  <2> QED BY <1>1, <2>1, RunOfUTF16
<1>2. CASE type = "UTF8"
  <2>1. ConvertStringToUTF16(type, from, to) = FromUTF8(from, to)
    BY <1>2 DEF ConvertStringToUTF16, Multibyte
  <2>2. type \notin Multibyte
    BY <1>2 DEF Multibyte
  <2> QED BY <2>1, <2>2, RunOfUTF8
<1>3. CASE type \notin Multibyte /\ type # "UTF8"
  <2>1. ConvertStringToUTF16(type, from, to) = FromANSI(from, to)
    BY <1>3 DEF ConvertStringToUTF16
  <2> QED BY <1>3, <2>1, RunOfANSI
<1> QED BY <1>1, <1>2, <1>3

(***************************************************************************)
(* A chunk of whole characters that is taken for what it is has no "?";    *)
(* nor has one byte of UTF-8 text, whatever it is taken for.               *)
(***************************************************************************)
LEMMA DecodePlain ==
  ASSUME file \in Files, NEW from \in Nat \ {0}, NEW to \in from - 1 .. Len(Bytes), NEW type,
         EndsIn(Bytes, from - 1), EndsIn(Bytes, to),
         \/ type = file.encoding /\ type \in Multibyte \cup {"UTF8"}
         \/ type = Unknown /\ file.encoding = "UTF8" /\ from = to
  PROVE  Plain(ConvertStringToUTF16(type, from, to))
<1>1. CASE type = file.encoding /\ type \in Multibyte
  <2>1. ConvertStringToUTF16(type, from, to) = FromUTF16(type, from, to)
    BY <1>1 DEF ConvertStringToUTF16, Multibyte
  <2> QED BY <1>1, <2>1, RunOfUTF16
<1>2. CASE type = file.encoding /\ type = "UTF8"
  <2>1. ConvertStringToUTF16(type, from, to) = FromUTF8(from, to)
    BY <1>2 DEF ConvertStringToUTF16, Multibyte
  <2> QED BY <1>2, <2>1, PlainUTF8
<1>3. CASE type = Unknown /\ file.encoding = "UTF8" /\ from = to
  <2>1. ConvertStringToUTF16(type, from, to) = FromANSI(from, to)
    BY <1>3 DEF ConvertStringToUTF16, Multibyte, Unknown
  <2> DEFINE s == FromANSI(from, to)
             p == from - 1
  <2>2. IsLayout(Bytes, file.encoding)
    BY BytesLaid
  <2>3. p \in 0 .. Len(Bytes) - 1 /\ p + 1 = from /\ from # 0 /\ to - p = 1
    BY <1>3, <2>2 DEF IsLayout
  <2>4. Bytes[from].k = 1
    <3>1. EndsIn(Bytes, p) /\ p + 1 = from
      BY <2>3
    <3> HIDE DEF p
    <3>2. Bytes[p + 1].k = 1
      BY <2>2, <2>3, <3>1, NextByte
    <3> QED BY <3>1, <3>2
  <2>5. Bytes[from].of = 1
    BY <1>3, <2>3, <2>4 DEF EndsIn
  <2>6. Bytes[from].c \in {"text", "lf", "cr"}
    <3>1. from \in from .. to
      BY <1>3
    <3>2. WholeAt(Bytes, file.encoding, from) /\ Bytes[from].c \in Written
      BY <3>1, ByteTyped
    <3>3. Width("UTF8", Bytes[from].c) = 1
      BY <1>3, <2>5, <3>2 DEF WholeAt
    <3> QED BY <3>2, <3>3 DEF Width, Written, Multibyte
  <2>7. Len(s) = 1 /\ s[1] = Char(Bytes[from].c, from)
    <3>1. /\ Len(s) = to - p
          /\ \A n \in 1 .. to - p : s[n] = Char(Alone(p + n), p + n)
      BY OfANSI
    <3> HIDE DEF p, s
    <3>2. 1 \in 1 .. to - p /\ p + 1 = from
      BY <2>3
    <3>3. s[1] = Char(Alone(from), from) /\ Len(s) = 1
      BY <2>3, <3>1, <3>2
    <3>4. from \in from .. to /\ file.encoding \notin Multibyte
      BY <1>3 DEF Multibyte
    <3>5. Alone(from) = Bytes[from].c
      BY <2>6, <3>4, AloneIs
    <3> QED BY <3>3, <3>5
  <2> HIDE DEF s
  <2>8. Plain(s)
    BY <2>6, <2>7 DEF Plain, Char
  <2> QED BY <2>1, <2>8 DEF s
<1> QED BY <1>1, <1>2, <1>3

(***************************************************************************)
(* Lines one behind the other, as one text.                                *)
(***************************************************************************)
\* Said by operators, for the lemma to be cited.
AreSeqs(T, x, y, z) == x \in Seq(T) /\ y \in Seq(T) /\ z \in Seq(T)
Associates(x, y, z) == (x \o y) \o z = x \o (y \o z)

LEMMA Associative ==
  ASSUME NEW T, NEW x, NEW y, NEW z, AreSeqs(T, x, y, z)
  PROVE  Associates(x, y, z)
BY DEF AreSeqs, Associates

LEMMA FlatIs ==
  ASSUME NEW T, NEW w \in Seq(Seq(T))
  PROVE  FlattenSeq(w) = Joined(w, Len(w)) /\ FlattenSeq(w) \in Seq(T)
<1>1. w = [k \in 1 .. Len(w) |-> w[k]] /\ Len(w) \in Nat /\ \A k \in 1 .. Len(w) : w[k] \in Seq(T)
  OBVIOUS
<1>2. FlattenSeq(w) = Joined(w, Len(w))
  BY <1>1 DEF Joined
<1>3. Joined(w, Len(w)) \in Seq(T)
  BY <1>1, JoinedTyped
<1> QED BY <1>2, <1>3

LEMMA FlatHas ==
  ASSUME NEW T, NEW w \in Seq(Seq(T)), NEW y \in 1 .. Len(w), NEW j \in 1 .. Len(w[y])
  PROVE  \E x \in 1 .. Len(FlattenSeq(w)) : FlattenSeq(w)[x] = w[y][j]
<1>1. FlattenSeq(w) = Joined(w, Len(w))
  BY FlatIs
<1>2. Len(w) \in Nat /\ \A k \in 1 .. Len(w) : w[k] \in Seq(T)
  OBVIOUS
<1>3. \E x \in 1 .. Len(Joined(w, Len(w))) : Joined(w, Len(w))[x] = w[y][j]
  BY <1>2, JoinedHas
<1> QED BY <1>1, <1>3

LEMMA FlatConcat ==
  ASSUME NEW T, NEW x \in Seq(Seq(T)), NEW y \in Seq(Seq(T))
  PROVE  FlattenSeq(x \o y) = FlattenSeq(x) \o FlattenSeq(y)
<1> DEFINE L == Len(x)
           K == Len(y)
           z == x \o y
           D == {n \in 0 .. K : Joined(z, L + n) = Joined(x, L) \o Joined(y, n)}
<1>1. /\ z \in Seq(Seq(T)) /\ Len(z) = L + K /\ L \in Nat /\ K \in Nat
      /\ \A i \in 1 .. L : z[i] = x[i]
      /\ \A i \in L + 1 .. L + K : z[i] = y[i - L]
  BY Concat
<1>2. Joined(x, L) \in Seq(T)
  BY FlatIs
<1>3. \A n \in 1 .. K : y[n] \in Seq(T)
  OBVIOUS
<1>4. \A n \in 1 .. L + K : z[n] \in Seq(T)
  BY <1>1
<1> HIDE DEF L, K, z
<1>5. Joined(z, L) = Joined(x, L)
  BY <1>1, JoinedSame
<1>6. 0 \in D
  <2>1. Joined(y, 0) = <<>>
    BY JoinedNone
  <2>2. Joined(x, L) \o <<>> = Joined(x, L)
    BY <1>2
  <2>3. L + 0 = L /\ 0 \in 0 .. K
    BY <1>1
  <2>4. Joined(z, L + 0) = Joined(x, L) \o Joined(y, 0)
    BY <1>5, <2>1, <2>2, <2>3
  <2> QED BY <2>3, <2>4
<1>7. ASSUME NEW n \in 0 .. K - 1, n \in D PROVE n + 1 \in D
  <2>1. Joined(z, L + n) = Joined(x, L) \o Joined(y, n)
    BY <1>7
  <2>2. Joined(y, n + 1) = Joined(y, n) \o y[n + 1] /\ Joined(y, n) \in Seq(T) /\ y[n + 1] \in Seq(T)
    BY <1>1, <1>3, JoinedStep
  <2> DEFINE p == L + n
  <2>3. p \in 0 .. (L + K) - 1 /\ p + 1 = L + (n + 1) /\ p + 1 \in L + 1 .. L + K /\ (p + 1) - L = n + 1
        /\ L + K \in Nat /\ n + 1 \in 0 .. K
    <3>1. L \in Nat /\ K \in Nat
      BY <1>1
    <3> HIDE DEF D
    <3> QED BY <3>1
  <2> HIDE DEF p
  <2>4. Joined(z, p + 1) = Joined(z, p) \o z[p + 1]
    BY <1>4, <2>3, JoinedStep
  <2>5. z[p + 1] = y[n + 1]
    <3>1. z[p + 1] = y[(p + 1) - L]
      BY <1>1, <2>3
    <3> QED BY <2>3, <3>1
  <2>6. Joined(z, p) = Joined(x, L) \o Joined(y, n)
    BY <2>1 DEF p
  <2>7. Joined(z, p + 1) = Joined(x, L) \o (Joined(y, n) \o y[n + 1])
    <3> DEFINE a == Joined(x, L)
               b == Joined(y, n)
               c == y[n + 1]
    <3>1. AreSeqs(T, a, b, c)
      BY <1>2, <2>2 DEF AreSeqs
    <3>2. Joined(z, p + 1) = (a \o b) \o c
      BY <2>4, <2>5, <2>6
    <3> HIDE DEF a, b, c, D
    <3>3. Associates(a, b, c)
      BY <3>1, Associative
    <3>4. Joined(z, p + 1) = a \o (b \o c)
      BY <3>2, <3>3, Zenon DEF Associates
    <3> QED BY <3>4 DEF a, b, c
  <2>8. Joined(z, L + (n + 1)) = Joined(x, L) \o Joined(y, n + 1)
    BY <2>2, <2>3, <2>7
  <2> QED BY <2>3, <2>8
<1>8. Joined(z, L + K) = Joined(x, L) \o Joined(y, K)
  <2>1. \A n \in 0 .. K : n \in D
    <3> HIDE DEF D
    <3> QED BY <1>1, <1>6, <1>7, UpTo
  <2>2. K \in D
    BY <1>1, <2>1
  <2> QED BY <2>2
<1>9. FlattenSeq(z) = Joined(z, L + K) /\ FlattenSeq(x) = Joined(x, L) /\ FlattenSeq(y) = Joined(y, K)
  BY <1>1, FlatIs DEF L, K
<1> QED BY <1>8, <1>9 DEF z

LEMMA FlatOne ==
  ASSUME NEW T, NEW l \in Seq(T)
  PROVE  FlattenSeq(<<l>>) = l /\ <<l>> \in Seq(Seq(T))
<1> DEFINE f == <<l>>
<1>1. f \in Seq(Seq(T)) /\ Len(f) = 1 /\ f[0 + 1] = l
  OBVIOUS
<1> HIDE DEF f
<1>2. FlattenSeq(f) = Joined(f, 1)
  BY <1>1, FlatIs
<1>3. Joined(f, 0 + 1) = Joined(f, 0) \o f[0 + 1]
  BY <1>1, JoinedNext
<1>4. Joined(f, 0) = <<>>
  BY JoinedNone
<1>5. <<>> \o l = l
  OBVIOUS
<1> QED BY <1>1, <1>2, <1>3, <1>4, <1>5 DEF f

(***************************************************************************)
(* WriteToConsole: the lines it prints are parts of the message, that end  *)
(* before an LF, or a CR and an LF, or with the message.                   *)
(***************************************************************************)
LEMMA LineStartIs ==
  ASSUME NEW m, Len(m) \in Nat, NEW n \in 1 .. Len(m) + 1
  PROVE  /\ LineStart(m, n) \in 1 .. n
         /\ LineStart(m, n) # 1 => m[LineStart(m, n) - 1].c = "lf"
         /\ \A k \in LineStart(m, n) .. n - 1 : m[k].c # "lf"
<1> DEFINE S == {0} \cup {k \in 1 .. n - 1 : m[k].c = "lf"}
           N == n - 1
           x == Max(S)
<1>1. N \in Nat /\ S \subseteq 0 .. N /\ S # {}
  OBVIOUS
<1>2. x \in S /\ \A k \in S : k <= x
  <2> HIDE DEF S, N
  <2> QED BY <1>1, MaxIs
<1>3. LineStart(m, n) = x + 1
  BY DEF LineStart
<1> HIDE DEF x
<1>4. x \in 0 .. n - 1 /\ (x # 0 => m[x].c = "lf")
  BY <1>2
<1>5. \A k \in x + 1 .. n - 1 : m[k].c # "lf"
  BY <1>2, <1>4
<1>6. (x + 1) - 1 = x /\ x + 1 \in 1 .. n
  BY <1>4
<1> QED BY <1>3, <1>4, <1>5, <1>6

LEMMA LineStartNext ==
  ASSUME NEW m, Len(m) \in Nat, NEW n \in 1 .. Len(m)
  PROVE  LineStart(m, n + 1) = IF m[n].c = "lf" THEN n + 1 ELSE LineStart(m, n)
<1> DEFINE r == n + 1
           p == LineStart(m, n)
           q == LineStart(m, r)
<1>1. r \in 1 .. Len(m) + 1 /\ r - 1 = n /\ n \in 1 .. Len(m) + 1
  OBVIOUS
<1>2. p \in 1 .. n /\ (p # 1 => m[p - 1].c = "lf") /\ \A k \in p .. n - 1 : m[k].c # "lf"
  BY <1>1, LineStartIs
<1>3. q \in 1 .. r /\ (q # 1 => m[q - 1].c = "lf") /\ \A k \in q .. r - 1 : m[k].c # "lf"
  <2> HIDE DEF r
  <2> QED BY <1>1, LineStartIs
<1> HIDE DEF p, q
<1>4. CASE m[n].c = "lf"
  <2>1. ~(n \in q .. r - 1)
    BY <1>3, <1>4
  <2> QED BY <1>1, <1>3, <1>4, <2>1 DEF q
<1>5. CASE m[n].c # "lf"
  <2>1. q - 1 # n
    <3> SUFFICES ASSUME q - 1 = n PROVE FALSE
      OBVIOUS
    <3>1. q # 1
      BY <1>1, <1>3
    <3> QED BY <1>3, <1>5, <3>1
  <2>2. q <= n
    BY <1>1, <1>3, <2>1
  <2>3. ~(p < q)
    <3> SUFFICES ASSUME p < q PROVE FALSE
      OBVIOUS
    <3> DEFINE k == q - 1
    <3>1. k \in p .. n - 1 /\ q # 1
      BY <1>1, <1>2, <1>3, <2>2
    <3>2. m[k].c = "lf"
      BY <1>3, <3>1
    <3> HIDE DEF k
    <3> QED BY <1>2, <3>1, <3>2
  <2>4. ~(q < p)
    <3> SUFFICES ASSUME q < p PROVE FALSE
      OBVIOUS
    <3> DEFINE k == p - 1
    <3>1. k \in q .. r - 1 /\ p # 1
      BY <1>1, <1>2, <1>3
    <3>2. m[k].c = "lf"
      BY <1>2, <3>1
    <3> HIDE DEF k
    <3> QED BY <1>3, <3>1, <3>2
  <2>5. p = q
    BY <1>2, <1>3, <2>3, <2>4
  <2> QED BY <1>5, <2>5 DEF p, q
<1> QED BY <1>4, <1>5

NoNul(m) == \A n \in 1 .. Len(m) : m[n].c # "nul"

LEMMA BeforeNulIs ==
  ASSUME NEW T, NEW m \in Seq(T)
  PROVE  /\ BeforeNul(m) \in Seq(T)
         /\ NoNul(m) => BeforeNul(m) = m
<1> DEFINE N == Len(m)
           S == {n \in 0 .. N : \A i \in 1 .. n : m[i].c # "nul"}
           x == Max(S)
<1>1. N \in Nat /\ S \subseteq 0 .. N /\ 0 \in S
  OBVIOUS
<1>2. x \in S /\ \A k \in S : k <= x
  <2> HIDE DEF S, N
  <2> QED BY <1>1, MaxIs
<1>3. BeforeNul(m) = SubSeq(m, 1, x)
  BY DEF BeforeNul
<1>4. NoNul(m) => N \in S
  BY <1>1 DEF NoNul
<1>5. x \in 0 .. N /\ (NoNul(m) => x = N)
  BY <1>1, <1>2, <1>4
<1> HIDE DEF x, S
<1>6. SubSeq(m, 1, x) \in Seq(T)
  <2>1. 1 \in 1 .. Len(m) + 1 /\ x \in 1 - 1 .. Len(m)
    BY <1>1, <1>5
  <2> QED BY <2>1, PartOf
<1>7. SubSeq(m, 1, N) = m
  OBVIOUS
<1> QED BY <1>3, <1>5, <1>6, <1>7

\* The line from p to q, up to a zero, is what is printed at the place n.
PrintedAt(m, n, q) ==
  /\ q \in LineStart(m, n) .. n - 1
  /\ LineTo(m, n) = <<BeforeNul(SubSeq(m, LineStart(m, n), q))>>
  /\ n <= Len(m) => m[n].c = "lf"
  /\ q # n - 1 => q = n - 2 /\ m[n - 1].c = "cr"

LEMMA FrontPart ==
  ASSUME NEW T, NEW m \in Seq(T), NEW p \in 1 .. Len(m) + 1, NEW q \in p .. Len(m)
  PROVE  /\ SubSeq(m, p, q) # <<>> /\ Last(SubSeq(m, p, q)) = m[q]
         /\ Front(SubSeq(m, p, q)) = SubSeq(m, p, q - 1)
<1> DEFINE s == SubSeq(m, p, q)
<1>1. s \in Seq(T) /\ Len(s) = (q + 1) - p /\ \A i \in 1 .. (q + 1) - p : s[i] = m[(p - 1) + i]
  OBVIOUS
<1>2. s # <<>> /\ Last(s) = m[q]
  <2>1. Len(s) \in 1 .. (q + 1) - p /\ (p - 1) + Len(s) = q
    BY <1>1
  <2> HIDE DEF s
  <2> QED BY <1>1, <2>1 DEF Last
<1>3. Front(s) = SubSeq(m, p, q - 1)
  <2> DEFINE h == q - 1
             t == SubSeq(m, p, h)
             u == SubSeq(s, 1, Len(s) - 1)
             K == q - p
  <2>0. K \in Nat /\ h \in p - 1 .. Len(m) /\ (h + 1) - p = K /\ Len(s) - 1 = K /\ K <= Len(s)
    BY <1>1
  <2>1. t \in Seq(T) /\ Len(t) = K /\ \A i \in 1 .. K : t[i] = m[(p - 1) + i]
    <3>1. t \in Seq(T) /\ Len(t) = (h + 1) - p /\ \A i \in 1 .. (h + 1) - p : t[i] = m[(p - 1) + i]
      BY <2>0, PartOf
    <3> HIDE DEF t, h, K
    <3> QED BY <2>0, <3>1
  <2>2. u \in Seq(T) /\ Len(u) = K /\ \A i \in 1 .. K : u[i] = s[i]
    <3> HIDE DEF s
    <3>1. s \in Seq(T) /\ 0 <= K /\ K <= Len(s) /\ u = SubSeq(s, 1, K)
      BY <1>1, <2>0
    <3> HIDE DEF u, K
    <3> QED BY <2>0, <3>1
  <2>3. \A i \in 1 .. K : i \in 1 .. (q + 1) - p
    BY <2>0
  <2> HIDE DEF t, u, K, s
  <2>4. \A i \in 1 .. K : u[i] = t[i]
    BY <1>1, <2>1, <2>2, <2>3
  <2>5. u = t
    BY <2>0, <2>1, <2>2, <2>4
  <2> QED BY <2>5 DEF Front, u, t, h
<1> QED BY <1>2, <1>3

LEMMA LineToIs ==
  ASSUME NEW T, NEW m \in Seq(T), NEW n \in 1 .. Len(m) + 1
  PROVE  \/ /\ LineTo(m, n) = <<>>
            /\ \/ n <= Len(m) /\ m[n].c # "lf"
               \/ \A k \in LineStart(m, n) .. n - 1 : m[k].c = "cr"
         \/ \E q \in LineStart(m, n) .. n - 1 : PrintedAt(m, n, q)
<1> DEFINE p == LineStart(m, n)
           msg == SubSeq(m, p, n - 1)
           shown == IF n <= Len(m) /\ msg # <<>> /\ Last(msg).c = "cr" THEN Front(msg) ELSE msg
<1>0. Len(m) \in Nat
  OBVIOUS
<1>1. p \in 1 .. n
  BY <1>0, LineStartIs
<1>2. LineTo(m, n) = IF shown = <<>> \/ (n <= Len(m) /\ m[n].c # "lf") THEN <<>> ELSE <<BeforeNul(shown)>>
  BY DEF LineTo
<1> HIDE DEF p
<1>3. CASE n <= Len(m) /\ m[n].c # "lf"
  BY <1>2, <1>3
<1>4. CASE ~(n <= Len(m) /\ m[n].c # "lf") /\ p = n
  <2>1. msg = <<>>
    BY <1>0, <1>4
  <2>2. shown = <<>>
    BY <2>1
  <2>3. p .. n - 1 = {}
    BY <1>4
  <2> QED BY <1>2, <2>2, <2>3 DEF p
<1>5. CASE ~(n <= Len(m) /\ m[n].c # "lf") /\ p # n
  <2> DEFINE h == n - 1
  <2>1. p \in 1 .. Len(m) + 1 /\ h \in p .. Len(m) /\ h - 1 = n - 2 /\ n = h + 1
    BY <1>0, <1>1, <1>5
  <2> HIDE DEF h
  <2>2. SubSeq(m, p, h) # <<>> /\ Last(SubSeq(m, p, h)) = m[h] /\ Front(SubSeq(m, p, h)) = SubSeq(m, p, h - 1)
    BY <2>1, FrontPart
  <2>3. msg # <<>> /\ Last(msg) = m[h] /\ Front(msg) = SubSeq(m, p, h - 1) /\ msg = SubSeq(m, p, h)
    BY <2>2 DEF h
  <2> HIDE DEF msg
  <2>4. CASE n <= Len(m) /\ m[h].c = "cr"
    <3>1. shown = SubSeq(m, p, h - 1)
      BY <2>3, <2>4
    <3>2. CASE p = h
      <4>1. SubSeq(m, p, h - 1) = <<>>
        BY <2>1, <3>2
      <4>2. LineTo(m, n) = <<>>
        BY <1>2, <3>1, <4>1
      <4>3. \A k \in p .. n - 1 : k = h
        BY <2>1, <3>2
      <4> QED BY <2>4, <4>2, <4>3 DEF p
    <3>3. CASE p # h
      <4> DEFINE g == h - 1
      <4>1. p \in 1 .. Len(m) + 1 /\ g \in p .. Len(m) /\ g \in p .. n - 1 /\ g = n - 2
        BY <2>1, <3>3
      <4> HIDE DEF g
      <4>2. SubSeq(m, p, g) # <<>>
        BY <4>1, FrontPart
      <4>3. LineTo(m, n) = <<BeforeNul(SubSeq(m, p, g))>>
        BY <1>2, <1>5, <3>1, <4>2 DEF g
      <4>4. PrintedAt(m, n, g)
        BY <1>5, <2>4, <4>1, <4>3 DEF PrintedAt, p, h
      <4> QED BY <4>1, <4>4 DEF p
    <3> QED BY <3>2, <3>3
  <2>5. CASE ~(n <= Len(m) /\ m[h].c = "cr")
    <3>1. shown = SubSeq(m, p, h)
      BY <2>3, <2>5
    <3>2. LineTo(m, n) = <<BeforeNul(SubSeq(m, p, h))>>
      BY <1>2, <1>5, <2>2, <3>1
    <3>3. h \in p .. n - 1 /\ h = n - 1
      BY <2>1
    <3>4. PrintedAt(m, n, h)
      BY <1>5, <3>2, <3>3 DEF PrintedAt, p
    <3> QED BY <3>3, <3>4 DEF p
  <2> QED BY <2>4, <2>5
<1> QED BY <1>3, <1>4, <1>5

LinesOf(m) == [n \in 1 .. Len(m) + 1 |-> LineTo(m, n)]

LEMMA WriteIs ==
  ASSUME NEW T, NEW m \in Seq(T)
  PROVE  /\ WriteToConsole(m) = Joined(LinesOf(m), Len(m) + 1) /\ Len(m) + 1 \in Nat
         /\ \A n \in 1 .. Len(m) + 1 : LinesOf(m)[n] = LineTo(m, n)
BY DEF WriteToConsole, LinesOf

\* Whatever holds of each line is stated by a set that has them all.
LEMMA WriteTyped ==
  ASSUME NEW T, NEW m \in Seq(T), NEW G,
         \A n \in 1 .. Len(m) + 1 : \A q \in LineStart(m, n) .. n - 1 :
           PrintedAt(m, n, q) => BeforeNul(SubSeq(m, LineStart(m, n), q)) \in G
  PROVE  /\ WriteToConsole(m) \in Seq(G)
         /\ \A n \in 1 .. Len(m) + 1 : LineTo(m, n) \in Seq(G)
<1>1. ASSUME NEW n \in 1 .. Len(m) + 1 PROVE LineTo(m, n) \in Seq(G)
  <2>1. CASE LineTo(m, n) = <<>>
    BY <2>1
  <2>2. ASSUME NEW q \in LineStart(m, n) .. n - 1, PrintedAt(m, n, q) PROVE LineTo(m, n) \in Seq(G)
    <3> DEFINE l == BeforeNul(SubSeq(m, LineStart(m, n), q))
    <3>1. l \in G /\ LineTo(m, n) = <<l>>
      BY <2>2 DEF PrintedAt
    <3> HIDE DEF l
    <3> QED BY <3>1
  <2> QED BY <2>1, <2>2, LineToIs
<1>2. \A n \in 1 .. Len(m) + 1 : LinesOf(m)[n] \in Seq(G)
  BY <1>1, WriteIs
<1>3. WriteToConsole(m) = Joined(LinesOf(m), Len(m) + 1) /\ Len(m) + 1 \in Nat
  BY WriteIs
<1>4. WriteToConsole(m) \in Seq(G)
  BY <1>2, <1>3, JoinedTyped
<1> QED BY <1>1, <1>4

LEMMA WriteParts ==
  ASSUME NEW T, NEW m \in Seq(T), NEW n \in 1 .. Len(m) + 1, NEW q \in LineStart(m, n) .. n - 1
  PROVE  /\ LineStart(m, n) \in 1 .. n /\ LineStart(m, n) \in 1 .. Len(m) /\ q \in LineStart(m, n) .. Len(m)
         /\ SubSeq(m, LineStart(m, n), q) \in Seq(T)
         /\ LineStart(m, n) \in 1 .. Len(m) + 1 /\ q \in LineStart(m, n) - 1 .. Len(m)
<1>1. Len(m) \in Nat
  OBVIOUS
<1>2. LineStart(m, n) \in 1 .. n
  BY <1>1, LineStartIs
<1> DEFINE p == LineStart(m, n)
<1> HIDE DEF p
<1>3. p \in 1 .. n /\ q \in p .. n - 1
  BY <1>2 DEF p
<1>4. p \in 1 .. n /\ p \in 1 .. Len(m) /\ q \in p .. Len(m) /\ p \in 1 .. Len(m) + 1 /\ q \in p - 1 .. Len(m)
  BY <1>1, <1>3
<1>5. SubSeq(m, p, q) \in Seq(T)
  BY <1>4, PartOf
<1> QED BY <1>4, <1>5 DEF p

\* A line without a zero is shown whole.
LEMMA LineWhole ==
  ASSUME NEW T, NEW m \in Seq(T), NoNul(m), NEW n \in 1 .. Len(m) + 1, NEW q \in LineStart(m, n) .. n - 1
  PROVE  BeforeNul(SubSeq(m, LineStart(m, n), q)) = SubSeq(m, LineStart(m, n), q)
<1> DEFINE p == LineStart(m, n)
           l == SubSeq(m, p, q)
<1>1. p \in 1 .. Len(m) /\ q \in p .. Len(m) /\ p \in 1 .. Len(m) + 1 /\ q \in p - 1 .. Len(m)
  BY WriteParts
<1> HIDE DEF p
<1>2. l \in Seq(T) /\ Len(l) = (q + 1) - p /\ \A i \in 1 .. (q + 1) - p : l[i] = m[(p - 1) + i]
  BY <1>1, PartOf
<1>3. \A i \in 1 .. (q + 1) - p : (p - 1) + i \in 1 .. Len(m)
  BY <1>1
<1> HIDE DEF l
<1>4. NoNul(l)
  BY <1>2, <1>3 DEF NoNul
<1>5. BeforeNul(l) = l
  BY <1>2, <1>4, BeforeNulIs
<1> QED BY <1>5 DEF l, p

LEMMA WriteSeq ==
  ASSUME NEW T, NEW m \in Seq(T)
  PROVE  WriteToConsole(m) \in Seq(Seq(T)) /\ \A n \in 1 .. Len(m) + 1 : LineTo(m, n) \in Seq(Seq(T))
<1> DEFINE G == Seq(T)
<1>1. \A n \in 1 .. Len(m) + 1 : \A q \in LineStart(m, n) .. n - 1 :
        PrintedAt(m, n, q) => BeforeNul(SubSeq(m, LineStart(m, n), q)) \in G
  BY WriteParts, BeforeNulIs
<1> HIDE DEF G
<1>2. WriteToConsole(m) \in Seq(G) /\ \A n \in 1 .. Len(m) + 1 : LineTo(m, n) \in Seq(G)
  BY <1>1, WriteTyped
<1> QED BY <1>2 DEF G

\* Every character that is neither LF nor CR is printed, if there is no zero.
LEMMA WriteHas ==
  ASSUME NEW T, NEW m \in Seq(T), NoNul(m), NEW k \in 1 .. Len(m), m[k].c \notin {"lf", "cr"}
  PROVE  \E x \in 1 .. Len(FlattenSeq(WriteToConsole(m))) : FlattenSeq(WriteToConsole(m))[x] = m[k]
<1> DEFINE S == {i \in k .. Len(m) + 1 : i = Len(m) + 1 \/ m[i].c = "lf"}
<1>0. Len(m) \in Nat
  OBVIOUS
<1>1. PICK n \in S : \A i \in S : n <= i
  <2>1. Len(m) + 1 \in S /\ S \subseteq Nat
    OBVIOUS
  <2> HIDE DEF S
  <2> QED BY <2>1, LeastOf
<1>2. n \in k + 1 .. Len(m) + 1 /\ (n <= Len(m) => m[n].c = "lf") /\ n \in 1 .. Len(m) + 1
  BY <1>0, <1>1
<1>3. \A i \in k .. n - 1 : m[i].c # "lf"
  BY <1>0, <1>1
<1> HIDE DEF S
<1> DEFINE p == LineStart(m, n)
<1>4. p \in 1 .. n /\ (p # 1 => m[p - 1].c = "lf")
  BY <1>0, <1>2, LineStartIs
<1> HIDE DEF p
<1>5. p <= k
  <2> SUFFICES ASSUME p > k PROVE FALSE
    BY <1>4
  <2> DEFINE i == p - 1
  <2>1. i \in k .. n - 1 /\ p # 1
    BY <1>0, <1>2, <1>4
  <2>2. m[i].c = "lf"
    BY <1>4, <2>1
  <2> HIDE DEF i
  <2> QED BY <1>3, <2>1, <2>2
<1>6. k \in p .. n - 1
  BY <1>2, <1>4, <1>5
<1>7. PICK q \in p .. n - 1 : PrintedAt(m, n, q)
  <2>1. ~(n <= Len(m) /\ m[n].c # "lf") /\ ~(\A i \in p .. n - 1 : m[i].c = "cr")
    BY <1>2, <1>6
  <2> QED BY <1>2, <2>1, LineToIs DEF p
<1>8. k <= q
  <2>1. q # n - 1 => q = n - 2 /\ m[n - 1].c = "cr"
    BY <1>7 DEF PrintedAt
  <2>2. k # n - 1 \/ q = n - 1
    BY <2>1
  <2> QED BY <1>0, <1>2, <1>6, <2>1, <2>2
<1> DEFINE l == SubSeq(m, p, q)
           j == (k - p) + 1
           W == WriteToConsole(m)
           N == Len(m) + 1
           f == LinesOf(m)
<1>9. LineTo(m, n) = <<l>>
  BY <1>2, <1>7, LineWhole DEF PrintedAt, p
<1>10. l \in Seq(T) /\ j \in 1 .. Len(l) /\ l[j] = m[k]
  <2>1. p \in 1 .. Len(m) + 1 /\ q \in p - 1 .. Len(m) /\ j \in 1 .. (q + 1) - p /\ (p - 1) + j = k
    BY <1>0, <1>2, <1>4, <1>5, <1>6, <1>7, <1>8
  <2>2. l \in Seq(T) /\ Len(l) = (q + 1) - p /\ \A i \in 1 .. (q + 1) - p : l[i] = m[(p - 1) + i]
    BY <2>1, PartOf
  <2> HIDE DEF l, j
  <2> QED BY <2>1, <2>2
<1> HIDE DEF l, j
<1>11. W = Joined(f, N) /\ N \in Nat /\ n \in 1 .. N /\ W \in Seq(Seq(T)) /\ f[n] = <<l>>
       /\ \A i \in 1 .. N : f[i] \in Seq(Seq(T))
  <2>1. \A i \in 1 .. N : f[i] = LineTo(m, i) /\ LineTo(m, i) \in Seq(Seq(T))
    BY WriteIs, WriteSeq
  <2>2. W = Joined(f, N) /\ N \in Nat /\ W \in Seq(Seq(T))
    BY WriteIs, WriteSeq
  <2> QED BY <1>2, <1>9, <2>1, <2>2
<1> HIDE DEF W, N, f
<1>13. PICK y \in 1 .. Len(W) : W[y] = l
  <2>1. IsParts(f, N, Seq(T)) /\ n \in 1 .. N /\ f[n] = <<l>>
    BY <1>11 DEF IsParts
  <2>2. Has(Joined(f, N), l)
    BY <2>1, JoinedItem
  <2> QED BY <1>11, <2>2 DEF Has
<1>15. PICK x \in 1 .. Len(FlattenSeq(W)) : FlattenSeq(W)[x] = W[y][j]
  <2>1. W \in Seq(Seq(T)) /\ j \in 1 .. Len(W[y])
    BY <1>10, <1>11, <1>13
  <2> QED BY <2>1, FlatHas
<1>16. x \in 1 .. Len(FlattenSeq(W)) /\ FlattenSeq(W)[x] = m[k]
  BY <1>10, <1>13, <1>15
<1> QED BY <1>16 DEF W

LEMMA RisesConcat ==
  ASSUME NEW T, NEW x \in Seq(T), NEW y \in Seq(T), Rises(x), Rises(y),
         \A i \in 1 .. Len(x) : \A j \in 1 .. Len(y) : x[i].at < y[j].at
  PROVE  Rises(x \o y)
<1> DEFINE z == x \o y
           L == Len(x)
           K == Len(y)
<1>1. /\ Len(z) = L + K /\ L \in Nat /\ K \in Nat
      /\ \A i \in 1 .. L : z[i] = x[i]
      /\ \A i \in L + 1 .. L + K : z[i] = y[i - L]
  BY Concat
<1>2. (\A n \in 1 .. L : \A p \in 1 .. n - 1 : x[p].at < x[n].at)
      /\ (\A n \in 1 .. K : \A p \in 1 .. n - 1 : y[p].at < y[n].at)
      /\ \A i \in 1 .. L : \A j \in 1 .. K : x[i].at < y[j].at
  BY DEF Rises
<1> HIDE DEF z, L, K
<1>3. ASSUME NEW n \in 1 .. L + K, NEW p \in 1 .. n - 1 PROVE z[p].at < z[n].at
  <2>1. CASE n \in 1 .. L
    <3>1. p \in 1 .. L /\ z[p] = x[p] /\ z[n] = x[n]
      BY <1>1, <2>1
    <3> QED BY <1>2, <2>1, <3>1
  <2>2. CASE p \in 1 .. L /\ n \in L + 1 .. L + K
    <3> DEFINE j == n - L
    <3>1. j \in 1 .. K /\ z[p] = x[p] /\ z[n] = y[j]
      BY <1>1, <2>2
    <3> HIDE DEF j
    <3> QED BY <1>2, <2>2, <3>1
  <2>3. CASE p \in L + 1 .. L + K /\ n \in L + 1 .. L + K
    <3> DEFINE j == n - L
               i == p - L
    <3>1. j \in 1 .. K /\ i \in 1 .. j - 1
      BY <1>1, <2>3
    <3>2. z[p] = y[i] /\ z[n] = y[j]
      BY <1>1, <2>3
    <3> HIDE DEF i, j
    <3> QED BY <1>2, <3>1, <3>2
  <2> QED BY <1>1, <2>1, <2>2, <2>3
<1>4. Rises(z)
  BY <1>1, <1>3 DEF Rises
<1> QED BY <1>4 DEF z

LEMMA WriteRises ==
  ASSUME NEW T, NEW m \in Seq(T), NoNul(m), Rises(m)
  PROVE  LET out == FlattenSeq(WriteToConsole(m)) IN
         /\ out \in Seq(T) /\ Rises(out)
         /\ \A x \in 1 .. Len(out) : \E k \in 1 .. Len(m) : out[x] = m[k]
<1> DEFINE L == Len(m)
           N == L + 1
           f == LinesOf(m)
           J(n) == Joined(f, n)
           F(n) == FlattenSeq(J(n))
           U(n) == IF n = N THEN L ELSE LineStart(m, n + 1) - 1
           From(n) == \A x \in 1 .. Len(F(n)) : \E k \in 1 .. U(n) : F(n)[x] = m[k]
           D == {n \in 0 .. N : F(n) \in Seq(T) /\ Rises(F(n)) /\ From(n)}
<1>0. L \in Nat /\ N \in Nat /\ N = L + 1
  OBVIOUS
<1>1. \A n \in 1 .. N : f[n] = LineTo(m, n) /\ f[n] \in Seq(Seq(T))
  BY WriteIs, WriteSeq
<1>2. WriteToConsole(m) = J(N)
  BY WriteIs
<1>3. 0 \in D
  <2>1. J(0) = <<>>
    BY JoinedNone
  <2>2. F(0) = <<>>
    BY <2>1 DEF FlattenSeq
  <2>3. <<>> \in Seq(T) /\ Len(<<>>) = 0 /\ 1 .. 0 = {}
    OBVIOUS
  <2>4. 0 \in 0 .. N
    BY <1>0
  <2> HIDE DEF F, U
  <2> QED BY <2>2, <2>3, <2>4 DEF Rises
<1>4. ASSUME NEW n \in 0 .. N - 1, n \in D PROVE n + 1 \in D
  <2> DEFINE r == n + 1
             p == LineStart(m, r)
  <2>0. r \in 1 .. N /\ r \in 0 .. N /\ r \in 1 .. Len(m) + 1
    BY <1>0
  <2>1. J(r) = J(n) \o f[r] /\ J(n) \in Seq(Seq(T)) /\ f[r] \in Seq(Seq(T)) /\ J(r) \in Seq(Seq(T))
    <3> HIDE DEF N, L, f
    <3> QED BY <1>0, <1>1, JoinedStep
  <2>2. F(n) \in Seq(T) /\ Rises(F(n)) /\ From(n)
    BY <1>4
  <2>3. U(n) = p - 1
    BY <1>0
  <2>4. p \in 1 .. r
    <3> HIDE DEF r
    <3> QED BY <1>0, <2>0, LineStartIs
  <2>5. U(r) >= p - 1 /\ U(r) \in 0 .. L
    <3>1. CASE r = N
      BY <1>0, <2>0, <2>4, <3>1
    <3>2. CASE r # N
      <4>1. r \in 1 .. Len(m)
        BY <1>0, <2>0, <3>2
      <4>2. LineStart(m, r + 1) = IF m[r].c = "lf" THEN r + 1 ELSE p
        <5> HIDE DEF r
        <5> QED BY <1>0, <4>1, LineStartNext
      <4>3. U(r) = LineStart(m, r + 1) - 1
        BY <3>2
      <4> HIDE DEF U, r, p
      <4> QED BY <1>0, <2>4, <4>1, <4>2, <4>3
    <3> QED BY <3>1, <3>2
  <2> HIDE DEF U, p, r, F, J
  <2>6. \A x \in 1 .. Len(F(n)) : \E k \in 1 .. p - 1 : F(n)[x] = m[k]
    BY <2>2, <2>3
  <2>7. CASE f[r] = <<>>
    <3>1. J(r) = J(n)
      BY <2>1, <2>7
    <3>2. F(r) = F(n)
      BY <3>1 DEF F
    <3>3. From(r)
      <4> SUFFICES ASSUME NEW x \in 1 .. Len(F(n)) PROVE \E k \in 1 .. U(r) : F(n)[x] = m[k]
        BY <3>2
      <4>1. PICK k \in 1 .. p - 1 : F(n)[x] = m[k]
        BY <2>6
      <4>2. k \in 1 .. U(r)
        BY <2>4, <2>5
      <4> QED BY <4>1, <4>2
    <3> QED BY <2>0, <2>2, <3>2, <3>3 DEF r
  <2>8. ASSUME NEW q \in p .. r - 1, PrintedAt(m, r, q) PROVE n + 1 \in D
    <3> DEFINE l == SubSeq(m, p, q)
    <3>1. f[r] = <<l>>
      BY <1>1, <2>0, <2>8, LineWhole DEF PrintedAt, p
    <3>2. l \in Seq(T) /\ Len(l) = (q + 1) - p /\ \A i \in 1 .. (q + 1) - p : l[i] = m[(p - 1) + i]
      <4>1. p \in 1 .. Len(m) + 1 /\ q \in p - 1 .. Len(m)
        BY <1>0, <2>0, <2>4
      <4> QED BY <4>1, PartOf
    <3> HIDE DEF l
    <3>3. F(r) = F(n) \o l
      <4>1. FlattenSeq(<<l>>) = l /\ <<l>> \in Seq(Seq(T))
        BY <3>2, FlatOne
      <4>2. FlattenSeq(J(n) \o <<l>>) = FlattenSeq(J(n)) \o FlattenSeq(<<l>>)
        BY <2>1, <4>1, FlatConcat
      <4> QED BY <2>1, <3>1, <4>1, <4>2 DEF F
    <3>4. \A i \in 1 .. Len(l) : (p - 1) + i \in p .. q /\ l[i] = m[(p - 1) + i]
      BY <2>0, <2>4, <3>2
    <3>5. q \in 1 .. U(r) /\ U(r) \in Nat /\ U(r) <= L
      <4>1. CASE r = N
        BY <1>0, <2>0, <2>4, <2>8, <4>1 DEF U
      <4>2. CASE r # N
        <5>1. r \in 1 .. Len(m) /\ r <= Len(m)
          BY <1>0, <2>0, <4>2
        <5>2. m[r].c = "lf"
          BY <2>8, <5>1 DEF PrintedAt
        <5>3. LineStart(m, r + 1) = r + 1
          BY <1>0, <5>1, <5>2, LineStartNext
        <5>4. U(r) = (r + 1) - 1
          BY <4>2, <5>3 DEF U
        <5> QED BY <1>0, <2>4, <2>8, <5>1, <5>4
      <4> QED BY <4>1, <4>2
    <3>6. Rises(l)
      <4> SUFFICES ASSUME NEW i \in 1 .. Len(l), NEW j \in 1 .. i - 1 PROVE l[j].at < l[i].at
        BY DEF Rises
      <4> DEFINE a == (p - 1) + i
                 b == (p - 1) + j
      <4>1. j \in 1 .. Len(l)
        BY <2>4, <3>2
      <4>2. a \in p .. q /\ b \in p .. q /\ l[i] = m[a] /\ l[j] = m[b] /\ b < a
        BY <2>4, <3>2, <3>4, <4>1
      <4>3. a \in 1 .. Len(m) /\ b \in 1 .. a - 1
        BY <1>0, <2>0, <2>4, <4>2
      <4> HIDE DEF a, b
      <4> QED BY <4>2, <4>3 DEF Rises
    <3>7. \A i \in 1 .. Len(F(n)) : \A j \in 1 .. Len(l) : F(n)[i].at < l[j].at
      <4> SUFFICES ASSUME NEW i \in 1 .. Len(F(n)), NEW j \in 1 .. Len(l) PROVE F(n)[i].at < l[j].at
        OBVIOUS
      <4>1. PICK k \in 1 .. p - 1 : F(n)[i] = m[k]
        BY <2>6
      <4> DEFINE a == (p - 1) + j
      <4>2. a \in p .. q /\ l[j] = m[a]
        BY <3>4
      <4>3. a \in 1 .. Len(m) /\ k \in 1 .. a - 1
        BY <1>0, <2>0, <2>4, <4>1, <4>2
      <4> HIDE DEF a
      <4> QED BY <4>1, <4>2, <4>3 DEF Rises
    <3>8. Rises(F(r)) /\ F(r) \in Seq(T)
      <4>1. Rises(F(n) \o l)
        BY <2>2, <3>2, <3>6, <3>7, RisesConcat
      <4>2. F(n) \o l \in Seq(T)
        BY <2>2, <3>2
      <4> QED BY <3>3, <4>1, <4>2
    <3>9. From(r)
      <4>1. /\ Len(F(r)) = Len(F(n)) + Len(l) /\ Len(F(n)) \in Nat /\ Len(l) \in Nat
            /\ \A i \in 1 .. Len(F(n)) : F(r)[i] = F(n)[i]
            /\ \A i \in Len(F(n)) + 1 .. Len(F(n)) + Len(l) : F(r)[i] = l[i - Len(F(n))]
        <5> DEFINE a == F(n)
                   z == F(r)
        <5>1. a \in Seq(T) /\ l \in Seq(T) /\ z = a \o l
          BY <2>2, <3>2, <3>3
        <5> HIDE DEF a, z
        <5>2. /\ Len(z) = Len(a) + Len(l) /\ Len(a) \in Nat /\ Len(l) \in Nat
              /\ \A i \in 1 .. Len(a) : z[i] = a[i]
              /\ \A i \in Len(a) + 1 .. Len(a) + Len(l) : z[i] = l[i - Len(a)]
          BY <5>1, Concat
        <5> QED BY <5>2 DEF a, z
      <4> SUFFICES ASSUME NEW x \in 1 .. Len(F(r)) PROVE \E k \in 1 .. U(r) : F(r)[x] = m[k]
        OBVIOUS
      <4>2. CASE x \in 1 .. Len(F(n))
        <5>1. PICK k \in 1 .. p - 1 : F(n)[x] = m[k]
          BY <2>6, <4>2
        <5>2. k \in 1 .. U(r)
          BY <2>4, <2>5
        <5> QED BY <4>1, <4>2, <5>1, <5>2
      <4>3. CASE x \in Len(F(n)) + 1 .. Len(F(n)) + Len(l)
        <5> DEFINE j == x - Len(F(n))
                   a == (p - 1) + j
        <5>1. j \in 1 .. Len(l) /\ F(r)[x] = l[j]
          BY <4>1, <4>3
        <5>2. a \in p .. q /\ l[j] = m[a]
          BY <3>4, <5>1
        <5>3. a \in 1 .. U(r)
          BY <2>4, <3>5, <5>2
        <5> HIDE DEF j, a
        <5> QED BY <5>1, <5>2, <5>3
      <4> QED BY <4>1, <4>2, <4>3
    <3> QED BY <2>0, <3>8, <3>9 DEF r
  <2>9. LineTo(m, r) = <<>> \/ \E q \in p .. r - 1 : PrintedAt(m, r, q)
    <3>1. LineTo(m, r) = <<>> \/ \E q \in LineStart(m, r) .. r - 1 : PrintedAt(m, r, q)
      BY <2>0, LineToIs
    <3> QED BY <3>1 DEF p
  <2> QED BY <1>1, <2>0, <2>7, <2>8, <2>9
<1>5. \A n \in 0 .. N : n \in D
  <2> HIDE DEF D, N
  <2> QED BY <1>0, <1>3, <1>4, UpTo
<1>6. F(N) \in Seq(T) /\ Rises(F(N)) /\ From(N) /\ U(N) = L
  <2>1. N \in 0 .. N
    BY <1>0
  <2> QED BY <1>5, <2>1
<1> QED BY <1>2, <1>6

(***************************************************************************)
(* The parts of a run.  The place behind its first n characters:           *)
(***************************************************************************)
CutAt(B, m, b, n) == IF n = 0 THEN b ELSE EndOf(B, m[n])

LEMMA RunSlice ==
  ASSUME NEW B, NEW enc, IsLayout(B, enc), NEW m, NEW b, NEW e, Run(B, m, b, e), b <= e,
         NEW z \in 0 .. Len(m), NEW n \in z .. Len(m)
  PROVE  /\ Run(B, SubSeq(m, z + 1, n), CutAt(B, m, b, z), CutAt(B, m, b, n))
         /\ CutAt(B, m, b, z) \in b .. CutAt(B, m, b, n) /\ CutAt(B, m, b, n) \in b .. e
         /\ CutAt(B, m, b, Len(m)) = e
<1> DEFINE L == Len(m)
           C(i) == CutAt(B, m, b, i)
<1>0. m \in Seq(Piece) /\ L \in Nat /\ b \in Nat /\ e \in Nat
  BY DEF Run
<1>1. Within(B, m, b, e) /\ Rises(m) /\ Adjoins(B, m)
  BY DEF Run
<1>2. \A i \in 1 .. L : /\ EndOf(B, m[i]) \in Nat /\ m[i].at \in Nat /\ m[i].at <= EndOf(B, m[i])
                        /\ m[i].at > b /\ EndOf(B, m[i]) <= e
  <2>1. ASSUME NEW d, IsCharOf(B, d) PROVE EndOf(B, d) \in Nat /\ d.at \in Nat /\ d.at <= EndOf(B, d)
    BY <2>1, RunEnd DEF IsCharOf
  <2> QED BY <1>1, <2>1 DEF Within
<1>3. \A i \in 0 .. L : C(i) \in b .. e /\ C(i) \in Nat
  <2>1. ASSUME NEW i \in 0 .. L, i = 0 PROVE C(i) \in b .. e
    BY <1>0, <2>1 DEF CutAt
  <2>2. ASSUME NEW i \in 0 .. L, i # 0 PROVE C(i) \in b .. e
    <3>1. i \in 1 .. L /\ C(i) = EndOf(B, m[i])
      BY <1>0, <2>2 DEF CutAt
    <3> HIDE DEF C
    <3> QED BY <1>0, <1>2, <3>1
  <2> HIDE DEF C
  <2> QED BY <1>0, <2>1, <2>2
<1>4. C(L) = e
  <2>1. CASE L = 0
    <3>1. m = <<>>
      BY <1>0, <2>1
    <3> QED BY <2>1, <3>1 DEF Run, CutAt
  <2>2. CASE L # 0
    <3>1. m # <<>>
      BY <1>0, <2>2
    <3> QED BY <2>2, <3>1 DEF Run, CutAt
  <2> QED BY <2>1, <2>2
<1>5. z \in Nat /\ n \in Nat /\ z \in 0 .. L /\ n \in 0 .. L /\ z <= n
  BY <1>0
<1>6. \A i \in 1 .. L : m[i].at = C(i - 1) + 1 /\ C(i) = EndOf(B, m[i])
  <2> SUFFICES ASSUME NEW i \in 1 .. L PROVE m[i].at = C(i - 1) + 1
    BY <1>0 DEF CutAt
  <2>1. CASE i = 1
    <3>1. m # <<>> /\ i - 1 = 0
      BY <1>0, <2>1
    <3> QED BY <2>1, <3>1 DEF Run, CutAt
  <2>2. CASE i # 1
    <3> DEFINE j == i - 1
    <3>1. j \in 1 .. L - 1 /\ j + 1 = i /\ j # 0
      BY <1>0, <2>2
    <3> HIDE DEF j
    <3>2. m[j + 1].at = EndOf(B, m[j]) + 1
      BY <1>1, <3>1 DEF Adjoins
    <3>3. m[i].at = C(j) + 1
      BY <3>1, <3>2 DEF CutAt
    <3> QED BY <3>3 DEF j
  <2> QED BY <2>1, <2>2
<1>7. CASE z = n
  <2>1. SubSeq(m, z + 1, n) = <<>>
    BY <1>0, <1>5, <1>7
  <2>2. Run(B, <<>>, C(z), C(z))
    BY <1>3, <1>5, RunNone
  <2>3. C(z) \in b .. C(n)
    BY <1>0, <1>3, <1>5, <1>7
  <2> HIDE DEF C
  <2>4. Run(B, SubSeq(m, z + 1, n), C(z), C(n)) /\ C(z) \in b .. C(n) /\ C(n) \in b .. e /\ C(L) = e
    BY <1>3, <1>4, <1>5, <1>7, <2>1, <2>2, <2>3
  <2> QED BY <2>4 DEF C
<1>8. CASE z # n
  <2> DEFINE p == z + 1
  <2>1. p \in 1 .. L /\ n \in p .. L /\ p - 1 = z /\ n \in 1 .. L
    BY <1>0, <1>5, <1>8
  <2> HIDE DEF p
  <2>2. Run(B, SubSeq(m, p, n), m[p].at - 1, EndOf(B, m[n]))
    BY <2>1, RunPart
  <2>3. m[p].at = C(z) + 1 /\ C(n) = EndOf(B, m[n])
    BY <1>6, <2>1
  <2>4. m[p].at - 1 = C(z)
    BY <1>3, <1>5, <2>3
  <2>5. C(z) <= C(n)
    <3>1. p = n \/ m[p].at < m[n].at
      <4>1. p # n => p \in 1 .. n - 1
        BY <1>0, <2>1
      <4> QED BY <1>1, <2>1, <4>1 DEF Rises
    <3>2. m[p].at \in Nat /\ m[n].at \in Nat /\ m[n].at <= EndOf(B, m[n]) /\ EndOf(B, m[n]) \in Nat
      BY <1>2, <2>1
    <3> HIDE DEF C
    <3> QED BY <1>3, <1>5, <2>3, <3>1, <3>2
  <2>6. Run(B, SubSeq(m, p, n), C(z), C(n))
    BY <2>2, <2>3, <2>4
  <2> HIDE DEF C
  <2>7. C(z) \in b .. C(n) /\ C(n) \in b .. e /\ C(L) = e
    BY <1>0, <1>3, <1>4, <1>5, <2>5
  <2> QED BY <2>6, <2>7 DEF C, p
<1> QED BY <1>7, <1>8

(***************************************************************************)
(* Where the ends of line are in a chunk.                                  *)
(***************************************************************************)
LEMMA EolIs ==
  ASSUME NEW T, NEW s \in Seq(T), HasEol(s)
  PROVE  /\ LastEol(s) \in 1 .. Len(s) /\ IsEol(s[LastEol(s)])
         /\ AfterEol(s) = SubSeq(s, LastEol(s) + 1, Len(s))
         /\ \E z \in 0 .. LastEol(s) - 1 :
              BeforeEol(s) = SubSeq(s, 1, z) /\ \A k \in z + 1 .. LastEol(s) : IsEol(s[k])
<1> DEFINE N == Len(s)
           S == {n \in 1 .. N : IsEol(s[n])}
           x == Max(S)
           n == LastEol(s)
<1>0. N \in Nat /\ S \subseteq 0 .. N /\ S # {}
  BY DEF HasEol
<1>1. x \in S /\ \A k \in S : k <= x
  <2> HIDE DEF S, N
  <2> QED BY <1>0, MaxIs
<1>2. x \in 1 .. N /\ IsEol(s[x]) /\ \A i \in x + 1 .. N : ~IsEol(s[i])
  <2> HIDE DEF x
  <2>1. x \in 1 .. N /\ IsEol(s[x])
    BY <1>1
  <2>2. ASSUME NEW i \in x + 1 .. N PROVE ~IsEol(s[i])
    <3>1. i \in 1 .. N /\ ~(i <= x)
      BY <1>0, <2>1
    <3> QED BY <1>1, <3>1
  <2> QED BY <2>1, <2>2
<1>3. n \in 1 .. N /\ IsEol(s[n])
  BY <1>2 DEF LastEol
<1> HIDE DEF n
<1>4. AfterEol(s) = SubSeq(s, n + 1, Len(s))
  BY DEF AfterEol, n
<1> DEFINE two == n > 1 /\ IsEol(s[n - 1]) /\ s[n - 1].c # s[n].c
           z == IF two THEN n - 2 ELSE n - 1
<1>5. BeforeEol(s) = SubSeq(s, 1, z)
  BY DEF BeforeEol, n
<1>6. z \in 0 .. n - 1 /\ \A k \in z + 1 .. n : IsEol(s[k])
  <2>1. CASE two
    <3>1. z = n - 2 /\ n > 1 /\ IsEol(s[n - 1])
      BY <2>1
    <3>2. \A k \in z + 1 .. n : k = n \/ k = n - 1
      BY <1>3, <3>1
    <3> HIDE DEF two, z
    <3> QED BY <1>3, <3>1, <3>2
  <2>2. CASE ~two
    <3>1. z = n - 1
      BY <2>2
    <3>2. \A k \in z + 1 .. n : k = n
      BY <1>3, <3>1
    <3> HIDE DEF two, z
    <3> QED BY <1>3, <3>1, <3>2
  <2> QED BY <2>1, <2>2
<1> HIDE DEF z
<1> QED BY <1>3, <1>4, <1>5, <1>6 DEF n

(***************************************************************************)
(* Lines that begin and end where they may.                                *)
(***************************************************************************)
BorderIn(B, S, i) ==
  \/ i \in S \/ B[i].c \in {"lf", "cr", "bom"} \/ i = Len(B)
  \/ i + 1 <= Len(B) /\ B[i + 1].c \in {"lf", "cr"}

GoodLines(B, S) ==
  {l \in Seq(Piece) :
     /\ l # <<>> /\ BorderIn(B, S, l[1].at - 1) /\ BorderIn(B, S, EndOf(B, l[Len(l)]))
     /\ IsCharOf(B, l[Len(l)])
     /\ \A n \in 1 .. Len(l) : l[n].c # "lf"}

\* A run of the characters of a file has no zero.
LEMMA RunNoNul ==
  ASSUME NEW B, NEW enc, IsLayout(B, enc), NEW m, NEW b, NEW e, Run(B, m, b, e)
  PROVE  NoNul(m)
<1> SUFFICES ASSUME NEW n \in 1 .. Len(m) PROVE m[n].c # "nul"
  BY DEF NoNul
<1>1. IsCharOf(B, m[n])
  BY DEF Run, Within
<1>2. m[n].at \in 1 .. Len(B) /\ m[n].c = B[m[n].at].c
  BY <1>1 DEF IsCharOf, Char
<1>3. B[m[n].at].c \in Written
  BY <1>2 DEF IsLayout, WholeAt, Byte
<1> QED BY <1>2, <1>3 DEF Written

LEMMA WriteGood ==
  ASSUME NEW B, NEW enc, IsLayout(B, enc), NEW m, NEW b, NEW e, Run(B, m, b, e),
         NEW S, BorderIn(B, S, b), BorderIn(B, S, e)
  PROVE  WriteToConsole(m) \in Seq(GoodLines(B, S))
<1> DEFINE G == GoodLines(B, S)
           L == Len(m)
<1>0. m \in Seq(Piece) /\ L \in Nat /\ b \in Nat /\ e \in Nat
  BY DEF Run
<1>1. Within(B, m, b, e) /\ Adjoins(B, m)
  BY DEF Run
<1>2. ASSUME NEW n \in 1 .. L + 1, NEW q \in LineStart(m, n) .. n - 1, PrintedAt(m, n, q)
      PROVE  BeforeNul(SubSeq(m, LineStart(m, n), q)) \in G
  <2> DEFINE p == LineStart(m, n)
             l == SubSeq(m, p, q)
  <2>1. p \in 1 .. n /\ p \in 1 .. L /\ q \in p .. L /\ l \in Seq(Piece) /\ p \in 1 .. Len(m) + 1 /\ q \in p - 1 .. Len(m)
    BY <1>0, WriteParts
  <2>2. (p # 1 => m[p - 1].c = "lf") /\ \A k \in p .. n - 1 : m[k].c # "lf"
    BY <1>0, LineStartIs
  <2>3. (n <= L => m[n].c = "lf") /\ (q # n - 1 => q = n - 2 /\ m[n - 1].c = "cr")
    BY <1>2 DEF PrintedAt
  <2>4. q \in p .. n - 1
    OBVIOUS
  <2> HIDE DEF p, L
  <2>5. Len(l) = (q + 1) - p /\ \A i \in 1 .. (q + 1) - p : l[i] = m[(p - 1) + i]
    BY <1>0, <2>1, PartOf
  <2> HIDE DEF l
  <2>6. l # <<>> /\ l[1] = m[p] /\ l[Len(l)] = m[q]
    <3>1. 1 \in 1 .. (q + 1) - p /\ (p - 1) + 1 = p /\ Len(l) \in 1 .. (q + 1) - p /\ (p - 1) + Len(l) = q
      BY <1>0, <2>1, <2>5
    <3>2. l # <<>>
      BY <2>5, <3>1
    <3> QED BY <2>5, <3>1, <3>2
  <2>7. \A k \in 1 .. L : IsCharOf(B, m[k])
    BY <1>1 DEF Within, L
  <2>8. BorderIn(B, S, m[p].at - 1)
    <3>1. CASE p = 1
      <4>1. m # <<>>
        BY <1>0, <2>1 DEF L
      <4>2. m[p].at = b + 1
        BY <3>1, <4>1 DEF Run
      <4>3. m[p].at - 1 = b
        BY <1>0, <4>2
      <4> QED BY <4>3
    <3>2. CASE p # 1
      <4> DEFINE k == p - 1
      <4>1. k \in 1 .. L - 1 /\ k + 1 = p /\ k \in 1 .. L
        BY <1>0, <2>1, <3>2
      <4>2. m[k].c = "lf"
        BY <2>2, <3>2
      <4> HIDE DEF k
      <4>3. m[k + 1].at = EndOf(B, m[k]) + 1
        BY <1>1, <4>1 DEF Adjoins, L
      <4>4. IsCharOf(B, m[k])
        BY <2>7, <4>1
      <4>5. EndOf(B, m[k]) = After(B, m[k].at) /\ EndOf(B, m[k]) \in m[k].at .. Len(B) /\ m[k].at \in 1 .. Len(B)
            /\ m[k].c = B[m[k].at].c
        BY <4>4, RunEnd DEF IsCharOf, Char
      <4>6. B[After(B, m[k].at)].c = "lf"
        BY <4>2, <4>5, CharEnds
      <4>7. m[p].at - 1 = EndOf(B, m[k])
        BY <4>1, <4>3, <4>5
      <4>8. B[m[p].at - 1].c = "lf"
        BY <4>5, <4>6, <4>7
      <4> QED BY <4>8 DEF BorderIn
    <3> QED BY <3>1, <3>2
  <2>9. BorderIn(B, S, EndOf(B, m[q]))
    <3>1. CASE q = L
      <4>1. m # <<>>
        BY <1>0, <2>1 DEF L
      <4>2. EndOf(B, m[q]) = e
        BY <3>1, <4>1 DEF Run, L
      <4> QED BY <4>2
    <3>2. CASE q # L
      <4> DEFINE k == q + 1
      <4>1. q \in 1 .. L - 1 /\ k \in 1 .. L /\ k = q + 1
        BY <1>0, <2>1, <3>2
      <4>2. m[k].c \in {"lf", "cr"}
        <5>1. CASE q = n - 1
          <6>1. k = n /\ n <= L
            BY <1>0, <4>1, <5>1
          <6> QED BY <2>3, <6>1
        <5>2. CASE q # n - 1
          <6>1. k = n - 1
            BY <2>3, <5>2
          <6> QED BY <2>3, <5>2, <6>1
        <5> QED BY <5>1, <5>2
      <4>3. m[q + 1].at = EndOf(B, m[q]) + 1
        BY <1>1, <4>1 DEF Adjoins, L
      <4> HIDE DEF k
      <4>4. IsCharOf(B, m[k]) /\ IsCharOf(B, m[q])
        <5>1. q \in 1 .. L
          BY <1>0, <4>1
        <5> QED BY <2>7, <4>1, <5>1
      <4>5. m[k].at \in 1 .. Len(B) /\ m[k].c = B[m[k].at].c
        BY <4>4 DEF IsCharOf, Char
      <4>6. m[k].at = EndOf(B, m[q]) + 1
        BY <4>1, <4>3
      <4>7. EndOf(B, m[q]) + 1 <= Len(B) /\ B[EndOf(B, m[q]) + 1].c \in {"lf", "cr"}
        BY <4>2, <4>5, <4>6
      <4> QED BY <4>7 DEF BorderIn
    <3> QED BY <3>1, <3>2
  <2>10. \A i \in 1 .. Len(l) : l[i].c # "lf"
    <3> SUFFICES ASSUME NEW i \in 1 .. Len(l) PROVE l[i].c # "lf"
      OBVIOUS
    <3> DEFINE k == (p - 1) + i
    <3>1. k \in p .. n - 1 /\ l[i] = m[k]
      BY <1>0, <2>1, <2>4, <2>5
    <3> HIDE DEF k
    <3> QED BY <2>2, <3>1
  <2>11. IsCharOf(B, m[q])
    <3>1. q \in 1 .. L
      BY <1>0, <2>1
    <3> QED BY <2>7, <3>1
  <2>12. l \in G
    BY <2>1, <2>6, <2>8, <2>9, <2>10, <2>11 DEF GoodLines
  <2>13. BeforeNul(SubSeq(m, LineStart(m, n), q)) = SubSeq(m, LineStart(m, n), q)
    <3>1. NoNul(m)
      BY RunNoNul
    <3>2. n \in 1 .. Len(m) + 1 /\ q \in LineStart(m, n) .. n - 1 /\ m \in Seq(Piece)
      BY <1>0 DEF L
    <3> QED BY <3>1, <3>2, LineWhole
  <2> QED BY <2>12, <2>13 DEF l, p
<1> HIDE DEF G
<1>3. WriteToConsole(m) \in Seq(G)
  BY <1>0, <1>2, WriteTyped
<1> QED BY <1>3 DEF G

(***************************************************************************)
(* What the lines printed tell of the file, from st to the place b: they   *)
(* are in order, nothing of the text is missing, and each begins and ends  *)
(* at one of the places S, or at an end of line.                           *)
(***************************************************************************)
Told(B, S, st, pr, b) ==
  /\ st \in Nat /\ b \in Nat /\ st <= b /\ BorderIn(B, S, b)
  /\ pr \in Seq(GoodLines(B, S)) /\ Rises(FlattenSeq(pr))
  /\ \A x \in 1 .. Len(FlattenSeq(pr)) : FlattenSeq(pr)[x].at <= b
  /\ \A i \in st + 1 .. b :
       B[i].k = 1 /\ B[i].c \in {"text", "wide"} => Has(FlattenSeq(pr), Char(B[i].c, i))

\* No text begins behind the place b, up to e.
NoText(B, b, e) == \A i \in b + 1 .. e : B[i].k = 1 => B[i].c \notin {"text", "wide"}

LEMMA GoodSeq ==
  ASSUME NEW B, NEW S, NEW pr \in Seq(GoodLines(B, S))
  PROVE  pr \in Seq(Seq(Piece)) /\ FlattenSeq(pr) \in Seq(Piece)
<1>1. GoodLines(B, S) \subseteq Seq(Piece)
  BY DEF GoodLines
<1>2. pr \in Seq(Seq(Piece))
  BY <1>1
<1> QED BY <1>2, FlatIs

LEMMA PieceAt ==
  ASSUME NEW m \in Seq(Piece), NEW i \in 1 .. Len(m)
  PROVE  m[i].at \in Nat
<1>1. m[i] \in Piece
  OBVIOUS
<1> QED BY <1>1 DEF Piece

LEMMA ToldMore ==
  ASSUME NEW B, NEW S, NEW R, S \subseteq R, NEW st, NEW pr, NEW b, Told(B, S, st, pr, b)
  PROVE  Told(B, R, st, pr, b)
<1>1. \A i : BorderIn(B, S, i) => BorderIn(B, R, i)
  BY DEF BorderIn
<1>2. GoodLines(B, S) \subseteq GoodLines(B, R)
  BY <1>1 DEF GoodLines
<1>3. pr \in Seq(GoodLines(B, S)) => pr \in Seq(GoodLines(B, R))
  BY <1>2
<1> QED BY <1>1, <1>3 DEF Told

\* Nothing has to be printed for what is not text.
LEMMA ToldOn ==
  ASSUME NEW B, NEW S, NEW st, NEW pr, NEW b, Told(B, S, st, pr, b),
         NEW e \in Nat, b <= e, BorderIn(B, S, e), NoText(B, b, e)
  PROVE  Told(B, S, st, pr, e)
<1> DEFINE out == FlattenSeq(pr)
<1>0. st \in Nat /\ b \in Nat /\ st <= b /\ st <= e
  BY DEF Told
<1>1. out \in Seq(Piece)
  BY GoodSeq DEF Told
<1> HIDE DEF out
<1>2. \A x \in 1 .. Len(out) : out[x].at <= e
  <2> SUFFICES ASSUME NEW x \in 1 .. Len(out) PROVE out[x].at <= e
    OBVIOUS
  <2>1. out[x].at \in Nat
    BY <1>1, PieceAt
  <2>2. out[x].at <= b
    BY DEF Told, out
  <2> QED BY <1>0, <2>1, <2>2
<1>3. ASSUME NEW i \in st + 1 .. e, B[i].k = 1, B[i].c \in {"text", "wide"}
      PROVE  Has(out, Char(B[i].c, i))
  <2>1. ~(i \in b + 1 .. e)
    BY <1>3 DEF NoText
  <2>2. i \in st + 1 .. b
    BY <1>0, <2>1
  <2> QED BY <1>3, <2>2 DEF Told, out
<1> QED BY <1>0, <1>2, <1>3 DEF Told, out

LEMMA HasConcat ==
  ASSUME NEW T, NEW x \in Seq(T), NEW y \in Seq(T), NEW d, Has(x, d) \/ Has(y, d)
  PROVE  Has(x \o y, d)
<1> DEFINE z == x \o y
<1>1. /\ Len(z) = Len(x) + Len(y) /\ Len(x) \in Nat /\ Len(y) \in Nat
      /\ \A i \in 1 .. Len(x) : z[i] = x[i]
      /\ \A i \in Len(x) + 1 .. Len(x) + Len(y) : z[i] = y[i - Len(x)]
  BY Concat
<1> HIDE DEF z
<1>2. CASE Has(x, d)
  <2>1. PICK i \in 1 .. Len(x) : x[i] = d
    BY <1>2 DEF Has
  <2>2. i \in 1 .. Len(z) /\ z[i] = d
    BY <1>1, <2>1
  <2> QED BY <2>2 DEF Has, z
<1>3. CASE Has(y, d)
  <2>1. PICK i \in 1 .. Len(y) : y[i] = d
    BY <1>3 DEF Has
  <2> DEFINE j == Len(x) + i
  <2>2. j \in Len(x) + 1 .. Len(x) + Len(y) /\ j - Len(x) = i /\ j \in 1 .. Len(z)
    BY <1>1, <2>1
  <2> HIDE DEF j
  <2>3. z[j] = d
    BY <1>1, <2>1, <2>2
  <2> QED BY <2>2, <2>3 DEF Has, z
<1> QED BY <1>2, <1>3

\* A run is printed behind the lines that end where it begins.
LEMMA ToldNext ==
  ASSUME NEW B, NEW enc, IsLayout(B, enc), NEW S, NEW st, NEW pr, NEW b, Told(B, S, st, pr, b),
         NEW m, NEW e, Run(B, m, b, e), b <= e, BorderIn(B, S, e)
  PROVE  Told(B, S, st, pr \o WriteToConsole(m), e)
<1> DEFINE W == WriteToConsole(m)
           x == FlattenSeq(pr)
           y == FlattenSeq(W)
<1>0. st \in Nat /\ b \in Nat /\ e \in Nat /\ st <= b /\ st <= e /\ m \in Seq(Piece)
  BY DEF Told, Run
<1>1. pr \in Seq(GoodLines(B, S)) /\ pr \in Seq(Seq(Piece)) /\ x \in Seq(Piece)
  BY GoodSeq DEF Told
<1>2. W \in Seq(GoodLines(B, S))
  BY WriteGood DEF Told
<1>3. W \in Seq(Seq(Piece)) /\ y \in Seq(Piece)
  BY <1>2, GoodSeq
<1>4. FlattenSeq(pr \o W) = x \o y
  BY <1>1, <1>3, FlatConcat
<1>5. pr \o W \in Seq(GoodLines(B, S))
  BY <1>1, <1>2
<1>6. Rises(m) /\ Within(B, m, b, e)
  BY DEF Run
<1>7. Rises(y) /\ \A i \in 1 .. Len(y) : \E k \in 1 .. Len(m) : y[i] = m[k]
  BY <1>0, <1>6, RunNoNul, WriteRises
<1>8. Rises(x) /\ \A i \in 1 .. Len(x) : x[i].at <= b
  BY DEF Told
<1>9. \A d : IsCharOf(B, d) => EndOf(B, d) \in d.at .. Len(B) /\ d.at \in Nat
  BY RunEnd DEF IsCharOf
<1>10. \A k \in 1 .. Len(m) : m[k].at > b /\ m[k].at <= e /\ m[k].at \in Nat
  <2> SUFFICES ASSUME NEW k \in 1 .. Len(m)
               PROVE  m[k].at > b /\ m[k].at <= e /\ m[k].at \in Nat
    OBVIOUS
  <2>1. IsCharOf(B, m[k]) /\ m[k].at > b /\ EndOf(B, m[k]) <= e
    BY <1>6 DEF Within
  <2>2. EndOf(B, m[k]) \in m[k].at .. Len(B) /\ m[k].at \in Nat
    BY <1>9, <2>1
  <2> QED BY <1>0, <2>1, <2>2
<1>11. ASSUME NEW i \in st + 1 .. e, B[i].k = 1, B[i].c \in {"text", "wide"}
       PROVE  Has(x, Char(B[i].c, i)) \/ Has(y, Char(B[i].c, i))
  <2>1. CASE i \in st + 1 .. b
    BY <1>11, <2>1 DEF Told
  <2>2. CASE i \in b + 1 .. e
    <3>1. PICK n \in 1 .. Len(m) : m[n] = Char(B[i].c, i)
      BY <1>11, <2>2, RunComplete
    <3>2. m[n].c \notin {"lf", "cr"}
      BY <1>11, <3>1 DEF Char
    <3>3. Has(y, m[n])
      BY <1>0, <3>2, RunNoNul, WriteHas DEF Has
    <3> QED BY <3>1, <3>3
  <2> QED BY <1>0, <2>1, <2>2
<1> HIDE DEF W, x, y
<1>12. \A i \in 1 .. Len(x) : x[i].at \in Nat
  BY <1>1, PieceAt
<1>13. \A j \in 1 .. Len(y) : y[j].at > b /\ y[j].at <= e /\ y[j].at \in Nat
  BY <1>7, <1>10
<1>14. Rises(x \o y)
  <2>1. \A i \in 1 .. Len(x) : \A j \in 1 .. Len(y) : x[i].at < y[j].at
    BY <1>0, <1>8, <1>12, <1>13
  <2> QED BY <1>1, <1>3, <1>7, <1>8, <2>1, RisesConcat
<1>15. \A i \in 1 .. Len(x \o y) : (x \o y)[i].at <= e
  <2> DEFINE z == x \o y
  <2>1. /\ Len(z) = Len(x) + Len(y) /\ Len(x) \in Nat /\ Len(y) \in Nat
        /\ \A i \in 1 .. Len(x) : z[i] = x[i]
        /\ \A i \in Len(x) + 1 .. Len(x) + Len(y) : z[i] = y[i - Len(x)]
    BY <1>1, <1>3, Concat
  <2> HIDE DEF z
  <2>2. ASSUME NEW i \in 1 .. Len(z) PROVE z[i].at <= e
    <3>1. CASE i \in 1 .. Len(x)
      <4>1. x[i].at <= b /\ x[i].at \in Nat
        BY <1>8, <1>12, <3>1
      <4>2. z[i] = x[i]
        BY <2>1, <3>1
      <4> QED BY <1>0, <4>1, <4>2
    <3>2. CASE i \in Len(x) + 1 .. Len(x) + Len(y)
      <4> DEFINE j == i - Len(x)
      <4>1. j \in 1 .. Len(y) /\ z[i] = y[j]
        BY <2>1, <3>2
      <4> HIDE DEF j
      <4> QED BY <1>13, <4>1
    <3> QED BY <2>1, <3>1, <3>2
  <2> QED BY <2>2 DEF z
<1>16. \A i \in st + 1 .. e :
         B[i].k = 1 /\ B[i].c \in {"text", "wide"} => Has(x \o y, Char(B[i].c, i))
  BY <1>1, <1>3, <1>11, HasConcat
<1>17. Told(B, S, st, pr \o W, e)
  BY <1>0, <1>4, <1>5, <1>14, <1>15, <1>16 DEF Told
<1> QED BY <1>17 DEF W

LEMMA RunBorder ==
  ASSUME NEW B, NEW enc, IsLayout(B, enc), NEW d, IsCharOf(B, d), d.c \in {"lf", "cr"}, NEW S
  PROVE  BorderIn(B, S, EndOf(B, d)) /\ BorderIn(B, S, d.at - 1)
<1>1. d.at \in 1 .. Len(B) /\ d.c = B[d.at].c /\ Len(B) \in Nat
  BY DEF IsCharOf, Char, IsLayout
<1>2. EndOf(B, d) = After(B, d.at)
  BY RunEnd
<1>3. B[EndOf(B, d)].c = B[d.at].c
  BY <1>1, <1>2, CharEnds
<1>4. (d.at - 1) + 1 = d.at /\ d.at <= Len(B)
  BY <1>1
<1> QED BY <1>1, <1>3, <1>4 DEF BorderIn

(***************************************************************************)
(* A chunk with an end of line is printed up to it, but for the ends of    *)
(* line that are dropped there.                                            *)
(***************************************************************************)
LEMMA ToldChunk ==
  ASSUME NEW B, NEW enc, IsLayout(B, enc), NEW S, NEW st, NEW pr, NEW b, Told(B, S, st, pr, b),
         NEW l, NEW o, Run(B, l, b, o), b <= o,
         NEW s, NEW e, Run(B, s, o, e), o <= e, HasEol(s)
  PROVE  \E c \in st .. e :
           Told(B, S, st, pr \o WriteToConsole(l \o BeforeEol(s)), c) /\ Run(B, AfterEol(s), c, e)
<1> DEFINE L == Len(s)
           n == LastEol(s)
           C(i) == CutAt(B, s, o, i)
<1>0. s \in Seq(Piece) /\ L \in Nat /\ o \in Nat /\ e \in Nat /\ b \in Nat /\ st \in Nat /\ st <= b
  BY DEF Run, Told
<1>1. n \in 1 .. L /\ IsEol(s[n]) /\ AfterEol(s) = SubSeq(s, n + 1, L)
  BY <1>0, EolIs
<1>2. PICK z \in 0 .. n - 1 : BeforeEol(s) = SubSeq(s, 1, z) /\ \A k \in z + 1 .. n : IsEol(s[k])
  BY <1>0, EolIs
<1> HIDE DEF n
<1> DEFINE p == z + 1
<1>3. p \in 1 .. n /\ p \in 1 .. L /\ z \in 0 .. L /\ n \in 0 .. L /\ n \in z .. L /\ z \in 0 .. z /\ p = z + 1
      /\ z \in z .. L /\ 0 \in 0 .. L /\ z \in 0 .. L /\ L \in n .. L /\ n # 0
  BY <1>0, <1>1, <1>2
<1> HIDE DEF p
<1>4. /\ Run(B, SubSeq(s, 0 + 1, z), C(0), C(z)) /\ C(0) = o /\ 0 + 1 = 1
      /\ C(z) \in o .. e
  BY <1>3, RunSlice DEF CutAt
<1>5. /\ Run(B, SubSeq(s, z + 1, n), C(z), C(n)) /\ C(z) \in o .. C(n) /\ C(n) \in o .. e
  BY <1>3, RunSlice
<1>6. /\ Run(B, SubSeq(s, n + 1, L), C(n), C(L)) /\ C(L) = e
  BY <1>3, RunSlice
<1>7. Run(B, AfterEol(s), C(n), e)
  BY <1>1, <1>6
<1>8. \A k \in 1 .. L : IsCharOf(B, s[k])
  BY DEF Run, Within
<1>9. C(n) = EndOf(B, s[n]) /\ IsCharOf(B, s[n]) /\ s[n].c \in {"lf", "cr"}
  BY <1>1, <1>3, <1>8 DEF CutAt, IsEol
<1>10. BorderIn(B, S, C(n))
  BY <1>9, RunBorder
<1>11. IsCharOf(B, s[p]) /\ s[p].c \in {"lf", "cr"} /\ s[p].at = C(z) + 1
  <2>1. IsCharOf(B, s[p]) /\ s[p].c \in {"lf", "cr"}
    BY <1>2, <1>3, <1>8 DEF IsEol
  <2> DEFINE t == SubSeq(s, p, n)
  <2>2. p \in 1 .. Len(s) + 1 /\ n \in p - 1 .. Len(s) /\ 1 \in 1 .. (n + 1) - p /\ (p - 1) + 1 = p
    BY <1>0, <1>3
  <2>3. t \in Seq(Piece) /\ Len(t) = (n + 1) - p /\ \A i \in 1 .. (n + 1) - p : t[i] = s[(p - 1) + i]
    BY <1>0, <2>2, PartOf
  <2> HIDE DEF t
  <2>4. t[1] = s[p] /\ t # <<>>
    BY <2>2, <2>3
  <2>5. Run(B, t, C(z), C(n))
    BY <1>3, <1>5 DEF t
  <2> HIDE DEF C
  <2>6. t[1].at = C(z) + 1
    BY <2>4, <2>5 DEF Run
  <2> QED BY <2>1, <2>4, <2>6
<1>12. BorderIn(B, S, C(z))
  <2>1. BorderIn(B, S, s[p].at - 1)
    BY <1>11, RunBorder
  <2>2. C(z) \in Nat
    BY <1>0, <1>4
  <2> HIDE DEF C
  <2>3. s[p].at - 1 = C(z)
    BY <1>11, <2>2
  <2> QED BY <2>1, <2>3
<1> DEFINE x == C(z)
           y == C(n)
           m == l \o BeforeEol(s)
<1>13. Run(B, m, b, x)
  <2>1. Run(B, BeforeEol(s), o, x)
    BY <1>2, <1>4
  <2>2. o <= x
    BY <1>0, <1>4
  <2> HIDE DEF x
  <2> QED BY <2>1, <2>2, RunConcat
<1>14. Run(B, SubSeq(s, p, n), x, y) /\ x \in o .. y /\ y \in o .. e /\ x \in Nat /\ y \in Nat
  BY <1>0, <1>3, <1>4, <1>5
<1>15. BorderIn(B, S, x) /\ BorderIn(B, S, y) /\ Run(B, AfterEol(s), y, e)
  BY <1>7, <1>10, <1>12
<1> HIDE DEF C, x, y, m
<1>16. Told(B, S, st, pr \o WriteToConsole(m), x)
  <2>1. b <= x
    BY <1>0, <1>14
  <2> QED BY <1>13, <1>15, <2>1, ToldNext
<1>17. NoText(B, x, y)
  <2> SUFFICES ASSUME NEW i \in x + 1 .. y, B[i].k = 1 PROVE B[i].c \notin {"text", "wide"}
    BY DEF NoText
  <2> DEFINE t == SubSeq(s, p, n)
  <2>1. p \in 1 .. Len(s) + 1 /\ n \in p - 1 .. Len(s)
    BY <1>0, <1>3
  <2>2. t \in Seq(Piece) /\ Len(t) = (n + 1) - p /\ \A j \in 1 .. (n + 1) - p : t[j] = s[(p - 1) + j]
    BY <1>0, <2>1, PartOf
  <2>3. Run(B, t, x, y)
    BY <1>14
  <2> HIDE DEF t
  <2>4. PICK j \in 1 .. Len(t) : t[j] = Char(B[i].c, i)
    BY <2>3, RunComplete
  <2> DEFINE k == (p - 1) + j
  <2>5. k \in z + 1 .. n /\ t[j] = s[k]
    BY <1>3, <2>1, <2>2
  <2> HIDE DEF k
  <2>6. s[k].c \in {"lf", "cr"}
    BY <1>2, <2>5 DEF IsEol
  <2> QED BY <2>4, <2>5, <2>6 DEF Char
<1>18. Told(B, S, st, pr \o WriteToConsole(m), y)
  <2>1. x <= y
    BY <1>14
  <2> QED BY <1>14, <1>15, <1>16, <1>17, <2>1, ToldOn
<1>19. y \in st .. e
  BY <1>0, <1>14
<1> QED BY <1>15, <1>18, <1>19 DEF m

LEMMA RunNothing ==
  ASSUME NEW B, NEW enc, IsLayout(B, enc), NEW m, NEW b, Run(B, m, b, b)
  PROVE  m = <<>>
<1> SUFFICES ASSUME m # <<>> PROVE FALSE
  OBVIOUS
<1>1. m \in Seq(Piece) /\ b \in Nat
  BY DEF Run
<1>2. 1 \in 1 .. Len(m)
  BY <1>1
<1>3. IsCharOf(B, m[1]) /\ m[1].at > b /\ EndOf(B, m[1]) <= b
  BY <1>2 DEF Run, Within
<1>4. EndOf(B, m[1]) \in m[1].at .. Len(B) /\ m[1].at \in Nat
  BY <1>3, RunEnd DEF IsCharOf
<1> QED BY <1>1, <1>3, <1>4

(***************************************************************************)
(* Whether what has been read is readable.                                 *)
(***************************************************************************)
LEMMA PlainConcat ==
  ASSUME NEW T, NEW x \in Seq(T), NEW y \in Seq(T)
  PROVE  Plain(x \o y) <=> Plain(x) /\ Plain(y)
<1> DEFINE z == x \o y
<1>1. /\ Len(z) = Len(x) + Len(y) /\ Len(x) \in Nat /\ Len(y) \in Nat
      /\ \A i \in 1 .. Len(x) : z[i] = x[i]
      /\ \A i \in Len(x) + 1 .. Len(x) + Len(y) : z[i] = y[i - Len(x)]
  BY Concat
<1> HIDE DEF z
<1>2. ASSUME Plain(z) PROVE Plain(x)
  <2>1. \A i \in 1 .. Len(x) : i \in 1 .. Len(z)
    BY <1>1
  <2> QED BY <1>1, <1>2, <2>1 DEF Plain
<1>3. ASSUME Plain(z) PROVE Plain(y)
  <2> SUFFICES ASSUME NEW i \in 1 .. Len(y) PROVE y[i].c \notin {"?", "nul"}
    BY DEF Plain
  <2> DEFINE j == Len(x) + i
  <2>1. j \in Len(x) + 1 .. Len(x) + Len(y) /\ j - Len(x) = i /\ j \in 1 .. Len(z)
    BY <1>1
  <2> HIDE DEF j
  <2>2. z[j] = y[i]
    BY <1>1, <2>1
  <2> QED BY <1>3, <2>1, <2>2 DEF Plain
<1>4. ASSUME Plain(x), Plain(y) PROVE Plain(z)
  <2> SUFFICES ASSUME NEW i \in 1 .. Len(z) PROVE z[i].c \notin {"?", "nul"}
    BY DEF Plain
  <2>1. CASE i \in 1 .. Len(x)
    BY <1>1, <1>4, <2>1 DEF Plain
  <2>2. CASE i \in Len(x) + 1 .. Len(x) + Len(y)
    <3> DEFINE j == i - Len(x)
    <3>1. j \in 1 .. Len(y) /\ z[i] = y[j]
      BY <1>1, <2>2
    <3> HIDE DEF j
    <3> QED BY <1>4, <3>1 DEF Plain
  <2> QED BY <1>1, <2>1, <2>2
<1> QED BY <1>2, <1>3, <1>4 DEF z

\* What is printed has all the characters that are unreadable.
LEMMA PlainWrite ==
  ASSUME NEW T, NEW m \in Seq(T), NoNul(m), Plain(FlattenSeq(WriteToConsole(m)))
  PROVE  Plain(m)
<1> DEFINE y == FlattenSeq(WriteToConsole(m))
<1> SUFFICES ASSUME NEW k \in 1 .. Len(m), m[k].c = "?" PROVE FALSE
  BY DEF Plain, NoNul
<1>1. m[k].c \notin {"lf", "cr"}
  OBVIOUS
<1>2. \E x \in 1 .. Len(y) : y[x] = m[k]
  BY <1>1, WriteHas
<1> HIDE DEF y
<1>3. PICK x \in 1 .. Len(y) : y[x] = m[k]
  BY <1>2
<1>4. Plain(y)
  BY DEF y
<1> QED BY <1>3, <1>4 DEF Plain

\* The parts of a chunk that has an end of line.
LEMMA ChunkParts ==
  ASSUME NEW T, NEW s \in Seq(T), HasEol(s)
  PROVE  /\ BeforeEol(s) \in Seq(T) /\ AfterEol(s) \in Seq(T)
         /\ Plain(BeforeEol(s)) /\ Plain(AfterEol(s)) => Plain(s)
<1> DEFINE n == LastEol(s)
           L == Len(s)
           u == BeforeEol(s)
           v == AfterEol(s)
<1>1. n \in 1 .. L /\ v = SubSeq(s, n + 1, L) /\ L \in Nat
  BY EolIs
<1>2. PICK z \in 0 .. n - 1 : u = SubSeq(s, 1, z) /\ \A k \in z + 1 .. n : IsEol(s[k])
  BY EolIs
<1> HIDE DEF n
<1> DEFINE p == n + 1
<1>3. p \in 1 .. L + 1 /\ L \in p - 1 .. L /\ p = n + 1 /\ 1 \in 1 .. L + 1 /\ z \in 1 - 1 .. L /\ (z + 1) - 1 = z
  BY <1>1, <1>2
<1> HIDE DEF p
<1>4. u \in Seq(T) /\ Len(u) = (z + 1) - 1 /\ \A i \in 1 .. (z + 1) - 1 : u[i] = s[(1 - 1) + i]
  BY <1>2, <1>3, PartOf
<1>5. v \in Seq(T) /\ Len(v) = (L + 1) - p /\ \A i \in 1 .. (L + 1) - p : v[i] = s[(p - 1) + i]
  BY <1>1, <1>3, PartOf
<1> HIDE DEF u, v
<1>6. ASSUME Plain(u), Plain(v) PROVE Plain(s)
  <2> SUFFICES ASSUME NEW i \in 1 .. L PROVE s[i].c \notin {"?", "nul"}
    BY DEF Plain
  <2>1. CASE i \in 1 .. z
    <3>1. i \in 1 .. Len(u) /\ i \in 1 .. (z + 1) - 1 /\ (1 - 1) + i = i
      BY <1>3, <1>4, <2>1
    <3>2. u[i] = s[i]
      BY <1>4, <3>1
    <3> QED BY <1>6, <3>1, <3>2 DEF Plain
  <2>2. CASE i \in z + 1 .. n
    BY <1>2, <2>2 DEF IsEol
  <2>3. CASE i \in p .. L
    <3> DEFINE j == i - n
    <3>1. j \in 1 .. (L + 1) - p /\ (p - 1) + j = i
      BY <1>1, <1>3, <2>3
    <3> HIDE DEF j
    <3>2. v[j] = s[i] /\ j \in 1 .. Len(v)
      BY <1>5, <3>1
    <3> QED BY <1>6, <3>2 DEF Plain
  <2> QED BY <1>1, <1>2, <1>3, <2>1, <2>2, <2>3
<1> QED BY <1>4, <1>5, <1>6 DEF u, v

LEMMA ReadableIs ==
  ASSUME printed \in Seq(Seq(Piece)), line \in Seq(Piece)
  PROVE  Readable <=> Plain(FlattenSeq(printed)) /\ Plain(line)
<1>1. FlattenSeq(printed) \in Seq(Piece)
  BY FlatIs
<1>2. Readable <=> Plain(FlattenSeq(printed) \o line)
  BY DEF Readable, Output, Plain
<1> QED BY <1>1, <1>2, PlainConcat

(***************************************************************************)
(* The invariant.  What is said of readable text, and of the encoding,     *)
(* holds as long as no chunk has ended inside a character.                 *)
(***************************************************************************)
\* Zeros are read as characters otherwise.
Sound == ~cut /\ ~Mistaken
Clean == ~cut /\ encoding \in {Unknown, file.encoding} /\ file.encoding # "ANSI"
\* A BOM that decides the encoding.
Named ==
  /\ file.chars # <<>> /\ file.chars[1] = "bom" /\ ~bomFailed
  /\ file.encoding \in Multibyte => start # 2

Letters == IF Clean THEN Written ELSE IF Sound THEN Written \cup {"?"} ELSE Letter
Text == PieceIn(Letters, start + 1, size)

TypeInv ==
  /\ file \in Files /\ EndsIn(Bytes, start)
  /\ start \in Nat /\ offset \in start .. size /\ size \in 0 .. Len(Bytes)
  /\ throws \in Nat /\ cut \in BOOLEAN /\ bomFailed \in BOOLEAN

\* The encoding is known when the first content has been read.
EncodingInv ==
  /\ ~cut => EndsIn(Bytes, offset)
  /\ ~cut /\ Named =>
       /\ encoding \in {Unknown, file.encoding}
       /\ encoding = Unknown => offset = start /\ (reader = "read" => (wasBomRead <=> offset >= 3))

TextInv == line \in Seq(Text) /\ printed \in Seq(Seq(Text))

\* The file is printed up to some place, and the line begins there.
OrderInv ==
  /\ reader = "idle" => line = <<>>
  /\ throws = 0 /\ Sound /\ Readable =>
       \E b \in start .. offset :
         Told(Bytes, ends \cup {start}, start, printed, b) /\ Run(Bytes, line, b, offset)

Inv == TypeInv /\ EncodingInv /\ TextInv /\ OrderInv

LEMMA Sizes ==
  ASSUME TypeInv
  PROVE  /\ IsLayout(Bytes, file.encoding) /\ Len(Bytes) \in Nat
         /\ start \in Nat /\ offset \in Nat /\ size \in Nat /\ start <= offset /\ offset <= size
         /\ size <= Len(Bytes)
<1>1. IsLayout(Bytes, file.encoding)
  BY BytesLaid DEF TypeInv
<1>2. Len(Bytes) \in Nat
  BY <1>1 DEF IsLayout
<1> QED BY <1>1, <1>2 DEF TypeInv

LEMMA TextPiece ==
  ASSUME TypeInv, TextInv
  PROVE  /\ Text \subseteq Piece /\ line \in Seq(Piece) /\ printed \in Seq(Seq(Piece))
         /\ Output \in Seq(Text) /\ Output \o line \in Seq(Text)
<1>1. Letters \subseteq Letter /\ start + 1 .. size \subseteq Nat
  <2>1. start + 1 .. size \subseteq Nat
    BY Sizes
  <2> QED BY <2>1 DEF Letters, Letter
<1>2. Text \subseteq Piece
  <2> HIDE DEF Letters
  <2> QED BY <1>1 DEF Text, PieceIn, Piece
<1>3. line \in Seq(Text) /\ printed \in Seq(Seq(Text))
  BY DEF TextInv
<1>4. Output \in Seq(Text)
  BY <1>3, FlatIs DEF Output
<1> HIDE DEF Text
<1>5. Seq(Text) \subseteq Seq(Piece)
  BY <1>2
<1>6. Seq(Seq(Text)) \subseteq Seq(Seq(Piece))
  <2> DEFINE A == Seq(Text)
             C == Seq(Piece)
  <2>1. A \subseteq C
    BY <1>5
  <2> HIDE DEF A, C
  <2>2. Seq(A) \subseteq Seq(C)
    BY <2>1
  <2> QED BY <2>2 DEF A, C
<1>7. Output \o line \in Seq(Text)
  BY <1>3, <1>4
<1> QED BY <1>2, <1>3, <1>4, <1>5, <1>6, <1>7

\* Text of which no line is cut.
NoZeros(T) == \A t \in T : t.c # "nul"

LEMMA SoundText == Sound => NoZeros(Text)
<1> SUFFICES ASSUME Sound PROVE NoZeros(Text)
  OBVIOUS
<1>1. Letters \subseteq Written \cup {"?"}
  BY DEF Letters
<1>2. "nul" \notin Written \cup {"?"}
  BY DEF Written
<1> QED BY <1>1, <1>2 DEF Text, PieceIn, NoZeros

LEMMA NoZerosIn ==
  ASSUME NEW T, NoZeros(T), NEW m \in Seq(T)
  PROVE  NoNul(m)
BY DEF NoZeros, NoNul

LEMMA FileIs ==
  ASSUME TypeInv
  PROVE  /\ file.encoding \in {"ANSI", "UTF8", "UTF16LE", "UTF16BE"} /\ file.encoding # Unknown
         /\ Named => file.encoding # "ANSI"
<1>1. file.encoding \in {"ANSI", "UTF8", "UTF16LE", "UTF16BE"}
  BY LineReaderAssumption DEF TypeInv, Multibyte
<1>2. ASSUME Named, file.encoding = "ANSI" PROVE FALSE
  <2> DEFINE A == Written \ {"bom"}
             cs == file.chars
  <2>1. cs \in Seq(A) /\ cs # <<>> /\ cs[1] = "bom"
    BY <1>2, LineReaderAssumption DEF TypeInv, Named
  <2> HIDE DEF A, cs
  <2>2. cs[1] \in A
    BY <2>1
  <2> QED BY <2>1, <2>2 DEF A
<1> QED BY <1>1, <1>2 DEF Unknown

\* The invariant implies that what is read is garbled only if a chunk ends inside a character.
LEMMA InvGarbled == Inv => GarbledOnlyIfCut
<1> SUFFICES ASSUME Inv PROVE GarbledOnlyIfCut
  OBVIOUS
<1>1. ~cut /\ Named => encoding \in {Unknown, file.encoding}
  BY DEF Inv, EncodingInv
<1>2. ASSUME Clean PROVE Readable
  <2> DEFINE out == Output \o line
  <2>1. out \in Seq(Text)
    BY TextPiece DEF Inv
  <2>2. Text = PieceIn(Written, start + 1, size)
    BY <1>2 DEF Text, Letters
  <2> HIDE DEF out
  <2>3. ASSUME NEW n \in 1 .. Len(out) PROVE out[n].c \notin {"?", "nul"}
    <3>1. out[n] \in PieceIn(Written, start + 1, size)
      BY <2>1, <2>2
    <3>2. out[n].c \in Written
      BY <3>1 DEF PieceIn
    <3> QED BY <3>2 DEF Written
  <2> QED BY <2>3 DEF Readable, out
<1> QED BY <1>1, <1>2 DEF GarbledOnlyIfCut, Clean, Named

\* The lines told and the line that is read are in order.
LEMMA ToldInOrder ==
  ASSUME NEW B, NEW enc, IsLayout(B, enc), NEW S, NEW st, NEW pr, NEW b, Told(B, S, st, pr, b),
         NEW l, NEW o, Run(B, l, b, o), b <= o
  PROVE  /\ Rises(FlattenSeq(pr) \o l)
         /\ \A i \in st + 1 .. o :
              B[i].k = 1 /\ B[i].c \in {"text", "wide"} =>
                Has(FlattenSeq(pr) \o l, Char(B[i].c, i))
<1> DEFINE x == FlattenSeq(pr)
<1>0. st \in Nat /\ b \in Nat /\ o \in Nat /\ st <= b /\ l \in Seq(Piece)
  BY DEF Told, Run
<1>1. x \in Seq(Piece)
  BY GoodSeq DEF Told
<1>2. Rises(x) /\ \A i \in 1 .. Len(x) : x[i].at <= b
  BY DEF Told
<1>3. Rises(l) /\ \A k \in 1 .. Len(l) : l[k].at > b
  BY DEF Run, Within
<1>4. ASSUME NEW i \in st + 1 .. o, B[i].k = 1, B[i].c \in {"text", "wide"}
      PROVE  Has(x, Char(B[i].c, i)) \/ Has(l, Char(B[i].c, i))
  <2>1. CASE i \in st + 1 .. b
    BY <1>4, <2>1 DEF Told
  <2>2. CASE i \in b + 1 .. o
    BY <1>4, <2>2, RunComplete DEF Has
  <2> QED BY <1>0, <2>1, <2>2
<1> HIDE DEF x
<1>5. Rises(x \o l)
  <2>1. \A i \in 1 .. Len(x) : x[i].at \in Nat
    BY <1>1, PieceAt
  <2>2. \A j \in 1 .. Len(l) : l[j].at \in Nat
    BY <1>0, PieceAt
  <2>3. \A i \in 1 .. Len(x) : \A j \in 1 .. Len(l) : x[i].at < l[j].at
    BY <1>0, <1>2, <1>3, <2>1, <2>2
  <2> QED BY <1>0, <1>1, <1>2, <1>3, <2>3, RisesConcat
<1>6. \A i \in st + 1 .. o :
        B[i].k = 1 /\ B[i].c \in {"text", "wide"} => Has(x \o l, Char(B[i].c, i))
  BY <1>0, <1>1, <1>4, HasConcat
<1> QED BY <1>5, <1>6 DEF x

\* The invariant implies that the lines are in order.
LEMMA InvLines == Inv => LinesInOrder
<1> SUFFICES ASSUME Inv PROVE LinesInOrder
  OBVIOUS
<1> DEFINE out == Output \o line
           S == ends \cup {start}
<1>1. out \in Seq(Text) /\ printed \in Seq(Seq(Piece)) /\ line \in Seq(Piece) /\ Len(out) \in Nat
      /\ out \in Seq(Piece)
  <2>1. out \in Seq(Text) /\ Text \subseteq Piece
    BY TextPiece DEF Inv
  <2> HIDE DEF out
  <2>2. Len(out) \in Nat /\ out \in Seq(Piece)
    BY <2>1
  <2> QED BY <2>1, <2>2, TextPiece DEF Inv
<1>2. \A n \in 1 .. Len(out) : out[n].at > start /\ out[n].at <= size
  <2> HIDE DEF out
  <2> SUFFICES ASSUME NEW n \in 1 .. Len(out) PROVE out[n].at > start /\ out[n].at <= size
    OBVIOUS
  <2>1. out[n] \in PieceIn(Letters, start + 1, size)
    BY <1>1 DEF Text
  <2>2. out[n].at \in start + 1 .. size
    BY <2>1 DEF PieceIn
  <2> QED BY <2>2, Sizes DEF Inv
<1>3. ASSUME throws = 0, ~cut, ~Mistaken, Readable
      PROVE  /\ \A n \in 1 .. Len(out) - 1 : out[n].at < out[n + 1].at
             /\ \A i \in start + 1 .. offset :
                  Begins(i) /\ Bytes[i].c \in {"text", "wide"} =>
                    \E n \in 1 .. Len(out) : out[n] = Char(Bytes[i].c, i)
             /\ \A k \in 1 .. Len(printed) :
                  LET l == printed[k] IN
                  /\ Border(l[1].at - 1)
                  /\ Border(Last(l).at + Bytes[Last(l).at].of - 1)
                  /\ \A n \in 1 .. Len(l) : l[n].c # "lf"
  <2>1. PICK b \in start .. offset : Told(Bytes, S, start, printed, b) /\ Run(Bytes, line, b, offset)
    BY <1>3 DEF Inv, OrderInv, Sound
  <2>2. IsLayout(Bytes, file.encoding) /\ b <= offset
    BY <2>1, Sizes DEF Inv
  <2>3. /\ Rises(out)
        /\ \A i \in start + 1 .. offset :
             Bytes[i].k = 1 /\ Bytes[i].c \in {"text", "wide"} => Has(out, Char(Bytes[i].c, i))
    BY <2>1, <2>2, ToldInOrder DEF Output
  <2>4. \A n \in 1 .. Len(out) - 1 : out[n].at < out[n + 1].at
    <3> HIDE DEF out
    <3> SUFFICES ASSUME NEW n \in 1 .. Len(out) - 1 PROVE out[n].at < out[n + 1].at
      OBVIOUS
    <3> DEFINE r == n + 1
    <3>1. r \in 1 .. Len(out) /\ n \in 1 .. r - 1
      BY <1>1
    <3> HIDE DEF r
    <3>2. out[n].at < out[r].at
      BY <2>3, <3>1 DEF Rises
    <3> QED BY <3>2 DEF r
  <2>5. \A i \in start + 1 .. offset :
          Begins(i) /\ Bytes[i].c \in {"text", "wide"} =>
            \E n \in 1 .. Len(out) : out[n] = Char(Bytes[i].c, i)
    BY <2>3 DEF Begins, Has
  <2>6. \A i : BorderIn(Bytes, S, i) <=> Border(i)
    BY DEF BorderIn, Border
  <2>7. ASSUME NEW k \in 1 .. Len(printed)
        PROVE  LET l == printed[k] IN
               /\ Border(l[1].at - 1)
               /\ Border(Last(l).at + Bytes[Last(l).at].of - 1)
               /\ \A n \in 1 .. Len(l) : l[n].c # "lf"
    <3> DEFINE l == printed[k]
    <3>1. l \in GoodLines(Bytes, S)
      BY <2>1 DEF Told
    <3> HIDE DEF l, S
    <3>2. /\ l \in Seq(Piece) /\ l # <<>> /\ BorderIn(Bytes, S, l[1].at - 1)
          /\ BorderIn(Bytes, S, EndOf(Bytes, l[Len(l)])) /\ IsCharOf(Bytes, l[Len(l)])
          /\ \A n \in 1 .. Len(l) : l[n].c # "lf"
      BY <3>1 DEF GoodLines
    <3> DEFINE d == l[Len(l)]
    <3>3. Last(l) = d
      BY DEF Last
    <3>4. IsCharOf(Bytes, d) /\ BorderIn(Bytes, S, EndOf(Bytes, d))
      BY <3>2
    <3> HIDE DEF d
    <3>5. d.at \in 1 .. Len(Bytes)
      BY <3>4 DEF IsCharOf
    <3>6. Bytes[d.at].of \in 1 .. 3
      BY <2>2, <3>5 DEF IsLayout, WholeAt, Byte
    <3>7. EndOf(Bytes, d) = d.at + Bytes[d.at].of - 1
      BY <3>5, <3>6 DEF EndOf
    <3>8. Border(Last(l).at + Bytes[Last(l).at].of - 1)
      BY <2>6, <3>3, <3>4, <3>7
    <3> QED BY <2>6, <3>2, <3>8 DEF l
  <2> QED BY <2>4, <2>5, <2>7
<1> QED BY <1>2, <1>3 DEF LinesInOrder

(***************************************************************************)
(* What a chunk may be taken for.                                          *)
(***************************************************************************)
LEMMA ChunkIs ==
  ASSUME TypeInv, size > offset
  PROVE  ChunkEnd \in offset + 1 .. size /\ ChunkEnd \in 1 .. Len(Bytes)
<1>1. ChunkEnd \in offset + 1 .. size
  BY Sizes, LineReaderAssumption DEF ChunkEnd
<1> QED BY <1>1, Sizes

LEMMA SkippedIs ==
  ASSUME TypeInv, NEW to \in offset + 1 .. size
  PROVE  /\ Skipped(to) \in 0 .. to - offset
         /\ Skipped(to) # 0 => /\ offset = 0 /\ Skipped(to) >= 2 /\ EndsIn(Bytes, Skipped(to))
                               /\ NoText(Bytes, 0, Skipped(to))
                               /\ \A S : BorderIn(Bytes, S, Skipped(to))
<1>1. CASE encoding = Unknown /\ offset = 0 /\ FoundBom(1, to)
  <2> DEFINE w == Bytes[1].of
  <2>1. Skipped(to) = w
    BY <1>1 DEF Skipped
  <2>2. Bytes[1].c = "bom" /\ Bytes[1].k = 1 /\ to >= 1 + w - 1 /\ offset = 0
    BY <1>1 DEF FoundBom
  <2>3. 1 \in 1 .. Len(Bytes) /\ to \in Nat
    BY <2>2, Sizes
  <2>4. WholeAt(Bytes, file.encoding, 1)
    BY <2>3, Sizes DEF IsLayout
  <2>5. w \in 1 .. 3 /\ w = Width(file.encoding, "bom")
    BY <2>2, <2>4 DEF WholeAt, Byte
  <2>6. w >= 2
    BY <2>5 DEF Width
  <2>7. After(Bytes, 1) = w /\ Before(Bytes, 1) = 0
    BY <2>2, <2>5 DEF After, Before
  <2>8. EndsIn(Bytes, w) /\ Bytes[w].c = "bom"
    BY <2>2, <2>3, <2>7, Sizes, CharEnds
  <2>9. NoText(Bytes, 0, w)
    <3> SUFFICES ASSUME NEW i \in 0 + 1 .. w PROVE Bytes[i].c \notin {"text", "wide"}
      BY DEF NoText
    <3>1. i \in 1 .. Bytes[1].of /\ 0 + i = i
      BY <2>5
    <3>2. Bytes[0 + i] = [c |-> "bom", k |-> i, of |-> Bytes[1].of]
      BY <2>2, <2>4, <2>7, <3>1 DEF WholeAt
    <3> QED BY <3>1, <3>2
  <2>10. \A S : BorderIn(Bytes, S, w)
    BY <2>8 DEF BorderIn
  <2> HIDE DEF w
  <2>11. w \in 0 .. to - offset
    BY <2>2, <2>3, <2>5
  <2> QED BY <2>1, <2>2, <2>6, <2>8, <2>9, <2>10, <2>11
<1>2. CASE ~(encoding = Unknown /\ offset = 0 /\ FoundBom(1, to))
  <2>1. Skipped(to) = 0
    BY <1>2 DEF Skipped
  <2> QED BY <2>1, Sizes
<1> QED BY <1>1, <1>2

\* Where the text of a chunk begins.
From(to) == offset + 1 + Skipped(to)

LEMMA FromIs ==
  ASSUME TypeInv, NEW to \in offset + 1 .. size
  PROVE  /\ From(to) \in Nat \ {0} /\ to \in From(to) - 1 .. Len(Bytes)
         /\ From(to) - 1 = offset + Skipped(to) /\ From(to) >= start + 1
         /\ EndsIn(Bytes, offset) => EndsIn(Bytes, From(to) - 1)
<1>1. Skipped(to) \in 0 .. to - offset /\ (Skipped(to) # 0 => offset = 0 /\ EndsIn(Bytes, Skipped(to)))
  BY SkippedIs
<1> DEFINE w == Skipped(to)
<1> HIDE DEF w
<1>2. w \in 0 .. to - offset /\ From(to) = offset + 1 + w
  BY <1>1 DEF From, w
<1>3. /\ From(to) \in Nat \ {0} /\ to \in From(to) - 1 .. Len(Bytes)
      /\ From(to) - 1 = offset + w /\ From(to) >= start + 1
  BY <1>2, Sizes
<1>4. ASSUME EndsIn(Bytes, offset) PROVE EndsIn(Bytes, From(to) - 1)
  <2>1. CASE w = 0
    <3>1. From(to) - 1 = offset
      BY <1>3, <2>1, Sizes
    <3> QED BY <1>4, <3>1
  <2>2. CASE w # 0
    <3>1. offset = 0 /\ EndsIn(Bytes, w)
      BY <1>1, <2>2 DEF w
    <3>2. From(to) - 1 = w
      BY <1>2, <1>3, <3>1
    <3> QED BY <3>1, <3>2
  <2> QED BY <2>1, <2>2
<1> QED BY <1>3, <1>4 DEF w

LEMMA DecodedIs ==
  ASSUME TypeInv, NEW to \in offset + 1 .. size, NEW d \in Decoded(to)
  PROVE  /\ d.type \in Types(to) /\ d.text = ConvertStringToUTF16(d.type, From(to), to)
         /\ d.text \in Seq(PieceIn(Heard(d.type), start + 1, size)) /\ d.text \in Seq(Piece)
<1>1. PICK type \in Types(to) :
        d = [type |-> type, text |-> ConvertStringToUTF16(type, From(to), to)]
  BY DEF Decoded, From
<1>2. d.type = type /\ d.text = ConvertStringToUTF16(type, From(to), to)
  BY <1>1
<1>3. d.text \in Seq(PieceIn(Heard(d.type), From(to), to))
  BY <1>2, FromIs, DecodeTyped DEF TypeInv
<1>4. From(to) .. to \subseteq start + 1 .. size /\ start + 1 .. size \subseteq Nat
  BY FromIs, Sizes
<1>5. PieceIn(Heard(d.type), From(to), to) \subseteq PieceIn(Heard(d.type), start + 1, size)
  BY <1>4 DEF PieceIn
<1>6. PieceIn(Heard(d.type), start + 1, size) \subseteq Piece
  <2>1. Heard(d.type) \subseteq Letter
    BY DEF Heard, Letter
  <2> QED BY <1>4, <2>1 DEF PieceIn, Piece
<1> DEFINE X == PieceIn(Heard(d.type), From(to), to)
           Y == PieceIn(Heard(d.type), start + 1, size)
           s == d.text
<1> HIDE DEF X, Y, s
<1>7. s \in Seq(X) /\ X \subseteq Y /\ Y \subseteq Piece
  BY <1>3, <1>5, <1>6 DEF X, Y, s
<1>8. s \in Seq(Y) /\ s \in Seq(Piece)
  BY <1>7
<1> QED BY <1>1, <1>2, <1>8 DEF Y, s

\* Content stays unknown if it is one byte, which is half of a character in UTF-16.
LEMMA UnknownType ==
  ASSUME TypeInv, NEW to \in offset + 1 .. size, NEW type \in Types(to), type = Unknown
  PROVE  to = offset + 1 /\ From(to) = to
<1>0. to \in Nat /\ offset \in Nat
  BY Sizes
<1>1. ASSUME NEW first, NEW last, type \in FileTypesFromBuffer(offset + 1, to, first, last)
      PROVE  to <= offset + 1
  <2>1. file.encoding # Unknown
    BY FileIs
  <2> QED BY <1>1, <2>1 DEF FileTypesFromBuffer, Unknown
<1>2. to <= offset + 1
  <2>1. encoding = Unknown
    BY DEF Types
  <2> QED BY <1>1, <2>1 DEF Types
<1>3. to = offset + 1
  BY <1>0, <1>2
<1>4. Skipped(to) \in 0 .. to - offset /\ (Skipped(to) # 0 => Skipped(to) >= 2)
  BY SkippedIs
<1>5. Skipped(to) = 0
  BY <1>0, <1>3, <1>4
<1> QED BY <1>0, <1>3, <1>5 DEF From

LEMMA NotOneByte ==
  ASSUME TypeInv, size > offset, EndsIn(Bytes, offset), EndsIn(Bytes, offset + 1)
  PROVE  file.encoding \notin Multibyte
<1> SUFFICES ASSUME file.encoding \in Multibyte PROVE FALSE
  OBVIOUS
<1> DEFINE i == offset + 1
<1>1. i \in 1 .. Len(Bytes) /\ offset \in 0 .. Len(Bytes) - 1 /\ i # 0
  BY Sizes
<1>2. Bytes[offset + 1].k = 1
  BY <1>1, Sizes, NextByte
<1>3. WholeAt(Bytes, file.encoding, i)
  BY <1>1, Sizes DEF IsLayout
<1>4. Bytes[i].of = 2
  BY <1>3 DEF WholeAt, Width
<1> QED BY <1>1, <1>2, <1>4 DEF EndsIn

\* What whole characters are taken for, if it is no mistake.
LEMMA SoundType ==
  ASSUME TypeInv, NEW to \in offset + 1 .. size, EndsIn(Bytes, offset), EndsIn(Bytes, to),
         NEW type \in Types(to),
         type # Unknown => (type \in Multibyte <=> file.encoding \in Multibyte)
  PROVE  type \in Multibyte <=> file.encoding \in Multibyte
<1>1. CASE type # Unknown
  BY <1>1
<1>2. CASE type = Unknown
  <2>1. to = offset + 1
    BY <1>2, UnknownType
  <2>2. size > offset
    BY <2>1, Sizes
  <2>3. file.encoding \notin Multibyte
    BY <2>1, <2>2, NotOneByte
  <2> QED BY <1>2, <2>3 DEF Multibyte, Unknown
<1> QED BY <1>1, <1>2

LEMMA CleanPlain ==
  ASSUME TypeInv, NEW to \in offset + 1 .. size, EndsIn(Bytes, offset), EndsIn(Bytes, to),
         NEW d \in Decoded(to), d.type \in {Unknown, file.encoding}, file.encoding # "ANSI"
  PROVE  Plain(d.text)
<1>1. d.type \in Types(to) /\ d.text = ConvertStringToUTF16(d.type, From(to), to)
  BY DecodedIs
<1>2. file.encoding \in {"UTF8"} \cup Multibyte
  BY FileIs DEF Multibyte
<1>3. /\ From(to) \in Nat \ {0} /\ to \in From(to) - 1 .. Len(Bytes) /\ EndsIn(Bytes, From(to) - 1)
  BY FromIs
<1>4. \/ d.type = file.encoding /\ d.type \in Multibyte \cup {"UTF8"}
      \/ d.type = Unknown /\ file.encoding = "UTF8" /\ From(to) = to
  <2>1. CASE d.type = file.encoding
    BY <1>2, <2>1
  <2>2. CASE d.type = Unknown
    <3>1. to = offset + 1 /\ From(to) = to
      BY <1>1, <2>2, UnknownType
    <3>2. size > offset
      BY <3>1, Sizes
    <3>3. file.encoding \notin Multibyte
      BY <3>1, <3>2, NotOneByte
    <3> QED BY <1>2, <2>2, <3>1, <3>3
  <2> QED BY <2>1, <2>2
<1>5. file \in Files
  BY DEF TypeInv
<1> DEFINE from == From(to)
           type == d.type
<1> HIDE DEF from, type
<1>6. from \in Nat \ {0} /\ to \in from - 1 .. Len(Bytes) /\ EndsIn(Bytes, from - 1)
  BY <1>3 DEF from
<1>7. \/ type = file.encoding /\ type \in Multibyte \cup {"UTF8"}
      \/ type = Unknown /\ file.encoding = "UTF8" /\ from = to
  BY <1>4 DEF from, type
<1>8. Plain(ConvertStringToUTF16(type, from, to))
  BY <1>5, <1>6, <1>7, DecodePlain
<1> QED BY <1>1, <1>8 DEF from, type

\* The first bytes of a file with a BOM.
LEMMA FirstBom ==
  ASSUME TypeInv, size > 0, Named
  PROVE  /\ Bytes[1].c = "bom" /\ Bytes[1].k = 1 /\ Bytes[1].of \in {2, 3}
         /\ \A i \in 1 .. Bytes[1].of : i <= Len(Bytes) /\ Bytes[i].k = i /\ Bytes[i].of = Bytes[1].of
         /\ file.encoding \notin Multibyte => Bytes[1].of = 3
<1>1. Len(Bytes) > 0 /\ 1 \in 1 .. Len(Bytes) /\ Len(Bytes) \in Nat
  BY Sizes
<1>2. Bytes[1].c = "bom"
  BY <1>1, LayoutWhole DEF Bytes, TypeInv, Named
<1>3. WholeAt(Bytes, file.encoding, 1)
  BY <1>1, Sizes DEF IsLayout
<1>4. Bytes[1].of \in {2, 3} /\ (file.encoding \notin Multibyte => Bytes[1].of = 3)
  BY <1>2, <1>3 DEF WholeAt, Width
<1>5. Bytes[1].k = 1
  BY <1>3 DEF WholeAt, Before, Byte
<1>6. ASSUME NEW i \in 1 .. Bytes[1].of PROVE i <= Len(Bytes) /\ Bytes[i].k = i /\ Bytes[i].of = Bytes[1].of
  <2>1. Before(Bytes, 1) = 0 /\ After(Bytes, 1) = Bytes[1].of /\ i \in Nat
    BY <1>4, <1>5 DEF Before, After
  <2>2. Bytes[0 + i] = [c |-> Bytes[1].c, k |-> i, of |-> Bytes[1].of]
    BY <1>3, <2>1 DEF WholeAt
  <2>3. 0 + i = i /\ Bytes[1].of <= Len(Bytes)
    BY <1>1, <1>3, <1>4, <2>1 DEF WholeAt
  <2> QED BY <1>1, <1>4, <2>1, <2>2, <2>3
<1> QED BY <1>2, <1>4, <1>5, <1>6

LEMMA NamedTypes ==
  ASSUME TypeInv, EncodingInv, ~cut, Named, reader = "read", NEW to \in offset + 1 .. size,
         EndsIn(Bytes, to), NEW type \in Types(to)
  PROVE  type = file.encoding
<1>0. EndsIn(Bytes, offset) /\ to \in Nat /\ offset \in Nat /\ to <= Len(Bytes)
  BY Sizes DEF EncodingInv
<1>1. encoding \in {Unknown, file.encoding}
  BY DEF EncodingInv
<1>2. CASE encoding # Unknown
  BY <1>1, <1>2 DEF Types
<1>3. CASE encoding = Unknown
  <2>1. offset = start /\ (wasBomRead <=> offset >= 3)
    BY <1>3 DEF EncodingInv
  <2>2. /\ Bytes[1].c = "bom" /\ Bytes[1].k = 1 /\ Bytes[1].of \in {2, 3}
        /\ \A i \in 1 .. Bytes[1].of : i <= Len(Bytes) /\ Bytes[i].k = i /\ Bytes[i].of = Bytes[1].of
        /\ file.encoding \notin Multibyte => Bytes[1].of = 3
    <3>1. size > 0
      BY Sizes
    <3> QED BY <3>1, FirstBom
  <2>3. \A i \in 1 .. Bytes[1].of - 1 : ~EndsIn(Bytes, i)
    <3> SUFFICES ASSUME NEW i \in 1 .. Bytes[1].of - 1 PROVE ~EndsIn(Bytes, i)
      OBVIOUS
    <3>1. i \in 1 .. Bytes[1].of /\ i # Bytes[1].of /\ i # 0
      BY <2>2
    <3> QED BY <2>2, <3>1 DEF EndsIn
  <2>4. start # 2 /\ start # 1
    <3>1. EndsIn(Bytes, start)
      BY DEF TypeInv
    <3>2. start # 1
      BY <2>2, <2>3, <3>1
    <3>3. CASE file.encoding \in Multibyte
      BY <3>2, <3>3 DEF Named
    <3>4. CASE file.encoding \notin Multibyte
      BY <2>2, <2>3, <3>1, <3>2, <3>4
    <3> QED BY <3>3, <3>4
  <2>5. CASE wasBomRead
    <3>1. Types(to) = FileTypesFromBuffer(offset + 1, to, 1, 3)
      BY <1>3, <2>5 DEF Types
    <3>2. FoundBom(1, 3) /\ ~(3 <= 1)
      BY <2>2 DEF FoundBom
    <3>3. Types(to) = {file.encoding}
      BY <3>1, <3>2 DEF FileTypesFromBuffer
    <3> QED BY <3>3
  <2>6. CASE ~wasBomRead
    <3>1. offset = 0
      BY <1>0, <2>1, <2>4, <2>6
    <3>2. to >= Bytes[1].of /\ offset + 1 = 1 /\ to > 1
      <4>1. to \notin 1 .. Bytes[1].of - 1
        BY <2>3
      <4> QED BY <1>0, <2>2, <3>1, <4>1
    <3>3. Types(to) = FileTypesFromBuffer(1, to, 1, to)
      BY <1>3, <2>6, <3>2 DEF Types
    <3>4. FoundBom(1, to) /\ ~(to <= 1)
      BY <1>0, <2>2, <3>2 DEF FoundBom
    <3>5. Types(to) = {file.encoding}
      BY <3>3, <3>4 DEF FileTypesFromBuffer
    <3> QED BY <3>5
  <2> QED BY <2>5, <2>6
<1> QED BY <1>2, <1>3

(***************************************************************************)
(* The steps.                                                              *)
(***************************************************************************)
LEMMA BytesStay ==
  ASSUME file' = file
  PROVE  Bytes' = Bytes
BY DEF Bytes, Layout

LEMMA TextGrows ==
  ASSUME TypeInv, TextInv, UNCHANGED <<file, start>>, size' \in Nat, size <= size', cut => cut',
         encoding' = encoding \/ encoding = Unknown
  PROVE  Text \subseteq Text' /\ line \in Seq(Text') /\ printed \in Seq(Seq(Text'))
<1>1. Letters \subseteq Letters'
  <2>1. Clean' => Clean
    BY DEF Clean
  <2>2. Sound' => Sound
    BY DEF Sound, Mistaken
  <2>3. /\ Letters = IF Clean THEN Written ELSE IF Sound THEN Written \cup {"?"} ELSE Letter
        /\ Letters' = IF Clean' THEN Written ELSE IF Sound' THEN Written \cup {"?"} ELSE Letter
    BY DEF Letters, Letter, Written
  <2>4. Written \subseteq Written \cup {"?"} /\ Written \cup {"?"} \subseteq Letter
    BY DEF Letter
  <2> HIDE DEF Clean, Sound
  <2> QED BY <2>1, <2>2, <2>3, <2>4
<1>2. start + 1 .. size \subseteq start' + 1 .. size'
  BY Sizes
<1>3. Text \subseteq Text'
  <2> HIDE DEF Letters
  <2> QED BY <1>1, <1>2 DEF Text, PieceIn
<1>4. line \in Seq(Text) /\ printed \in Seq(Seq(Text))
  BY DEF TextInv
<1> DEFINE X == Text
           Y == Text'
<1>5. X \subseteq Y /\ line \in Seq(X) /\ printed \in Seq(Seq(X))
  BY <1>3, <1>4
<1> HIDE DEF X, Y
<1>6. Seq(X) \subseteq Seq(Y)
  BY <1>5
<1> DEFINE A == Seq(X)
           C == Seq(Y)
<1>7. printed \in Seq(A) /\ A \subseteq C
  BY <1>5, <1>6
<1> HIDE DEF A, C
<1>8. printed \in Seq(C)
  BY <1>7
<1> QED BY <1>3, <1>5, <1>6, <1>8 DEF A, C, X, Y

LEMMA ChunkStep ==
  ASSUME Inv, reader = "read", size > offset, NEW d \in Decoded(ChunkEnd), encoding' = d.type,
         CutsChar, UNCHANGED <<file, size, start, wasBomRead, bomFailed>>, throws' \in Nat,
         offset' = ChunkEnd \/ (offset' = offset /\ reader' # "read")
  PROVE  /\ TypeInv' /\ EncodingInv'
         /\ line \in Seq(Text') /\ printed \in Seq(Seq(Text')) /\ d.text \in Seq(Text')
<1> DEFINE to == ChunkEnd
<1>0. TypeInv /\ EncodingInv /\ TextInv
  BY DEF Inv
<1>1. to \in offset + 1 .. size /\ to \in 1 .. Len(Bytes) /\ d \in Decoded(to)
  BY <1>0, ChunkIs
<1>2. Bytes' = Bytes /\ file' = file /\ start' = start /\ size' = size
  BY BytesStay
<1>3. cut' = (cut \/ ~EndsIn(Bytes, to))
  <2>1. EndsChar(to) <=> EndsIn(Bytes, to)
    BY DEF EndsChar, EndsIn
  <2> QED BY <2>1 DEF CutsChar
<1>4. offset' = to \/ (offset' = offset /\ reader' # "read")
  OBVIOUS
<1> HIDE DEF to
<1>5. TypeInv'
  <2>1. offset' \in start .. size
    BY <1>0, <1>1, <1>4, Sizes
  <2>2. cut' \in BOOLEAN
    BY <1>0, <1>3
  <2>3. EndsIn(Bytes, start)' <=> EndsIn(Bytes, start)
    BY <1>2 DEF EndsIn
  <2> QED BY <1>0, <1>2, <2>1, <2>2, <2>3 DEF TypeInv
<1>6. /\ d.type \in Types(to) /\ d.text \in Seq(PieceIn(Heard(d.type), start + 1, size))
      /\ d.text \in Seq(PieceIn(Letter, start + 1, size))
  <2>1. d.type \in Types(to) /\ d.text \in Seq(PieceIn(Heard(d.type), start + 1, size))
    BY <1>0, <1>1, DecodedIs
  <2> DEFINE X == PieceIn(Heard(d.type), start + 1, size)
             Y == PieceIn(Letter, start + 1, size)
             s == d.text
  <2>2. X \subseteq Y
    <3>1. Heard(d.type) \subseteq Letter
      BY DEF Heard, Letter
    <3> QED BY <3>1 DEF PieceIn
  <2>3. s \in Seq(X)
    BY <2>1
  <2> HIDE DEF X, Y, s
  <2>4. s \in Seq(Y)
    BY <2>2, <2>3
  <2> QED BY <2>1, <2>4 DEF Y, s
<1>7. ~cut' => ~cut /\ EndsIn(Bytes, offset) /\ EndsIn(Bytes, to)
  <2>1. cut \in BOOLEAN
    BY <1>0 DEF TypeInv
  <2> QED BY <1>0, <1>3, <2>1 DEF EncodingInv
<1>8. EncodingInv'
  <2>1. ~cut' => EndsIn(Bytes, offset)'
    <3>1. EndsIn(Bytes, offset)' <=> EndsIn(Bytes, offset')
      BY <1>2 DEF EndsIn
    <3> QED BY <1>4, <1>7, <3>1
  <2>2. ASSUME ~cut', Named'
        PROVE  encoding' = file'.encoding /\ encoding' # Unknown
    <3>1. Named
      BY <1>2, <2>2 DEF Named
    <3>2. d.type = file.encoding
      BY <1>0, <1>1, <1>6, <1>7, <2>2, <3>1, NamedTypes
    <3> QED BY <1>0, <1>2, <3>2, FileIs
  <2> QED BY <2>1, <2>2 DEF EncodingInv
<1>9. line \in Seq(Text') /\ printed \in Seq(Seq(Text'))
  <2>1. size' \in Nat /\ size <= size'
    BY <1>0, <1>2, Sizes
  <2>2. cut => cut'
    BY <1>3
  <2>3. encoding' = encoding \/ encoding = Unknown
    BY <1>6 DEF Types
  <2> QED BY <1>0, <1>2, <2>1, <2>2, <2>3, TextGrows
<1>10. d.text \in Seq(Text')
  <2> DEFINE s == d.text
  <2>1. CASE Clean'
    <3>1. Plain(s)
      <4>1. ~cut' /\ d.type \in {Unknown, file.encoding} /\ file.encoding # "ANSI"
        BY <1>2, <2>1 DEF Clean
      <4> QED BY <1>0, <1>1, <1>7, <4>1, CleanPlain
    <3>2. Text' = PieceIn(Written, start + 1, size)
      BY <1>2, <2>1 DEF Text, Letters
    <3>3. s \in Seq(PieceIn(Letter, start + 1, size))
      BY <1>6
    <3> HIDE DEF s
    <3>4. \A n \in 1 .. Len(s) : s[n] \in PieceIn(Written, start + 1, size)
      <4> SUFFICES ASSUME NEW n \in 1 .. Len(s) PROVE s[n] \in PieceIn(Written, start + 1, size)
        OBVIOUS
      <4>1. s[n] \in PieceIn(Letter, start + 1, size) /\ s[n].c \notin {"?", "nul"}
        BY <3>1, <3>3 DEF Plain
      <4> DEFINE e == s[n]
      <4> HIDE DEF e
      <4>2. e \in PieceIn(Letter, start + 1, size) /\ e.c \notin {"?", "nul"}
        BY <4>1 DEF e
      <4>3. e \in PieceIn(Written, start + 1, size)
        BY <4>2 DEF PieceIn, Letter
      <4> QED BY <4>3 DEF e
    <3> DEFINE X == PieceIn(Written, start + 1, size)
               Y == PieceIn(Letter, start + 1, size)
    <3>5. s \in Seq(Y) /\ \A n \in 1 .. Len(s) : s[n] \in X
      BY <3>3, <3>4
    <3> HIDE DEF X, Y
    <3>6. s \in Seq(X)
      BY <3>5
    <3> QED BY <3>2, <3>6 DEF X, s
  <2>2. CASE ~Clean' /\ Sound'
    <3>1. Text' = PieceIn(Written \cup {"?"}, start + 1, size)
      BY <1>2, <2>2 DEF Text, Letters
    <3>2. ~cut' /\ (d.type # Unknown => (d.type \in Multibyte <=> file.encoding \in Multibyte))
      BY <1>2, <2>2 DEF Sound, Mistaken
    <3>3. d.type \in Multibyte <=> file.encoding \in Multibyte
      BY <1>0, <1>1, <1>6, <1>7, <3>2, SoundType
    <3>4. Heard(d.type) = Written \cup {"?"}
      BY <3>3 DEF Heard, Bytewise
    <3> QED BY <1>6, <3>1, <3>4
  <2>3. CASE ~Clean' /\ ~Sound'
    <3>1. Text' = PieceIn(Letter, start + 1, size)
      BY <1>2, <2>3 DEF Text, Letters, Letter, Written
    <3> QED BY <1>6, <3>1
  <2> QED BY <2>1, <2>2, <2>3
<1> QED BY <1>5, <1>8, <1>9, <1>10

LEMMA WriteText ==
  ASSUME NEW T, NEW l \in Seq(T), NEW s \in Seq(T), NEW pr \in Seq(Seq(T))
  PROVE  /\ pr \o WriteToConsole(l) \in Seq(Seq(T))
         /\ HasEol(s) =>
              /\ AfterEol(s) \in Seq(T) /\ WriteToConsole(BeforeEol(s)) \in Seq(Seq(T))
              /\ WriteToConsole(l \o BeforeEol(s)) \in Seq(Seq(T))
         /\ l \o s \in Seq(T)
<1>1. pr \o WriteToConsole(l) \in Seq(Seq(T))
  <2> DEFINE w == WriteToConsole(l)
             G == Seq(T)
  <2>1. w \in Seq(G) /\ pr \in Seq(G)
    BY WriteSeq
  <2> HIDE DEF w, G
  <2>2. pr \o w \in Seq(G)
    BY <2>1
  <2> QED BY <2>2 DEF w, G
<1>2. ASSUME HasEol(s)
      PROVE  /\ AfterEol(s) \in Seq(T) /\ WriteToConsole(BeforeEol(s)) \in Seq(Seq(T))
             /\ WriteToConsole(l \o BeforeEol(s)) \in Seq(Seq(T))
  <2>1. BeforeEol(s) \in Seq(T) /\ AfterEol(s) \in Seq(T)
    BY <1>2, ChunkParts
  <2>2. l \o BeforeEol(s) \in Seq(T)
    BY <2>1
  <2> QED BY <2>1, <2>2, WriteSeq
<1> QED BY <1>1, <1>2

LEMMA InitInv == Init => Inv
<1> SUFFICES ASSUME Init PROVE Inv
  OBVIOUS
<1>0. /\ file \in Files /\ start \in {0} \cup {i \in 1 .. Len(Bytes) : EndsChar(i)}
      /\ size = start /\ offset = start /\ reader = "idle" /\ encoding = Unknown
      /\ line = <<>> /\ printed = <<>> /\ ends = {} /\ throws = 0 /\ cut = FALSE /\ bomFailed = FALSE
  BY DEF Init
<1>1. IsLayout(Bytes, file.encoding) /\ Len(Bytes) \in Nat
  BY <1>0, BytesLaid DEF IsLayout
<1>2. TypeInv
  <2>1. start \in Nat /\ start <= Len(Bytes)
    BY <1>0, <1>1
  <2>2. EndsIn(Bytes, start)
    BY <1>0 DEF EndsIn, EndsChar
  <2>3. offset \in start .. size /\ size \in 0 .. Len(Bytes) /\ throws \in Nat
    BY <1>0, <1>1, <2>1
  <2>4. cut \in BOOLEAN /\ bomFailed \in BOOLEAN
    BY <1>0
  <2> QED BY <1>0, <2>1, <2>2, <2>3, <2>4 DEF TypeInv
<1>3. EncodingInv
  BY <1>0, <1>2 DEF EncodingInv, TypeInv
<1>4. TextInv
  <2>1. \A T : <<>> \in Seq(T)
    OBVIOUS
  <2> QED BY <1>0, <2>1 DEF TextInv
<1>5. Told(Bytes, ends \cup {start}, start, printed, start)
  <2> DEFINE S == ends \cup {start}
             out == FlattenSeq(printed)
  <2>1. start \in Nat /\ start <= start /\ start + 1 .. start = {}
    BY <1>0, <1>1
  <2>2. BorderIn(Bytes, S, start)
    BY DEF BorderIn
  <2>3. printed \in Seq(GoodLines(Bytes, S))
    <3>1. \A T : <<>> \in Seq(T)
      OBVIOUS
    <3> QED BY <1>0, <3>1
  <2>4. Len(out) = 0
    <3>1. FlattenSeq(<<>>) = <<>>
      BY DEF FlattenSeq
    <3> QED BY <1>0, <3>1
  <2> HIDE DEF out, S
  <2>5. Rises(out) /\ \A x \in 1 .. Len(out) : out[x].at <= start
    BY <2>4 DEF Rises
  <2> QED BY <2>1, <2>2, <2>3, <2>5 DEF Told, out, S
<1>6. Run(Bytes, line, start, offset)
  BY <1>0, <1>2, RunNone DEF TypeInv
<1>7. OrderInv
  <2>1. start \in start .. offset
    BY <1>0, <1>2 DEF TypeInv
  <2> QED BY <1>0, <1>5, <1>6, <2>1 DEF OrderInv
<1> QED BY <1>2, <1>3, <1>4, <1>7 DEF Inv

LEMMA StutterInv == Inv /\ UNCHANGED vars => Inv'
<1> SUFFICES ASSUME Inv, UNCHANGED vars PROVE Inv'
  OBVIOUS
<1>1. Bytes' = Bytes
  BY BytesStay DEF vars
<1>2. TypeInv'
  BY <1>1 DEF Inv, TypeInv, EndsIn, vars
<1>3. EncodingInv'
  BY <1>1 DEF Inv, EncodingInv, EndsIn, Named, vars
<1>4. TextInv'
  BY DEF Inv, TextInv, Text, Letters, Clean, Sound, Mistaken, vars
<1>5. OrderInv'
  BY <1>1 DEF Inv, OrderInv, Readable, Output, Sound, Mistaken, vars
<1> QED BY <1>2, <1>3, <1>4, <1>5 DEF Inv

LEMMA OpensInv == Inv /\ Opens => Inv'
<1> SUFFICES ASSUME Inv, Opens PROVE Inv'
  OBVIOUS
<1>0. /\ reader = "idle" /\ reader' = "read" /\ line' = <<>> /\ line = <<>>
      /\ wasBomRead' \in IF BomIsApart THEN BOOLEAN ELSE {FALSE}
      /\ bomFailed' = (bomFailed \/ (BomIsApart /\ ~wasBomRead'))
      /\ UNCHANGED <<file, size, start, offset, encoding, printed, ends, throws, cut>>
  BY DEF Opens, Inv, OrderInv
<1>1. Bytes' = Bytes
  BY <1>0, BytesStay
<1>2. TypeInv'
  <2>1. bomFailed' \in BOOLEAN
    BY <1>0 DEF Inv, TypeInv, BomIsApart
  <2> QED BY <1>0, <1>1, <2>1 DEF Inv, TypeInv, EndsIn
<1>3. EncodingInv'
  <2>1. EncodingInv /\ (EndsIn(Bytes, offset)' <=> EndsIn(Bytes, offset))
    BY <1>0, <1>1 DEF Inv, EndsIn
  <2>2. Named' => Named /\ ~bomFailed'
    BY <1>0 DEF Named, Inv, TypeInv
  <2>3. ASSUME ~bomFailed', encoding = Unknown PROVE wasBomRead' <=> offset >= 3
    <3>1. BomIsApart <=> offset >= 3
      BY <2>3 DEF BomIsApart
    <3>2. CASE BomIsApart
      BY <1>0, <2>3, <3>1, <3>2
    <3>3. CASE ~BomIsApart
      BY <1>0, <3>1, <3>3
    <3> QED BY <3>2, <3>3
  <2> QED BY <1>0, <2>1, <2>2, <2>3 DEF EncodingInv
<1>4. TextInv'
  BY <1>0 DEF Inv, TextInv, Text, Letters, Clean, Sound, Mistaken
<1>5. OrderInv'
  BY <1>0, <1>1 DEF Inv, OrderInv, Readable, Output, Sound, Mistaken
<1> QED BY <1>2, <1>3, <1>4, <1>5 DEF Inv

\* After an exception, only the kind of the text is left to be shown.
LEMMA ThrowsOrder ==
  ASSUME Inv, throws' = throws + 1, reader' # "idle"
  PROVE  throws' \in Nat /\ OrderInv'
<1>1. throws' \in Nat /\ throws' # 0
  BY DEF Inv, TypeInv
<1> QED BY <1>1 DEF OrderInv

LEMMA OpenThrowsInv == Inv /\ OpenThrows => Inv'
<1> SUFFICES ASSUME Inv, OpenThrows PROVE Inv'
  OBVIOUS
<1>0. /\ reader' = "ended" /\ throws' = throws + 1
      /\ UNCHANGED <<file, size, start, offset, encoding, wasBomRead, line, printed, ends, cut, bomFailed>>
  BY DEF OpenThrows
<1>1. Bytes' = Bytes
  BY <1>0, BytesStay
<1>2. throws' \in Nat /\ OrderInv'
  BY <1>0, ThrowsOrder
<1>3. TypeInv'
  BY <1>0, <1>1, <1>2 DEF Inv, TypeInv, EndsIn
<1>4. EncodingInv'
  <2>1. EncodingInv /\ (EndsIn(Bytes, offset)' <=> EndsIn(Bytes, offset)) /\ (Named' <=> Named)
    BY <1>0, <1>1 DEF Inv, EndsIn, Named
  <2> QED BY <1>0, <2>1 DEF EncodingInv
<1>5. TextInv'
  BY <1>0 DEF Inv, TextInv, Text, Letters, Clean, Sound, Mistaken
<1> QED BY <1>2, <1>3, <1>4, <1>5 DEF Inv

LEMMA ReadsNothingInv == Inv /\ ReadsNothing => Inv'
<1> SUFFICES ASSUME Inv, ReadsNothing PROVE Inv'
  OBVIOUS
<1>0. /\ reader = "read" /\ reader' = "last"
      /\ throws' = IF size = offset THEN throws ELSE throws + 1
      /\ UNCHANGED <<file, size, start, offset, encoding, wasBomRead, line, printed, ends, cut, bomFailed>>
  BY DEF ReadsNothing
<1>1. Bytes' = Bytes
  BY <1>0, BytesStay
<1>2. TypeInv' /\ (throws' = 0 => throws = 0)
  BY <1>0, <1>1 DEF Inv, TypeInv, EndsIn
<1>3. EncodingInv'
  <2>1. EncodingInv /\ (EndsIn(Bytes, offset)' <=> EndsIn(Bytes, offset)) /\ (Named' <=> Named)
    BY <1>0, <1>1 DEF Inv, EndsIn, Named
  <2> QED BY <1>0, <2>1 DEF EncodingInv
<1>4. TextInv'
  BY <1>0 DEF Inv, TextInv, Text, Letters, Clean, Sound, Mistaken
<1>5. OrderInv'
  <2>1. reader' # "idle" /\ (Readable' <=> Readable) /\ (Sound' <=> Sound) /\ OrderInv
    BY <1>0 DEF Inv, Readable, Output, Sound, Mistaken
  <2> QED BY <1>0, <1>1, <1>2, <2>1 DEF OrderInv
<1> QED BY <1>2, <1>3, <1>4, <1>5 DEF Inv

LEMMA WritesInv == Inv /\ Writes => Inv'
<1> SUFFICES ASSUME Inv, Writes PROVE Inv'
  OBVIOUS
<1>0. /\ size' \in size + 1 .. Len(Bytes)
      /\ UNCHANGED <<file, start, reader, offset, encoding, wasBomRead, line, printed, ends, throws,
                     cut, bomFailed>>
  BY DEF Writes
<1>1. Bytes' = Bytes
  BY <1>0, BytesStay
<1>2. TypeInv'
  <2>1. size' \in 0 .. Len(Bytes) /\ offset \in start .. size'
    BY <1>0, Sizes DEF Inv
  <2> QED BY <1>0, <1>1, <2>1 DEF Inv, TypeInv, EndsIn
<1>3. EncodingInv'
  <2>1. EncodingInv /\ (EndsIn(Bytes, offset)' <=> EndsIn(Bytes, offset)) /\ (Named' <=> Named)
    BY <1>0, <1>1 DEF Inv, EndsIn, Named
  <2> QED BY <1>0, <2>1 DEF EncodingInv
<1>4. TextInv'
  <2>1. size' \in Nat /\ size <= size' /\ TypeInv /\ TextInv
    BY <1>0, Sizes DEF Inv
  <2>2. line \in Seq(Text') /\ printed \in Seq(Seq(Text'))
    BY <1>0, <2>1, TextGrows
  <2> QED BY <1>0, <2>2 DEF TextInv
<1>5. OrderInv'
  <2>1. (Readable' <=> Readable) /\ (Sound' <=> Sound) /\ OrderInv
    BY <1>0 DEF Inv, Readable, Output, Sound, Mistaken
  <2> QED BY <1>0, <1>1, <2>1 DEF OrderInv
<1> QED BY <1>2, <1>3, <1>4, <1>5 DEF Inv

LEMMA ChunkReadable ==
  ASSUME NEW T, NoZeros(T), NEW pr \in Seq(Seq(T)), NEW l \in Seq(T), NEW s \in Seq(T),
         \/ HasEol(s) /\ Plain(FlattenSeq(pr \o WriteToConsole(l \o BeforeEol(s))) \o AfterEol(s))
         \/ Plain(FlattenSeq(pr) \o (l \o s))
  PROVE  Plain(FlattenSeq(pr) \o l) /\ Plain(s)
<1> DEFINE x == FlattenSeq(pr)
<1>0. x \in Seq(T) /\ l \o s \in Seq(T)
  BY FlatIs
<1>1. ASSUME Plain(x), Plain(l) PROVE Plain(x \o l)
  BY <1>0, <1>1, PlainConcat
<1>2. CASE Plain(x \o (l \o s))
  <2> HIDE DEF x
  <2>1. Plain(x) /\ Plain(l \o s)
    BY <1>0, <1>2, PlainConcat
  <2>2. Plain(l) /\ Plain(s)
    BY <2>1, PlainConcat
  <2> QED BY <1>1, <2>1, <2>2 DEF x
<1>3. CASE HasEol(s) /\ Plain(FlattenSeq(pr \o WriteToConsole(l \o BeforeEol(s))) \o AfterEol(s))
  <2> DEFINE u == BeforeEol(s)
             v == AfterEol(s)
             m == l \o u
             w == WriteToConsole(m)
             y == FlattenSeq(w)
  <2>1. u \in Seq(T) /\ v \in Seq(T) /\ (Plain(u) /\ Plain(v) => Plain(s))
    BY <1>3, ChunkParts
  <2>2. m \in Seq(T) /\ w \in Seq(Seq(T)) /\ y \in Seq(T)
    <3>1. m \in Seq(T)
      BY <2>1
    <3>2. w \in Seq(Seq(T))
      BY <3>1, WriteSeq
    <3>3. y \in Seq(T)
      BY <3>2, FlatIs
    <3> QED BY <3>1, <3>2, <3>3
  <2>3. FlattenSeq(pr \o w) = x \o y
    BY <2>2, FlatConcat
  <2>4. Plain((x \o y) \o v)
    BY <1>3, <2>3
  <2>5. Plain(y) => Plain(m)
    <3>1. NoNul(m)
      BY <2>2, NoZerosIn
    <3> QED BY <2>2, <3>1, PlainWrite
  <2>6. Plain(m) => Plain(l) /\ Plain(u)
    BY <2>1, PlainConcat
  <2> HIDE DEF x, u, v, m, w, y
  <2>7. x \o y \in Seq(T)
    BY <1>0, <2>2
  <2>8. Plain(x \o y) /\ Plain(v)
    BY <2>1, <2>4, <2>7, PlainConcat
  <2>9. Plain(x) /\ Plain(y)
    BY <1>0, <2>2, <2>8, PlainConcat
  <2> QED BY <1>1, <2>1, <2>5, <2>6, <2>8, <2>9 DEF x
<1> QED BY <1>2, <1>3

\* What is skipped at the beginning of the file is the BOM.
LEMMA SkippedTold ==
  ASSUME TypeInv, NEW to \in offset + 1 .. size, NEW S, NEW b \in start .. offset,
         Told(Bytes, S, start, printed, b), Run(Bytes, line, b, offset)
  PROVE  \E c \in start .. From(to) - 1 :
           Told(Bytes, S, start, printed, c) /\ Run(Bytes, line, c, From(to) - 1)
<1> DEFINE w == Skipped(to)
           o == From(to) - 1
<1>1. /\ w \in 0 .. to - offset
      /\ w # 0 => offset = 0 /\ NoText(Bytes, 0, w) /\ BorderIn(Bytes, S, w)
  BY SkippedIs
<1>2. o = offset + w
  BY FromIs
<1> HIDE DEF w, o
<1>3. CASE w = 0
  <2>1. o = offset
    BY <1>2, <1>3, Sizes
  <2> QED BY <2>1 DEF o
<1>4. CASE w # 0
  <2>1. offset = 0 /\ b = 0 /\ start = 0 /\ w \in Nat /\ 0 <= w
    BY <1>1, <1>4, Sizes
  <2>2. o = w
    BY <1>2, <2>1
  <2>3. line = <<>>
    <3>1. Run(Bytes, line, b, b)
      BY <2>1
    <3> QED BY <3>1, Sizes, RunNothing
  <2>4. Run(Bytes, line, w, w)
    BY <2>1, <2>3, RunNone
  <2>5. Told(Bytes, S, start, printed, w)
    BY <1>1, <1>4, <2>1, ToldOn
  <2>6. w \in start .. w
    BY <2>1
  <2> QED BY <2>2, <2>4, <2>5, <2>6 DEF o
<1> QED BY <1>3, <1>4

LEMMA ReadsChunkInv == Inv /\ ReadsChunk => Inv'
<1> SUFFICES ASSUME Inv, ReadsChunk PROVE Inv'
  OBVIOUS
<1>0. PICK d \in Decoded(ChunkEnd) : encoding' = d.type /\ Handles(d.text)
  BY DEF ReadsChunk
<1> DEFINE s == d.text
           to == ChunkEnd
           S == ends \cup {start}
<1>1. /\ reader = "read" /\ size > offset /\ offset' = to /\ CutsChar /\ reader' = "read"
      /\ UNCHANGED <<file, size, start, wasBomRead, ends, throws, bomFailed>>
  BY DEF ReadsChunk
<1>2. TypeInv /\ EncodingInv /\ TextInv /\ OrderInv
  BY DEF Inv
<1>3. \/ HasEol(s) /\ printed' = printed \o WriteToConsole(line \o BeforeEol(s)) /\ line' = AfterEol(s)
      \/ ~HasEol(s) /\ printed' = printed /\ line' = line \o s
  BY <1>0 DEF Handles
<1>4. /\ TypeInv' /\ EncodingInv'
      /\ line \in Seq(Text') /\ printed \in Seq(Seq(Text')) /\ s \in Seq(Text')
  <2>1. throws' \in Nat
    BY <1>1, <1>2 DEF TypeInv
  <2> QED BY <1>0, <1>1, <2>1, ChunkStep
<1>5. TextInv'
  <2> DEFINE T == Text'
             m == line \o BeforeEol(s)
             w == WriteToConsole(m)
  <2>1. line \in Seq(T) /\ printed \in Seq(Seq(T)) /\ s \in Seq(T)
    BY <1>4
  <2> HIDE DEF T, s, w
  <2>2. CASE HasEol(s) /\ printed' = printed \o w /\ line' = AfterEol(s)
    <3>1. m \in Seq(T) /\ AfterEol(s) \in Seq(T)
      <4>1. BeforeEol(s) \in Seq(T) /\ AfterEol(s) \in Seq(T)
        BY <2>1, <2>2, ChunkParts
      <4> QED BY <2>1, <4>1
    <3> HIDE DEF m
    <3>2. printed \o w \in Seq(Seq(T))
      BY <2>1, <3>1, WriteText DEF w
    <3> QED BY <2>2, <3>1, <3>2 DEF TextInv, T
  <2>3. CASE printed' = printed /\ line' = line \o s
    <3>1. line \o s \in Seq(T)
      BY <2>1
    <3> QED BY <2>1, <2>3, <3>1 DEF TextInv, T
  <2> QED BY <1>3, <2>2, <2>3 DEF s, w
<1>6. OrderInv'
  <2> SUFFICES ASSUME throws' = 0, Sound', Readable'
               PROVE  \E c \in start .. to : Told(Bytes, S, start, printed', c) /\ Run(Bytes, line', c, to)
    <3>1. Bytes' = Bytes /\ start' = start /\ offset' = to /\ S' = S /\ reader' # "idle"
      BY <1>1, BytesStay
    <3> HIDE DEF to, S
    <3> QED BY <3>1 DEF OrderInv, S
  <2>1. to \in offset + 1 .. size /\ to \in 1 .. Len(Bytes)
    BY <1>1, <1>2, ChunkIs
  <2>2. throws = 0 /\ ~cut /\ EndsIn(Bytes, offset) /\ EndsIn(Bytes, to)
    <3>1. cut \in BOOLEAN /\ cut' = (cut \/ ~EndsIn(Bytes, to))
      <4>1. EndsChar(to) <=> EndsIn(Bytes, to)
        BY DEF EndsChar, EndsIn
      <4>2. cut' = (cut \/ ~EndsIn(Bytes, to))
        BY <1>1, <4>1 DEF CutsChar
      <4> QED BY <1>2, <4>2 DEF TypeInv
    <3>2. ~cut /\ EndsIn(Bytes, to)
      BY <3>1 DEF Sound
    <3> QED BY <1>1, <1>2, <3>2 DEF EncodingInv
  <2>3. NoZeros(Text') /\ Sound
    <3>1. NoZeros(Text')
      <4>1. Letters' \subseteq Written \cup {"?"}
        BY DEF Letters
      <4>2. "nul" \notin Written \cup {"?"}
        BY DEF Written
      <4> QED BY <4>1, <4>2 DEF Text, PieceIn, NoZeros
    <3>2. d.type \in Types(to)
      BY <1>2, <2>1, DecodedIs
    <3>3. encoding' = encoding \/ encoding = Unknown
      BY <1>0, <3>2 DEF Types
    <3>4. ~Mistaken
      BY <1>1, <3>3 DEF Sound, Mistaken
    <3> QED BY <2>2, <3>1, <3>4 DEF Sound
  <2>4. Plain(FlattenSeq(printed') \o line')
    BY DEF Readable, Output, Plain
  <2>5. Readable /\ Plain(s)
    <3>1. Plain(FlattenSeq(printed) \o line) /\ Plain(s)
      <4> DEFINE T == Text'
      <4>0. NoZeros(T) /\ printed \in Seq(Seq(T)) /\ line \in Seq(T) /\ s \in Seq(T)
        BY <1>4, <2>3
      <4> HIDE DEF s, T
      <4>1. \/ HasEol(s) /\ Plain(FlattenSeq(printed \o WriteToConsole(line \o BeforeEol(s))) \o AfterEol(s))
            \/ Plain(FlattenSeq(printed) \o (line \o s))
        BY <1>3, <2>4
      <4> QED BY <4>0, <4>1, ChunkReadable
    <3>2. Readable <=> Plain(FlattenSeq(printed) \o line)
      BY DEF Readable, Output, Plain
    <3> QED BY <3>1, <3>2
  <2>6. PICK a \in start .. offset : Told(Bytes, S, start, printed, a) /\ Run(Bytes, line, a, offset)
    BY <1>2, <2>2, <2>3, <2>5 DEF OrderInv
  <2> DEFINE o == From(to) - 1
  <2>7. PICK b \in start .. o : Told(Bytes, S, start, printed, b) /\ Run(Bytes, line, b, o)
    BY <1>2, <2>1, <2>6, SkippedTold
  <2>8. From(to) \in Nat \ {0} /\ to \in o .. Len(Bytes) /\ EndsIn(Bytes, o)
    BY <1>2, <2>1, <2>2, FromIs
  <2>9. Run(Bytes, s, o, to)
    <3>1. d.type \in Types(to) /\ s = ConvertStringToUTF16(d.type, From(to), to)
      BY <1>2, <2>1, DecodedIs
    <3>2. d.type \in Multibyte <=> file.encoding \in Multibyte
      <4>1. d.type # Unknown => (d.type \in Multibyte <=> file.encoding \in Multibyte)
        BY <1>0, <1>1 DEF Sound, Mistaken
      <4> QED BY <1>2, <2>1, <2>2, <3>1, <4>1, SoundType
    <3> DEFINE type == d.type
               from == From(to)
    <3>3. s = ConvertStringToUTF16(type, from, to) /\ (type \in Multibyte <=> file.encoding \in Multibyte)
      BY <3>1, <3>2
    <3>4. from \in Nat \ {0} /\ to \in from - 1 .. Len(Bytes) /\ EndsIn(Bytes, from - 1) /\ file \in Files
      BY <1>2, <2>8 DEF TypeInv
    <3> HIDE DEF type, from, to, s
    <3>5. Run(Bytes, ConvertStringToUTF16(type, from, to), from - 1, to)
      BY <2>2, <2>5, <3>3, <3>4, DecodeRun
    <3> QED BY <3>3, <3>5 DEF from
  <2>10. b <= o /\ o <= to /\ start <= b /\ b \in start .. to /\ IsLayout(Bytes, file.encoding)
    <3> HIDE DEF o, to
    <3>1. o \in Nat
      BY <2>9 DEF Run
    <3>2. b \in Nat
      BY <2>7 DEF Run
    <3>3. to \in Nat
      BY <2>9 DEF Run
    <3> QED BY <1>2, <2>7, <2>8, <3>1, <3>2, <3>3, Sizes
  <2> HIDE DEF o, to, s, S
  <2>11. CASE HasEol(s) /\ printed' = printed \o WriteToConsole(line \o BeforeEol(s)) /\ line' = AfterEol(s)
    <3>1. \E c \in start .. to :
            /\ Told(Bytes, S, start, printed \o WriteToConsole(line \o BeforeEol(s)), c)
            /\ Run(Bytes, AfterEol(s), c, to)
      BY <2>7, <2>9, <2>10, <2>11, ToldChunk
    <3> QED BY <2>11, <3>1
  <2>12. CASE printed' = printed /\ line' = line \o s
    <3>1. Run(Bytes, line \o s, b, to)
      BY <2>7, <2>9, <2>10, RunConcat
    <3> QED BY <2>7, <2>10, <2>12, <3>1
  <2> QED BY <1>3, <2>11, <2>12 DEF s
<1> QED BY <1>4, <1>5, <1>6 DEF Inv

LEMMA PrintsLastInv == Inv /\ PrintsLast => Inv'
<1> SUFFICES ASSUME Inv, PrintsLast PROVE Inv'
  OBVIOUS
<1>0. /\ reader = "last" /\ reader' = "idle" /\ line' = <<>>
      /\ printed' = printed \o WriteToConsole(line) /\ ends' = ends \cup {offset}
      /\ UNCHANGED <<file, size, start, offset, encoding, wasBomRead, throws, cut, bomFailed>>
  BY DEF PrintsLast
<1>1. Bytes' = Bytes
  BY <1>0, BytesStay
<1>2. TypeInv'
  BY <1>0, <1>1 DEF Inv, TypeInv, EndsIn
<1>3. EncodingInv'
  <2>1. EncodingInv /\ (EndsIn(Bytes, offset)' <=> EndsIn(Bytes, offset)) /\ (Named' <=> Named)
    BY <1>0, <1>1 DEF Inv, EndsIn, Named
  <2> QED BY <1>0, <2>1 DEF EncodingInv
<1>4. TextInv'
  <2>1. size' \in Nat /\ size <= size' /\ TypeInv /\ TextInv
    BY <1>0, Sizes DEF Inv
  <2>2. line \in Seq(Text') /\ printed \in Seq(Seq(Text'))
    BY <1>0, <2>1, TextGrows
  <2> DEFINE T == Text'
  <2>3. line \in Seq(T) /\ printed \in Seq(Seq(T))
    BY <2>2
  <2> HIDE DEF T
  <2>4. printed \o WriteToConsole(line) \in Seq(Seq(T))
    BY <2>3, WriteText
  <2>5. <<>> \in Seq(T)
    OBVIOUS
  <2> QED BY <1>0, <2>4, <2>5 DEF TextInv, T
<1>5. OrderInv'
  <2> DEFINE S == ends \cup {start}
             R == S \cup {offset}
  <2> SUFFICES ASSUME throws = 0, Sound, Readable'
               PROVE  Told(Bytes, R, start, printed', offset) /\ Run(Bytes, <<>>, offset, offset)
    <3>1. R = ends' \cup {start'} /\ offset \in start .. offset
      BY <1>0, Sizes DEF Inv
    <3>2. Sound' <=> Sound
      BY <1>0 DEF Sound, Mistaken
    <3> HIDE DEF R
    <3> QED BY <1>0, <1>1, <3>1, <3>2 DEF OrderInv
  <2>1. printed \in Seq(Seq(Piece)) /\ line \in Seq(Piece)
    BY TextPiece DEF Inv
  <2> DEFINE w == WriteToConsole(line)
             x == FlattenSeq(printed)
             y == FlattenSeq(w)
  <2>2. w \in Seq(Seq(Piece)) /\ x \in Seq(Piece) /\ y \in Seq(Piece) /\ FlattenSeq(printed \o w) = x \o y
    <3>1. w \in Seq(Seq(Piece))
      BY <2>1, WriteSeq
    <3>2. x \in Seq(Piece) /\ y \in Seq(Piece)
      BY <2>1, <3>1, FlatIs
    <3> QED BY <2>1, <3>1, <3>2, FlatConcat
  <2>3. Plain(y) => Plain(line)
    <3>1. line \in Seq(Text) /\ NoZeros(Text)
      BY SoundText DEF Inv, TextInv
    <3>2. NoNul(line)
      BY <3>1, NoZerosIn
    <3> QED BY <2>1, <3>2, PlainWrite
  <2>4. Plain(FlattenSeq(printed') \o line')
    BY DEF Readable, Output, Plain
  <2>5. Plain(x \o y)
    <3> HIDE DEF w, x, y
    <3>1. (x \o y) \o <<>> = x \o y
      BY <2>2
    <3>2. FlattenSeq(printed') \o line' = x \o y
      BY <1>0, <2>2, <3>1 DEF w
    <3> QED BY <2>4, <3>2
  <2>6. Readable
    <3> HIDE DEF y
    <3>1. Plain(x) /\ Plain(y)
      BY <2>2, <2>5, PlainConcat
    <3> QED BY <2>1, <2>3, <3>1, ReadableIs
  <2>7. PICK b \in start .. offset : Told(Bytes, S, start, printed, b) /\ Run(Bytes, line, b, offset)
    BY <2>6 DEF Inv, OrderInv
  <2>8. Told(Bytes, R, start, printed, b)
    BY <2>7, ToldMore
  <2>9. BorderIn(Bytes, R, offset)
    BY DEF BorderIn
  <2>10. b <= offset /\ IsLayout(Bytes, file.encoding) /\ offset \in Nat
    BY <2>7, Sizes DEF Inv
  <2> HIDE DEF R, S
  <2>11. Told(Bytes, R, start, printed \o WriteToConsole(line), offset)
    BY <2>7, <2>8, <2>9, <2>10, ToldNext
  <2>12. Run(Bytes, <<>>, offset, offset)
    BY <2>10, RunNone
  <2> QED BY <1>0, <2>11, <2>12
<1> QED BY <1>2, <1>3, <1>4, <1>5 DEF Inv

LEMMA ReadsBeforeStringInv == Inv /\ ReadsBeforeString => Inv'
<1> SUFFICES ASSUME Inv, ReadsBeforeString PROVE Inv'
  OBVIOUS
<1>0. PICK d \in Decoded(ChunkEnd) :
        /\ HasEol(d.text) /\ encoding' = d.type /\ line' = AfterEol(d.text)
        /\ printed' = printed \o WriteToConsole(line) \o WriteToConsole(d.text)
  BY DEF ReadsBeforeString
<1>1. /\ reader = "read" /\ size > offset /\ offset' = ChunkEnd /\ CutsChar /\ reader' = "read"
      /\ throws' = throws + 1 /\ UNCHANGED <<file, size, start, wasBomRead, ends, bomFailed>>
  BY DEF ReadsBeforeString
<1>2. throws' \in Nat /\ OrderInv'
  BY <1>1, ThrowsOrder
<1> DEFINE T == Text'
           s == d.text
<1>3. TypeInv' /\ EncodingInv' /\ line \in Seq(T) /\ printed \in Seq(Seq(T)) /\ s \in Seq(T)
  BY <1>0, <1>1, <1>2, ChunkStep
<1>4. TextInv'
  <2> HIDE DEF T, s
  <2>1. AfterEol(s) \in Seq(T) /\ printed \o WriteToConsole(line) \in Seq(Seq(T))
    BY <1>0, <1>3, WriteText DEF s
  <2>2. (printed \o WriteToConsole(line)) \o WriteToConsole(s) \in Seq(Seq(T))
    BY <1>3, <2>1, WriteText
  <2> QED BY <1>0, <2>1, <2>2 DEF TextInv, T, s
<1> QED BY <1>2, <1>3, <1>4 DEF Inv

LEMMA PrefixTyped ==
  ASSUME NEW G, NEW w \in Seq(G), NEW lines \in Prefixes(w)
  PROVE  lines \in Seq(G)
<1>1. PICK n \in 0 .. Len(w) : lines = SubSeq(w, 1, n)
  BY DEF Prefixes
<1> QED BY <1>1

LEMMA ChunkThrowsInv == Inv /\ ChunkThrows => Inv'
<1> SUFFICES ASSUME Inv, ChunkThrows PROVE Inv'
  OBVIOUS
<1>0. PICK d \in Decoded(ChunkEnd) :
        /\ encoding' = d.type /\ line' = line
        /\ \/ printed' = printed
           \/ /\ HasEol(d.text)
              /\ \E lines \in Prefixes(WriteToConsole(BeforeEol(d.text))) : printed' = printed \o lines
  BY DEF ChunkThrows
<1>1. /\ reader = "read" /\ size > offset /\ offset' = offset /\ CutsChar /\ reader' = "last"
      /\ throws' = throws + 1 /\ UNCHANGED <<file, size, start, wasBomRead, ends, bomFailed>>
  BY DEF ChunkThrows
<1>2. throws' \in Nat /\ OrderInv'
  BY <1>1, ThrowsOrder
<1> DEFINE T == Text'
           s == d.text
<1>3. TypeInv' /\ EncodingInv' /\ line \in Seq(T) /\ printed \in Seq(Seq(T)) /\ s \in Seq(T)
  BY <1>0, <1>1, <1>2, ChunkStep
<1>4. TextInv'
  <2> DEFINE G == Seq(T)
  <2>1. CASE printed' = printed
    BY <1>0, <1>3, <2>1 DEF TextInv
  <2>2. ASSUME HasEol(s), NEW lines \in Prefixes(WriteToConsole(BeforeEol(s))), printed' = printed \o lines
        PROVE  TextInv'
    <3> HIDE DEF T, s
    <3>1. WriteToConsole(BeforeEol(s)) \in Seq(G) /\ printed \in Seq(G)
      BY <1>3, <2>2, WriteText
    <3> HIDE DEF G
    <3>2. printed \o lines \in Seq(G)
      BY <3>1, PrefixTyped
    <3> QED BY <1>0, <1>3, <2>2, <3>2 DEF TextInv, T, G
  <2> QED BY <1>0, <2>1, <2>2
<1> QED BY <1>2, <1>3, <1>4 DEF Inv

LEMMA PrintsAgainInv == Inv /\ PrintsAgain => Inv'
<1> SUFFICES ASSUME Inv, PrintsAgain PROVE Inv'
  OBVIOUS
<1>0. PICK d \in Decoded(ChunkEnd) :
        /\ HasEol(d.text) /\ encoding' = d.type /\ line' = AfterEol(d.text)
        /\ \/ printed' = printed \o WriteToConsole(line) \o WriteToConsole(BeforeEol(d.text))
           \/ \E lines \in Prefixes(WriteToConsole(line \o BeforeEol(d.text))) :
                printed' = printed \o lines \o WriteToConsole(line \o BeforeEol(d.text))
                                   \o WriteToConsole(BeforeEol(d.text))
  BY DEF PrintsAgain
<1>1. /\ reader = "read" /\ size > offset /\ offset' = ChunkEnd /\ CutsChar /\ reader' = "read"
      /\ throws' = throws + 1 /\ UNCHANGED <<file, size, start, wasBomRead, ends, bomFailed>>
  BY DEF PrintsAgain
<1>2. throws' \in Nat /\ OrderInv'
  BY <1>1, ThrowsOrder
<1> DEFINE T == Text'
           s == d.text
           G == Seq(T)
           w == WriteToConsole(BeforeEol(s))
           x == WriteToConsole(line \o BeforeEol(s))
           y == WriteToConsole(line)
<1>3. TypeInv' /\ EncodingInv' /\ line \in Seq(T) /\ printed \in Seq(Seq(T)) /\ s \in Seq(T)
  BY <1>0, <1>1, <1>2, ChunkStep
<1>4. AfterEol(s) \in G /\ w \in Seq(G) /\ x \in Seq(G) /\ y \in Seq(G) /\ printed \in Seq(G)
  <2> HIDE DEF T, s
  <2>1. /\ AfterEol(s) \in Seq(T) /\ WriteToConsole(BeforeEol(s)) \in Seq(Seq(T))
        /\ WriteToConsole(line \o BeforeEol(s)) \in Seq(Seq(T))
    BY <1>0, <1>3, WriteText DEF s
  <2>2. WriteToConsole(line) \in Seq(Seq(T))
    BY <1>3, WriteSeq
  <2> QED BY <1>3, <2>1, <2>2
<1>5. /\ line' = AfterEol(s)
      /\ \/ printed' = (printed \o y) \o w
         \/ \E lines \in Prefixes(x) : printed' = ((printed \o lines) \o x) \o w
  BY <1>0
<1>6. TextInv'
  <2> HIDE DEF G, w, x, y, s
  <2>1. CASE printed' = (printed \o y) \o w
    <3>1. printed' \in Seq(G)
      BY <1>4, <2>1
    <3> QED BY <1>4, <1>5, <3>1 DEF TextInv, G
  <2>2. ASSUME NEW lines \in Prefixes(x), printed' = ((printed \o lines) \o x) \o w PROVE TextInv'
    <3>1. lines \in Seq(G)
      BY <1>4, PrefixTyped
    <3>2. printed' \in Seq(G)
      BY <1>4, <2>2, <3>1
    <3> QED BY <1>4, <1>5, <3>2 DEF TextInv, G
  <2> QED BY <1>5, <2>1, <2>2
<1> QED BY <1>2, <1>3, <1>6 DEF Inv

\* The line and the rest of the chunk that are printed, one behind the other.
Rest(pr, l, s) ==
  \/ HasEol(s) /\ pr = printed \o WriteToConsole(l \o BeforeEol(s)) \o WriteToConsole(AfterEol(s))
  \/ pr = printed \o WriteToConsole(l) \o WriteToConsole(s)

IsRest(pr, l, s, a, c) ==
  /\ pr = (printed \o WriteToConsole(a)) \o WriteToConsole(c)
  /\ \/ a = l /\ c = s
     \/ HasEol(s) /\ a = l \o BeforeEol(s) /\ c = AfterEol(s)

LEMMA RestIs ==
  ASSUME NEW T, NEW l, NEW s, NEW pr, l \in Seq(T), s \in Seq(T), Rest(pr, l, s)
  PROVE  \E a \in Seq(T) : \E c \in Seq(T) : IsRest(pr, l, s, a, c)
<1> USE DEF Rest, IsRest
<1>1. CASE HasEol(s) /\ pr = printed \o WriteToConsole(l \o BeforeEol(s)) \o WriteToConsole(AfterEol(s))
  <2>1. BeforeEol(s) \in Seq(T) /\ AfterEol(s) \in Seq(T)
    BY <1>1, ChunkParts
  <2>2. l \o BeforeEol(s) \in Seq(T)
    BY <2>1
  <2> QED BY <1>1, <2>1, <2>2
<1>2. CASE pr = printed \o WriteToConsole(l) \o WriteToConsole(s)
  BY <1>2
<1> QED BY <1>1, <1>2

LEMMA PrintsRestInv == Inv /\ PrintsRest => Inv'
<1> SUFFICES ASSUME Inv, PrintsRest PROVE Inv'
  OBVIOUS
<1>0. PICK d \in Decoded(ChunkEnd) :
        /\ encoding' = d.type /\ line' = <<>>
        /\ \/ /\ HasEol(d.text)
              /\ printed' = printed \o WriteToConsole(line \o BeforeEol(d.text))
                                    \o WriteToConsole(AfterEol(d.text))
           \/ printed' = printed \o WriteToConsole(line) \o WriteToConsole(d.text)
  BY DEF PrintsRest
<1>1. /\ reader = "read" /\ size > offset /\ offset' = ChunkEnd /\ CutsChar /\ reader' = "read"
      /\ throws' = throws + 1 /\ UNCHANGED <<file, size, start, wasBomRead, ends, bomFailed>>
  BY DEF PrintsRest
<1>2. throws' \in Nat /\ OrderInv'
  BY <1>1, ThrowsOrder
<1> DEFINE T == Text'
           s == d.text
<1>3. TypeInv' /\ EncodingInv' /\ line \in Seq(T) /\ printed \in Seq(Seq(T)) /\ s \in Seq(T)
  BY <1>0, <1>1, <1>2, ChunkStep
<1>4. TextInv'
  <2> HIDE DEF T, s
  <2>1. PICK a \in Seq(T) : \E c \in Seq(T) : IsRest(printed', line, s, a, c)
    <3>1. Rest(printed', line, s)
      BY <1>0 DEF Rest, s
    <3> QED BY <1>3, <3>1, RestIs
  <2>2. PICK c \in Seq(T) : printed' = (printed \o WriteToConsole(a)) \o WriteToConsole(c)
    BY <2>1 DEF IsRest
  <2>3. printed \o WriteToConsole(a) \in Seq(Seq(T))
    BY <1>3, WriteText
  <2>4. (printed \o WriteToConsole(a)) \o WriteToConsole(c) \in Seq(Seq(T))
    BY <2>3, WriteText
  <2>5. line' \in Seq(T)
    BY <1>0
  <2> QED BY <2>2, <2>4, <2>5 DEF TextInv, T
<1> QED BY <1>2, <1>3, <1>4 DEF Inv

LEMMA LastThrowsInv == Inv /\ LastThrows => Inv'
<1> SUFFICES ASSUME Inv, LastThrows PROVE Inv'
  OBVIOUS
<1>0. /\ reader' = "ended" /\ throws' = throws + 1
      /\ UNCHANGED <<file, size, start, offset, encoding, wasBomRead, line, ends, cut, bomFailed>>
  BY DEF LastThrows
<1>1. Bytes' = Bytes
  BY <1>0, BytesStay
<1>2. throws' \in Nat /\ OrderInv'
  BY <1>0, ThrowsOrder
<1>3. TypeInv'
  BY <1>0, <1>1, <1>2 DEF Inv, TypeInv, EndsIn
<1>4. EncodingInv'
  <2>1. EncodingInv /\ (EndsIn(Bytes, offset)' <=> EndsIn(Bytes, offset)) /\ (Named' <=> Named)
    BY <1>0, <1>1 DEF Inv, EndsIn, Named
  <2> QED BY <1>0, <2>1 DEF EncodingInv
<1>5. TextInv'
  <2> DEFINE T == Text
             G == Seq(T)
             w == WriteToConsole(line)
  <2>1. PICK lines \in Prefixes(w) : printed' = printed \o lines
    BY DEF LastThrows
  <2>2. line \in Seq(T) /\ printed \in Seq(G) /\ Text' = T
    BY <1>0 DEF Inv, TextInv, Text, Letters, Clean, Sound, Mistaken
  <2> HIDE DEF T
  <2>3. w \in Seq(G)
    BY <2>2, WriteSeq
  <2> HIDE DEF G, w
  <2>4. printed' \in Seq(G)
    BY <2>1, <2>2, <2>3, PrefixTyped
  <2> QED BY <1>0, <2>2, <2>4 DEF TextInv, G
<1> QED BY <1>2, <1>3, <1>4, <1>5 DEF Inv

LEMMA StepInv == Inv /\ [Next]_vars => Inv'
BY OpensInv, OpenThrowsInv, LastThrowsInv, ReadsChunkInv, ReadsBeforeStringInv, ChunkThrowsInv, PrintsAgainInv, PrintsRestInv,
   ReadsNothingInv, PrintsLastInv, WritesInv, StutterInv DEF Next, ReadLogFile

(***************************************************************************)
(* The invariant holds: at any time the file is printed up to some place,  *)
(* and the line under way is what was read after it, if no exception was   *)
(* thrown and the text is taken for what it is (ReadLogFile).              *)
(***************************************************************************)
THEOREM Invariant == Spec => []Inv
BY InitInv, StepInv, PTL DEF Spec

(***************************************************************************)
(* Whatever the file and the size of a chunk, a BOM that could be read     *)
(* decides the encoding, and text that is taken for what it is is garbled  *)
(* only if a chunk ends inside a character or it is ANSI (ReadLogFile,     *)
(* FileTypeFromBuffer, ConvertStringToUTF16).                              *)
(***************************************************************************)
THEOREM GarbledCorrect == Spec => []GarbledOnlyIfCut
BY Invariant, InvGarbled, PTL

(***************************************************************************)
(* However a file is written, and read in chunks, no character of a text   *)
(* that can be read is lost, printed twice or moved while no exception is  *)
(* thrown and bytes are not taken for UTF-16 or the reverse, and lines are *)
(* broken only where they may be (ReadLogFile, WriteToConsole).            *)
(***************************************************************************)
THEOREM LinesCorrect == Spec => []LinesInOrder
BY Invariant, InvLines, PTL

(***************************************************************************)
(* Nothing is skipped.  What a text shows are the places of its            *)
(* characters, other than the ends of lines, which are never printed.      *)
(***************************************************************************)
Shown(m) == {m[n].at : n \in {k \in 1 .. Len(m) : m[k].c \notin {"lf", "cr"}}}

LEMMA ShownIs ==
  ASSUME NEW m, NEW n \in 1 .. Len(m), m[n].c \notin {"lf", "cr"}
  PROVE  m[n].at \in Shown(m)
BY DEF Shown

LEMMA ShownConcat ==
  ASSUME NEW T, NEW x \in Seq(T), NEW y \in Seq(T)
  PROVE  Shown(x \o y) = Shown(x) \cup Shown(y)
<1> DEFINE z == x \o y
           X == Len(x)
           Y == Len(y)
<1>1. /\ Len(z) = X + Y /\ X \in Nat /\ Y \in Nat
      /\ \A i \in 1 .. X : z[i] = x[i]
      /\ \A i \in X + 1 .. X + Y : z[i] = y[i - X]
  BY Concat
<1> HIDE DEF z, X, Y
<1>2. ASSUME NEW n \in 1 .. X PROVE n \in 1 .. Len(z) /\ z[n] = x[n]
  BY <1>1
<1>3. ASSUME NEW n \in 1 .. Y PROVE X + n \in 1 .. Len(z) /\ z[X + n] = y[n]
  <2> DEFINE i == X + n
  <2>1. i \in X + 1 .. X + Y /\ i - X = n /\ i \in 1 .. Len(z)
    BY <1>1
  <2> HIDE DEF i
  <2> QED BY <1>1, <2>1 DEF i
<1>4. Shown(x) \subseteq Shown(z)
  BY <1>2 DEF Shown, X
<1>5. Shown(y) \subseteq Shown(z)
  BY <1>3 DEF Shown, Y
<1>6. ASSUME NEW n \in 1 .. Len(z), z[n].c \notin {"lf", "cr"} PROVE z[n].at \in Shown(x) \cup Shown(y)
  <2>1. CASE n <= X
    <3>1. n \in 1 .. X /\ z[n] = x[n]
      BY <1>1, <2>1
    <3> QED BY <1>6, <3>1, ShownIs DEF X
  <2>2. CASE n > X
    <3> DEFINE j == n - X
    <3>1. j \in 1 .. Y /\ z[n] = y[j]
      BY <1>1, <2>2
    <3> HIDE DEF j
    <3> QED BY <1>6, <3>1, ShownIs DEF Y
  <2> QED BY <1>1, <2>1, <2>2
<1>7. Shown(z) \subseteq Shown(x) \cup Shown(y)
  BY <1>6 DEF Shown
<1> QED BY <1>4, <1>5, <1>7 DEF z

LEMMA ShownLines ==
  ASSUME NEW T, NEW x \in Seq(Seq(T)), NEW y \in Seq(Seq(T))
  PROVE  /\ x \o y \in Seq(Seq(T))
         /\ Shown(FlattenSeq(x \o y)) = Shown(FlattenSeq(x)) \cup Shown(FlattenSeq(y))
<1>1. FlattenSeq(x \o y) = FlattenSeq(x) \o FlattenSeq(y)
  BY FlatConcat
<1>2. FlattenSeq(x) \in Seq(T) /\ FlattenSeq(y) \in Seq(T)
  BY FlatIs
<1>3. Shown(FlattenSeq(x) \o FlattenSeq(y)) = Shown(FlattenSeq(x)) \cup Shown(FlattenSeq(y))
  BY <1>2, ShownConcat
<1> DEFINE G == Seq(T)
<1>4. x \o y \in Seq(G)
  <2>1. x \in Seq(G) /\ y \in Seq(G)
    OBVIOUS
  <2> HIDE DEF G
  <2> QED BY <2>1
<1> QED BY <1>1, <1>3, <1>4

\* All of it is printed, if there is no zero.
LEMMA ShownWritten ==
  ASSUME NEW T, NoZeros(T), NEW m \in Seq(T)
  PROVE  /\ WriteToConsole(m) \in Seq(Seq(T))
         /\ Shown(m) \subseteq Shown(FlattenSeq(WriteToConsole(m)))
<1> DEFINE w == FlattenSeq(WriteToConsole(m))
<1>1. ASSUME NEW n \in 1 .. Len(m), m[n].c \notin {"lf", "cr"} PROVE m[n].at \in Shown(w)
  <2>1. PICK x \in 1 .. Len(w) : w[x] = m[n]
    BY <1>1, NoZerosIn, WriteHas
  <2> HIDE DEF w
  <2> QED BY <1>1, <2>1, ShownIs
<1> HIDE DEF w
<1>2. Shown(m) \subseteq Shown(w)
  BY <1>1 DEF Shown
<1> QED BY <1>2, WriteSeq DEF w

\* What is not before the last end of line is behind it.
LEMMA ShownParts ==
  ASSUME NEW T, NEW s \in Seq(T), HasEol(s)
  PROVE  Shown(s) \subseteq Shown(BeforeEol(s)) \cup Shown(AfterEol(s))
<1> DEFINE n == LastEol(s)
           L == Len(s)
           u == BeforeEol(s)
           v == AfterEol(s)
<1>1. n \in 1 .. L /\ v = SubSeq(s, n + 1, L) /\ L \in Nat
  BY EolIs
<1>2. PICK z \in 0 .. n - 1 : u = SubSeq(s, 1, z) /\ \A k \in z + 1 .. n : IsEol(s[k])
  BY EolIs
<1> HIDE DEF n
<1> DEFINE p == n + 1
<1>3. p \in 1 .. L + 1 /\ L \in p - 1 .. L /\ p = n + 1 /\ 1 \in 1 .. L + 1 /\ z \in 1 - 1 .. L /\ (z + 1) - 1 = z
  BY <1>1, <1>2
<1> HIDE DEF p
<1>4. Len(u) = (z + 1) - 1 /\ \A i \in 1 .. (z + 1) - 1 : u[i] = s[(1 - 1) + i]
  BY <1>2, <1>3, PartOf
<1>5. Len(v) = (L + 1) - p /\ \A i \in 1 .. (L + 1) - p : v[i] = s[(p - 1) + i]
  BY <1>1, <1>3, PartOf
<1> HIDE DEF u, v
<1>6. ASSUME NEW i \in 1 .. L, s[i].c \notin {"lf", "cr"} PROVE s[i].at \in Shown(u) \cup Shown(v)
  <2>1. CASE i \in 1 .. z
    <3>1. i \in 1 .. Len(u) /\ i \in 1 .. (z + 1) - 1 /\ (1 - 1) + i = i
      BY <1>3, <1>4, <2>1
    <3>2. u[i] = s[i]
      BY <1>4, <3>1
    <3> QED BY <1>6, <3>1, <3>2, ShownIs
  <2>2. CASE i \in z + 1 .. n
    BY <1>2, <1>6, <2>2 DEF IsEol
  <2>3. CASE i \in p .. L
    <3> DEFINE j == i - n
    <3>1. j \in 1 .. (L + 1) - p /\ (p - 1) + j = i
      BY <1>1, <1>3, <2>3
    <3> HIDE DEF j
    <3>2. v[j] = s[i] /\ j \in 1 .. Len(v)
      BY <1>5, <3>1
    <3> QED BY <1>6, <3>2, ShownIs
  <2> QED BY <1>1, <1>2, <1>3, <2>1, <2>2, <2>3
<1>7. Shown(s) \subseteq Shown(u) \cup Shown(v)
  BY <1>6 DEF Shown, L
<1> QED BY <1>7 DEF u, v

(***************************************************************************)
(* A chunk of whole characters shows each letter of it, if it is taken for *)
(* UTF-16 when it is, and only then.                                       *)
(***************************************************************************)
Texts(b, e) == {i \in b + 1 .. e : Bytes[i].k = 1 /\ Bytes[i].c = "text"}

LEMMA ShownUTF16 ==
  ASSUME file \in Files, NEW from \in Nat \ {0}, NEW to \in from - 1 .. Len(Bytes),
         EndsIn(Bytes, from - 1), EndsIn(Bytes, to), file.encoding \in Multibyte, NEW type
  PROVE  Texts(from - 1, to) \subseteq Shown(FromUTF16(type, from, to))
<1> DEFINE B == Bytes
           enc == file.encoding
           b == from - 1
           s == FromUTF16(type, from, to)
           N == ((to - from) + 1) \div 2
           X(i) == IF type = file.encoding /\ Begins(i) THEN Bytes[i].c ELSE "?"
<1>1. IsLayout(B, enc) /\ enc \in Multibyte
  BY BytesLaid
<1>2. \A i \in 1 .. Len(B) : WholeAt(B, enc, i) /\ B[i].of = 2
  <2>1. \A i \in 1 .. Len(B) : WholeAt(B, enc, i)
    BY <1>1 DEF IsLayout
  <2>2. \A c : Width(enc, c) = 2
    BY <1>1 DEF Width
  <2> HIDE DEF B, enc
  <2> QED BY <2>1, <2>2 DEF WholeAt
<1>3. b \in Nat /\ to \in b .. Len(B) /\ EndsIn(B, b) /\ EndsIn(B, to) /\ b + 1 = from /\ Len(B) \in Nat
  BY <1>1 DEF IsLayout
<1>4. s = [n \in 1 .. N |-> Char(X(from + 2 * (n - 1)), from + 2 * (n - 1))]
  BY DEF FromUTF16
<1>5. SUFFICES ASSUME NEW i \in b + 1 .. to, B[i].k = 1, B[i].c = "text"
               PROVE  i \in Shown(s)
  BY DEF Texts
<1>6. i \in 1 .. Len(B) /\ X(i) \notin {"lf", "cr"}
  <2>1. i \in 1 .. Len(B)
    BY <1>3
  <2>2. X(i) \in {"?", "text"}
    BY <1>5
  <2> HIDE DEF X
  <2> QED BY <2>1, <2>2
<1> HIDE DEF B, enc, b, s, N, X
<1>7. ASSUME NEW j \in 0 .. Len(B), EndsIn(B, j) PROVE \E m \in Nat : j = 2 * m
  <2>1. CASE j = 0
    BY <2>1
  <2>2. CASE j # 0
    <3>1. j \in 1 .. Len(B) /\ WholeAt(B, enc, j) /\ B[j].of = 2
      BY <1>2, <1>3, <2>2
    <3>2. PICK m \in Nat : Before(B, j) = 2 * m
      BY <1>1, <3>1 DEF WholeAt
    <3>3. B[j].k = 2
      BY <1>7, <2>2, <3>1 DEF EndsIn
    <3>4. j = 2 * (m + 1) /\ m + 1 \in Nat
      BY <1>3, <3>1, <3>2, <3>3 DEF Before
    <3> QED BY <3>4
  <2> QED BY <2>1, <2>2
<1>8. b \in 0 .. Len(B) /\ to \in 0 .. Len(B)
  BY <1>3
<1>9. PICK x \in Nat : b = 2 * x
  BY <1>3, <1>7, <1>8
<1>10. PICK y \in Nat : to = 2 * y
  BY <1>3, <1>7, <1>8
<1>11. PICK m \in Nat : i = 2 * m + 1
  <2>1. WholeAt(B, enc, i)
    BY <1>2, <1>6
  <2>2. PICK m \in Nat : Before(B, i) = 2 * m
    BY <1>1, <2>1 DEF WholeAt
  <2>3. i - 1 = 2 * m
    BY <1>5, <2>2 DEF Before
  <2>4. i = 2 * m + 1
    BY <1>6, <2>3
  <2> QED BY <2>4
<1> DEFINE n == (m - x) + 1
<1>12. x <= m /\ m + 1 <= y
  BY <1>3, <1>5, <1>9, <1>10, <1>11
<1>13. N = y - x
  <2>1. (to - from) + 1 = 2 * (y - x)
    BY <1>3, <1>9, <1>10
  <2> DEFINE h == y - x
  <2>2. h \in Nat
    BY <1>12
  <2> HIDE DEF h
  <2>3. (2 * h) \div 2 = h
    BY <2>2
  <2> QED BY <2>1, <2>3 DEF N, h
<1>14. n \in 1 .. N /\ from + 2 * (n - 1) = i
  BY <1>3, <1>9, <1>11, <1>12, <1>13
<1> HIDE DEF n
<1>15. Len(s) = N /\ s[n] = Char(X(i), i)
  <2>1. N \in Nat
    BY <1>12, <1>13
  <2> QED BY <1>4, <1>14, <2>1
<1>16. s[n].at = i /\ s[n].c = X(i)
  BY <1>15 DEF Char
<1> QED BY <1>6, <1>14, <1>15, <1>16, ShownIs

LEMMA ShownUTF8 ==
  ASSUME file \in Files, NEW from \in Nat \ {0}, NEW to \in from - 1 .. Len(Bytes),
         file.encoding \notin Multibyte
  PROVE  Texts(from - 1, to) \subseteq Shown(FromUTF8(from, to))
<1> DEFINE f == [n \in 1 .. (to - from) + 1 |-> ByteOfUTF8(from + (n - 1), from, to)]
           N == to - (from - 1)
           b == from - 1
           T == PieceIn(Bytewise, from, to)
           s == FromUTF8(from, to)
<1>1. /\ \A n \in 1 .. N :
           \/ f[n] = <<Char("?", b + n)>>
           \/ f[n] = IF Bytes[b + n].k = 1 THEN <<Char(Bytes[b + n].c, b + n)>> ELSE <<>>
      /\ \A n \in 1 .. N : f[n] \in Seq(T)
      /\ Joined(f, N) = s /\ N \in Nat
  <2> DEFINE g == f
  <2>1. g = f
    OBVIOUS
  <2> HIDE DEF g
  <2> QED BY <2>1, UTF8Parts
<1> HIDE DEF f, T, s
<1> SUFFICES ASSUME NEW i \in b + 1 .. to, Bytes[i].k = 1, Bytes[i].c = "text" PROVE i \in Shown(s)
  BY DEF Texts, s
<1> DEFINE n == i - b
<1>2. n \in 1 .. N /\ b + n = i
  OBVIOUS
<1> HIDE DEF n, N, b
<1>3. f[n] = <<Char("?", i)>> \/ f[n] = <<Char("text", i)>>
  BY <1>1, <1>2
<1>4. PICK c \in {"?", "text"} : f[n] = <<Char(c, i)>>
  BY <1>3
<1> DEFINE d == Char(c, i)
<1>5. d.at = i /\ d.c \notin {"lf", "cr"}
  BY DEF Char
<1> HIDE DEF d
<1>6. IsParts(f, N, T) /\ f[n] = <<d>>
  BY <1>1, <1>4 DEF IsParts, d
<1>7. Has(Joined(f, N), d)
  BY <1>2, <1>6, JoinedItem
<1>8. PICK x \in 1 .. Len(s) : s[x] = d
  BY <1>1, <1>7 DEF Has
<1> QED BY <1>5, <1>8, ShownIs

LEMMA ShownANSI ==
  ASSUME file \in Files, NEW from \in Nat \ {0}, NEW to \in from - 1 .. Len(Bytes),
         file.encoding \notin Multibyte
  PROVE  Texts(from - 1, to) \subseteq Shown(FromANSI(from, to))
<1> DEFINE s == FromANSI(from, to)
           b == from - 1
<1> SUFFICES ASSUME NEW i \in b + 1 .. to, Bytes[i].k = 1, Bytes[i].c = "text" PROVE i \in Shown(s)
  BY DEF Texts
<1>1. Len(s) = to - b /\ \A n \in 1 .. to - b : s[n] = Char(Alone(b + n), b + n) /\ b + n \in from .. to
  BY OfANSI
<1> DEFINE n == i - b
<1>2. n \in 1 .. to - b /\ b + n = i
  OBVIOUS
<1> HIDE DEF n, s, b
<1>3. n \in 1 .. Len(s) /\ s[n] = Char(Alone(i), i) /\ i \in from .. to
  BY <1>1, <1>2
<1>4. Alone(i) = "text"
  BY <1>3, AloneIs
<1>5. s[n].at = i /\ s[n].c \notin {"lf", "cr"}
  BY <1>3, <1>4 DEF Char
<1> QED BY <1>3, <1>5, ShownIs

LEMMA ShownDecoded ==
  ASSUME file \in Files, NEW from \in Nat \ {0}, NEW to \in from - 1 .. Len(Bytes), NEW type,
         EndsIn(Bytes, from - 1), EndsIn(Bytes, to),
         type \in Multibyte <=> file.encoding \in Multibyte
  PROVE  Texts(from - 1, to) \subseteq Shown(ConvertStringToUTF16(type, from, to))
<1>1. CASE type \in Multibyte
  <2>1. ConvertStringToUTF16(type, from, to) = FromUTF16(type, from, to)
    BY <1>1 DEF ConvertStringToUTF16, Multibyte
  <2> QED BY <1>1, <2>1, ShownUTF16
<1>2. CASE type = "UTF8"
  <2>1. ConvertStringToUTF16(type, from, to) = FromUTF8(from, to)
    BY <1>2 DEF ConvertStringToUTF16, Multibyte
  <2>2. type \notin Multibyte
    BY <1>2 DEF Multibyte
  <2> QED BY <2>1, <2>2, ShownUTF8
<1>3. CASE type \notin Multibyte /\ type # "UTF8"
  <2>1. ConvertStringToUTF16(type, from, to) = FromANSI(from, to)
    BY <1>3 DEF ConvertStringToUTF16
  <2> QED BY <1>3, <2>1, ShownANSI
<1> QED BY <1>1, <1>2, <1>3

\* The letters of a chunk, of which only the BOM is skipped.
LEMMA ShownChunk ==
  ASSUME TypeInv, EncodingInv, NEW to \in offset + 1 .. size, NEW d \in Decoded(to),
         EndsIn(Bytes, offset), EndsIn(Bytes, to),
         d.type # Unknown => (d.type \in Multibyte <=> file.encoding \in Multibyte)
  PROVE  Texts(offset, to) \subseteq Shown(d.text)
<1> DEFINE p == From(to) - 1
           w == Skipped(to)
<1>1. /\ From(to) \in Nat \ {0} /\ to \in From(to) - 1 .. Len(Bytes)
      /\ p = offset + w /\ EndsIn(Bytes, p)
  BY FromIs
<1>2. w \in 0 .. to - offset /\ (w # 0 => offset = 0 /\ NoText(Bytes, 0, w))
  BY SkippedIs
<1>3. d.type \in Types(to) /\ d.text = ConvertStringToUTF16(d.type, From(to), to)
  BY DecodedIs
<1>4. d.type \in Multibyte <=> file.encoding \in Multibyte
  BY <1>3, SoundType
<1>5. Texts(p, to) \subseteq Shown(d.text)
  BY <1>1, <1>3, <1>4, ShownDecoded DEF TypeInv
<1> HIDE DEF p, w
<1>6. Texts(offset, to) \subseteq Texts(p, to)
  <2> SUFFICES ASSUME NEW i \in offset + 1 .. to, Bytes[i].k = 1, Bytes[i].c = "text" PROVE i \in p + 1 .. to
    BY DEF Texts
  <2>1. CASE w = 0
    BY <1>1, <2>1, Sizes
  <2>2. CASE w # 0
    <3>1. offset = 0 /\ p = w /\ NoText(Bytes, 0, w) /\ w \in Nat
      BY <1>1, <1>2, <2>2, Sizes
    <3>2. ~(i \in 0 + 1 .. w)
      BY <3>1 DEF NoText
    <3> QED BY <3>1, <3>2, Sizes
  <2> QED BY <2>1, <2>2
<1> QED BY <1>5, <1>6

(***************************************************************************)
(* What the offset has passed is printed, or on the line under way.        *)
(***************************************************************************)
ShownInv == Sound => Texts(start, offset) \subseteq Shown(Output) \cup Shown(line)

LEMMA TextsNext ==
  ASSUME TypeInv, NEW to \in offset .. size
  PROVE  Texts(start, to) = Texts(start, offset) \cup Texts(offset, to)
<1>1. start + 1 .. to = (start + 1 .. offset) \cup (offset + 1 .. to)
  BY Sizes
<1> QED BY <1>1 DEF Texts

LEMMA InvSkipped == Inv /\ ShownInv => NothingSkipped
<1> SUFFICES ASSUME Inv, ShownInv, Sound, NEW i \in start + 1 .. offset, Begins(i), Bytes[i].c = "text"
             PROVE  \E n \in 1 .. Len(Output \o line) : (Output \o line)[n].at = i
  BY DEF NothingSkipped, Sound
<1>1. Output \in Seq(Text) /\ line \in Seq(Text)
  BY TextPiece DEF Inv, TextInv
<1>2. i \in Shown(Output) \cup Shown(line)
  BY DEF ShownInv, Texts, Begins
<1>3. i \in Shown(Output \o line)
  BY <1>1, <1>2, ShownConcat
<1> QED BY <1>3 DEF Shown

\* A chunk is handled when all that its bytes show is printed, or on the line.
LEMMA ShownNext ==
  ASSUME Inv, ShownInv, Sound', size > offset, NEW d \in Decoded(ChunkEnd), CutsChar,
         encoding' = d.type, UNCHANGED <<file, start>>,
         Shown(Output) \cup Shown(line) \subseteq Shown(Output') \cup Shown(line'),
         \/ offset' = offset
         \/ offset' = ChunkEnd /\ Shown(d.text) \subseteq Shown(Output') \cup Shown(line')
  PROVE  ShownInv'
<1> DEFINE to == ChunkEnd
<1>1. TypeInv /\ EncodingInv /\ to \in offset + 1 .. size
  BY ChunkIs DEF Inv
<1>2. Bytes' = Bytes
  BY BytesStay
<1>3. Texts(start, offset)' = Texts(start, offset')
  BY <1>2 DEF Texts
<1>4. SUFFICES Texts(start, offset') \subseteq Shown(Output') \cup Shown(line')
  BY <1>3 DEF ShownInv
<1>5. /\ Sound /\ EndsIn(Bytes, to) /\ EndsIn(Bytes, offset)
      /\ d.type # Unknown => (d.type \in Multibyte <=> file.encoding \in Multibyte)
  <2>1. ~cut /\ EndsIn(Bytes, to) /\ EndsIn(Bytes, offset)
    BY <1>1 DEF CutsChar, EndsChar, EndsIn, EncodingInv, Sound
  <2>2. d.type # Unknown => (d.type \in Multibyte <=> file.encoding \in Multibyte)
    BY DEF Sound, Mistaken
  <2>3. d.type \in Types(to)
    BY <1>1, DecodedIs
  <2>4. encoding' = encoding \/ encoding = Unknown
    BY <2>3 DEF Types
  <2> QED BY <2>1, <2>2, <2>4 DEF Sound, Mistaken
<1>6. Texts(start, offset) \subseteq Shown(Output') \cup Shown(line')
  BY <1>5 DEF ShownInv
<1>7. CASE offset' = offset
  BY <1>6, <1>7
<1>8. CASE offset' = to /\ Shown(d.text) \subseteq Shown(Output') \cup Shown(line')
  <2> HIDE DEF to
  <2>1. Texts(offset, to) \subseteq Shown(d.text)
    BY <1>1, <1>5, ShownChunk DEF to
  <2>2. to \in offset .. size
    BY <1>1, Sizes
  <2>3. Texts(start, to) = Texts(start, offset) \cup Texts(offset, to)
    BY <1>1, <2>2, TextsNext
  <2> QED BY <1>6, <1>8, <2>1, <2>3
<1> QED BY <1>7, <1>8

\* What the pieces of a chunk come to when they are printed: all of it, or the line before it.
LEMMA ShownHandled ==
  ASSUME NEW T, NoZeros(T), NEW l \in Seq(T), NEW s \in Seq(T), HasEol(s)
  PROVE  /\ WriteToConsole(l) \in Seq(Seq(T)) /\ Shown(l) \subseteq Shown(FlattenSeq(WriteToConsole(l)))
         /\ WriteToConsole(s) \in Seq(Seq(T)) /\ Shown(s) \subseteq Shown(FlattenSeq(WriteToConsole(s)))
         /\ WriteToConsole(BeforeEol(s)) \in Seq(Seq(T))
         /\ Shown(s) \subseteq Shown(FlattenSeq(WriteToConsole(BeforeEol(s)))) \cup Shown(AfterEol(s))
         /\ WriteToConsole(l \o BeforeEol(s)) \in Seq(Seq(T))
         /\ Shown(l) \cup Shown(s) \subseteq
              Shown(FlattenSeq(WriteToConsole(l \o BeforeEol(s)))) \cup Shown(AfterEol(s))
<1> DEFINE u == BeforeEol(s)
           lu == l \o u
<1>1. u \in Seq(T)
  BY ChunkParts
<1>2. Shown(s) \subseteq Shown(u) \cup Shown(AfterEol(s))
  BY ShownParts
<1> HIDE DEF u
<1>3. lu \in Seq(T) /\ Shown(lu) = Shown(l) \cup Shown(u)
  BY <1>1, ShownConcat
<1> HIDE DEF lu
<1>4. /\ WriteToConsole(u) \in Seq(Seq(T)) /\ Shown(u) \subseteq Shown(FlattenSeq(WriteToConsole(u)))
      /\ WriteToConsole(lu) \in Seq(Seq(T)) /\ Shown(lu) \subseteq Shown(FlattenSeq(WriteToConsole(lu)))
  BY <1>1, <1>3, ShownWritten
<1>5. /\ WriteToConsole(l) \in Seq(Seq(T)) /\ Shown(l) \subseteq Shown(FlattenSeq(WriteToConsole(l)))
      /\ WriteToConsole(s) \in Seq(Seq(T)) /\ Shown(s) \subseteq Shown(FlattenSeq(WriteToConsole(s)))
  BY ShownWritten
<1>6. Shown(s) \subseteq Shown(FlattenSeq(WriteToConsole(u))) \cup Shown(AfterEol(s))
  BY <1>2, <1>4
<1>7. Shown(l) \cup Shown(s) \subseteq Shown(FlattenSeq(WriteToConsole(lu))) \cup Shown(AfterEol(s))
  BY <1>2, <1>3, <1>4
<1> QED BY <1>4, <1>5, <1>6, <1>7 DEF lu, u

\* A chunk that is handled, and what is kept of the text so far, in the types of the next state.
LEMMA ChunkTexts ==
  ASSUME Inv, reader = "read", size > offset, NEW d \in Decoded(ChunkEnd), encoding' = d.type,
         CutsChar, UNCHANGED <<file, size, start, wasBomRead, bomFailed>>, throws' \in Nat, Sound',
         offset' = ChunkEnd \/ (offset' = offset /\ reader' # "read")
  PROVE  /\ line \in Seq(Text') /\ printed \in Seq(Seq(Text')) /\ d.text \in Seq(Text')
         /\ NoZeros(Text')
<1>1. line \in Seq(Text') /\ printed \in Seq(Seq(Text')) /\ d.text \in Seq(Text')
  BY ChunkStep
<1>2. Letters' \subseteq Written \cup {"?"}
  BY DEF Letters
<1>3. "nul" \notin Written \cup {"?"}
  BY DEF Written
<1>4. NoZeros(Text')
  BY <1>2, <1>3 DEF Text, PieceIn, NoZeros
<1> QED BY <1>1, <1>4

LEMMA ReadsChunkShown == Inv /\ ShownInv /\ ReadsChunk => ShownInv'
<1> SUFFICES ASSUME Inv, ShownInv, ReadsChunk, Sound' PROVE ShownInv'
  BY DEF ShownInv
<1>0. PICK d \in Decoded(ChunkEnd) : encoding' = d.type /\ Handles(d.text)
  BY DEF ReadsChunk
<1>1. /\ reader = "read" /\ size > offset /\ offset' = ChunkEnd /\ CutsChar
      /\ UNCHANGED <<file, size, start, reader, wasBomRead, ends, throws, bomFailed>>
  BY DEF ReadsChunk
<1> DEFINE T == Text'
           s == d.text
           u == BeforeEol(s)
           w == WriteToConsole(line \o u)
<1>2. line \in Seq(T) /\ printed \in Seq(Seq(T)) /\ s \in Seq(T) /\ NoZeros(T)
  <2>1. throws' \in Nat
    BY <1>1 DEF Inv, TypeInv
  <2> QED BY <1>0, <1>1, <2>1, ChunkTexts
<1>3. Shown(Output) \cup Shown(line) \cup Shown(s) \subseteq Shown(Output') \cup Shown(line')
  <2> HIDE DEF T, s
  <2>1. CASE HasEol(s)
    <3>1. w \in Seq(Seq(T)) /\ Shown(line) \cup Shown(s) \subseteq Shown(FlattenSeq(w)) \cup Shown(AfterEol(s))
      BY <1>2, <2>1, ShownHandled
    <3>2. printed' = printed \o w /\ line' = AfterEol(s)
      BY <1>0, <2>1 DEF Handles, s
    <3> HIDE DEF w
    <3>3. Shown(FlattenSeq(printed \o w)) = Shown(FlattenSeq(printed)) \cup Shown(FlattenSeq(w))
      BY <1>2, <3>1, ShownLines
    <3>4. Shown(Output') = Shown(Output) \cup Shown(FlattenSeq(w))
      BY <3>2, <3>3 DEF Output
    <3> QED BY <3>1, <3>2, <3>4
  <2>2. CASE ~HasEol(s)
    <3>1. printed' = printed /\ line' = line \o s
      BY <1>0, <2>2 DEF Handles, s
    <3>2. Shown(line \o s) = Shown(line) \cup Shown(s)
      BY <1>2, ShownConcat
    <3>3. Output' = Output
      BY <3>1 DEF Output
    <3> QED BY <3>1, <3>2, <3>3
  <2> QED BY <2>1, <2>2
<1> QED BY <1>0, <1>1, <1>3, ShownNext

LEMMA ReadsBeforeStringShown == Inv /\ ShownInv /\ ReadsBeforeString => ShownInv'
<1> SUFFICES ASSUME Inv, ShownInv, ReadsBeforeString, Sound' PROVE ShownInv'
  BY DEF ShownInv
<1>0. PICK d \in Decoded(ChunkEnd) :
        /\ HasEol(d.text) /\ encoding' = d.type /\ line' = AfterEol(d.text)
        /\ printed' = printed \o WriteToConsole(line) \o WriteToConsole(d.text)
  BY DEF ReadsBeforeString
<1>1. /\ reader = "read" /\ size > offset /\ offset' = ChunkEnd /\ CutsChar /\ reader' = "read"
      /\ throws' = throws + 1 /\ UNCHANGED <<file, size, start, wasBomRead, ends, bomFailed>>
  BY DEF ReadsBeforeString
<1> DEFINE T == Text'
           s == d.text
           y == WriteToConsole(line)
           z == WriteToConsole(s)
<1>2. line \in Seq(T) /\ printed \in Seq(Seq(T)) /\ s \in Seq(T) /\ NoZeros(T)
  <2>1. throws' \in Nat
    BY <1>1 DEF Inv, TypeInv
  <2> QED BY <1>0, <1>1, <2>1, ChunkTexts
<1>3. Shown(Output) \cup Shown(line) \cup Shown(s) \subseteq Shown(Output')
  <2> HIDE DEF T
  <2>1. /\ y \in Seq(Seq(T)) /\ Shown(line) \subseteq Shown(FlattenSeq(y))
        /\ z \in Seq(Seq(T)) /\ Shown(s) \subseteq Shown(FlattenSeq(z))
    BY <1>2, ShownWritten
  <2>2. printed' = (printed \o y) \o z
    BY <1>0
  <2> HIDE DEF s, y, z
  <2>3. /\ printed \o y \in Seq(Seq(T))
        /\ Shown(FlattenSeq(printed \o y)) = Shown(FlattenSeq(printed)) \cup Shown(FlattenSeq(y))
    BY <1>2, <2>1, ShownLines
  <2> DEFINE p == printed \o y
  <2>4. p \in Seq(Seq(T)) /\ printed' = p \o z
        /\ Shown(FlattenSeq(p)) = Shown(FlattenSeq(printed)) \cup Shown(FlattenSeq(y))
    BY <2>2, <2>3
  <2> HIDE DEF p
  <2>5. Shown(FlattenSeq(p \o z)) = Shown(FlattenSeq(p)) \cup Shown(FlattenSeq(z))
    BY <2>1, <2>4, ShownLines
  <2>6. Shown(Output') = Shown(Output) \cup Shown(FlattenSeq(y)) \cup Shown(FlattenSeq(z))
    BY <2>4, <2>5 DEF Output
  <2> QED BY <2>1, <2>6
<1> QED BY <1>0, <1>1, <1>3, ShownNext

\* An exception prints some of the lines of a chunk, or none, and leaves the offset where it is.
LEMMA ChunkThrowsShown == Inv /\ ShownInv /\ ChunkThrows => ShownInv'
<1> SUFFICES ASSUME Inv, ShownInv, ChunkThrows, Sound' PROVE ShownInv'
  BY DEF ShownInv
<1>0. PICK d \in Decoded(ChunkEnd) :
        /\ encoding' = d.type /\ line' = line
        /\ \/ printed' = printed
           \/ /\ HasEol(d.text)
              /\ \E lines \in Prefixes(WriteToConsole(BeforeEol(d.text))) : printed' = printed \o lines
  BY DEF ChunkThrows
<1>1. /\ reader = "read" /\ size > offset /\ offset' = offset /\ CutsChar /\ reader' = "last"
      /\ throws' = throws + 1 /\ UNCHANGED <<file, size, start, wasBomRead, ends, bomFailed>>
  BY DEF ChunkThrows
<1> DEFINE T == Text'
           s == d.text
<1>2. line \in Seq(T) /\ printed \in Seq(Seq(T)) /\ s \in Seq(T) /\ NoZeros(T)
  <2>1. throws' \in Nat
    BY <1>1 DEF Inv, TypeInv
  <2> QED BY <1>0, <1>1, <2>1, ChunkTexts
<1>3. Shown(Output) \subseteq Shown(Output')
  <2> HIDE DEF T, s
  <2>1. CASE printed' = printed
    BY <2>1 DEF Output
  <2>2. ASSUME HasEol(s), NEW lines \in Prefixes(WriteToConsole(BeforeEol(s))), printed' = printed \o lines
        PROVE  Shown(Output) \subseteq Shown(Output')
    <3>1. lines \in Seq(Seq(T))
      <4> DEFINE G == Seq(T)
      <4>1. WriteToConsole(BeforeEol(s)) \in Seq(G)
        BY <1>2, <2>2, ShownHandled
      <4> HIDE DEF G
      <4>2. lines \in Seq(G)
        BY <2>2, <4>1, PrefixTyped
      <4> QED BY <4>2 DEF G
    <3>2. Shown(FlattenSeq(printed \o lines)) = Shown(FlattenSeq(printed)) \cup Shown(FlattenSeq(lines))
      BY <1>2, <3>1, ShownLines
    <3> QED BY <2>2, <3>2 DEF Output
  <2> QED BY <1>0, <2>1, <2>2 DEF s
<1> QED BY <1>0, <1>1, <1>3, ShownNext

LEMMA PrintsAgainShown == Inv /\ ShownInv /\ PrintsAgain => ShownInv'
<1> SUFFICES ASSUME Inv, ShownInv, PrintsAgain, Sound' PROVE ShownInv'
  BY DEF ShownInv
<1>0. PICK d \in Decoded(ChunkEnd) :
        /\ HasEol(d.text) /\ encoding' = d.type /\ line' = AfterEol(d.text)
        /\ \/ printed' = printed \o WriteToConsole(line) \o WriteToConsole(BeforeEol(d.text))
           \/ \E lines \in Prefixes(WriteToConsole(line \o BeforeEol(d.text))) :
                printed' = printed \o lines \o WriteToConsole(line \o BeforeEol(d.text))
                                   \o WriteToConsole(BeforeEol(d.text))
  BY DEF PrintsAgain
<1>1. /\ reader = "read" /\ size > offset /\ offset' = ChunkEnd /\ CutsChar /\ reader' = "read"
      /\ throws' = throws + 1 /\ UNCHANGED <<file, size, start, wasBomRead, ends, bomFailed>>
  BY DEF PrintsAgain
<1> DEFINE T == Text'
           s == d.text
           v == AfterEol(s)
           w == WriteToConsole(BeforeEol(s))
           x == WriteToConsole(line \o BeforeEol(s))
           y == WriteToConsole(line)
<1>2. line \in Seq(T) /\ printed \in Seq(Seq(T)) /\ s \in Seq(T) /\ NoZeros(T)
  <2>1. throws' \in Nat
    BY <1>1 DEF Inv, TypeInv
  <2> QED BY <1>0, <1>1, <2>1, ChunkTexts
<1>3. /\ y \in Seq(Seq(T)) /\ Shown(line) \subseteq Shown(FlattenSeq(y))
      /\ w \in Seq(Seq(T)) /\ Shown(s) \subseteq Shown(FlattenSeq(w)) \cup Shown(v)
      /\ x \in Seq(Seq(T)) /\ Shown(line) \cup Shown(s) \subseteq Shown(FlattenSeq(x)) \cup Shown(v)
      /\ Shown(line) \subseteq Shown(FlattenSeq(x))
  <2> HIDE DEF T
  <2>1. HasEol(s)
    BY <1>0
  <2> HIDE DEF s
  <2>2. BeforeEol(s) \in Seq(T)
    BY <1>2, <2>1, ChunkParts
  <2>3. Shown(line) \subseteq Shown(FlattenSeq(x))
    <3> DEFINE a == line \o BeforeEol(s)
    <3>1. a \in Seq(T) /\ Shown(line) \subseteq Shown(a)
      BY <1>2, <2>2, ShownConcat
    <3> HIDE DEF a
    <3>2. Shown(a) \subseteq Shown(FlattenSeq(WriteToConsole(a)))
      BY <1>2, <3>1, ShownWritten
    <3> QED BY <3>1, <3>2 DEF a
  <2> QED BY <1>2, <2>1, <2>3, ShownHandled
<1>4. /\ line' = v
      /\ \/ printed' = (printed \o y) \o w
         \/ \E lines \in Prefixes(x) : printed' = ((printed \o lines) \o x) \o w
  BY <1>0
<1>5. ASSUME NEW p \in Seq(Seq(T)), NEW q \in Seq(Seq(T)), Shown(line) \subseteq Shown(FlattenSeq(q)),
             Shown(Output) \subseteq Shown(FlattenSeq(p)), printed' = (p \o q) \o w
      PROVE  Shown(Output) \cup Shown(line) \cup Shown(s) \subseteq Shown(Output') \cup Shown(line')
  <2> HIDE DEF T, s, v, w
  <2>1. p \o q \in Seq(Seq(T)) /\ Shown(FlattenSeq(p \o q)) = Shown(FlattenSeq(p)) \cup Shown(FlattenSeq(q))
    BY <1>5, ShownLines
  <2> DEFINE r == p \o q
  <2>2. r \in Seq(Seq(T)) /\ Shown(FlattenSeq(r)) = Shown(FlattenSeq(p)) \cup Shown(FlattenSeq(q))
        /\ printed' = r \o w
    BY <1>5, <2>1
  <2> HIDE DEF r
  <2>3. Shown(FlattenSeq(r \o w)) = Shown(FlattenSeq(r)) \cup Shown(FlattenSeq(w))
    BY <1>3, <2>2, ShownLines
  <2>4. Shown(Output') = Shown(FlattenSeq(p)) \cup Shown(FlattenSeq(q)) \cup Shown(FlattenSeq(w))
    BY <2>2, <2>3 DEF Output
  <2> QED BY <1>3, <1>4, <1>5, <2>4
<1>6. Shown(Output) \cup Shown(line) \cup Shown(s) \subseteq Shown(Output') \cup Shown(line')
  <2> HIDE DEF T, s, v, w, x, y
  <2>1. CASE printed' = (printed \o y) \o w
    BY <1>2, <1>3, <1>5, <2>1 DEF Output
  <2>2. ASSUME NEW lines \in Prefixes(x), printed' = ((printed \o lines) \o x) \o w
        PROVE  Shown(Output) \cup Shown(line) \cup Shown(s) \subseteq Shown(Output') \cup Shown(line')
    <3> DEFINE p == printed \o lines
    <3>1. lines \in Seq(Seq(T))
      <4> DEFINE G == Seq(T)
      <4>1. x \in Seq(G)
        BY <1>3
      <4> HIDE DEF G
      <4>2. lines \in Seq(G)
        BY <2>2, <4>1, PrefixTyped
      <4> QED BY <4>2 DEF G
    <3>2. p \in Seq(Seq(T)) /\ Shown(FlattenSeq(p)) = Shown(FlattenSeq(printed)) \cup Shown(FlattenSeq(lines))
      BY <1>2, <3>1, ShownLines
    <3>3. printed' = (p \o x) \o w
      BY <2>2
    <3> HIDE DEF p
    <3>4. Shown(Output) \subseteq Shown(FlattenSeq(p))
      BY <3>2 DEF Output
    <3> QED BY <1>3, <1>5, <3>2, <3>3, <3>4
  <2> QED BY <1>4, <2>1, <2>2
<1> QED BY <1>0, <1>1, <1>6, ShownNext

LEMMA PrintsRestShown == Inv /\ ShownInv /\ PrintsRest => ShownInv'
<1> SUFFICES ASSUME Inv, ShownInv, PrintsRest, Sound' PROVE ShownInv'
  BY DEF ShownInv
<1>0. PICK d \in Decoded(ChunkEnd) :
        /\ encoding' = d.type
        /\ \/ /\ HasEol(d.text)
              /\ printed' = printed \o WriteToConsole(line \o BeforeEol(d.text))
                                    \o WriteToConsole(AfterEol(d.text))
           \/ printed' = printed \o WriteToConsole(line) \o WriteToConsole(d.text)
  BY DEF PrintsRest
<1>1. /\ reader = "read" /\ size > offset /\ offset' = ChunkEnd /\ CutsChar /\ reader' = "read"
      /\ throws' = throws + 1 /\ UNCHANGED <<file, size, start, wasBomRead, ends, bomFailed>>
  BY DEF PrintsRest
<1> DEFINE T == Text'
           s == d.text
<1>2. line \in Seq(T) /\ printed \in Seq(Seq(T)) /\ s \in Seq(T) /\ NoZeros(T)
  <2>2. throws' \in Nat
    BY <1>1 DEF Inv, TypeInv
  <2> QED BY <1>0, <1>1, <2>2, ChunkTexts
<1>3. Shown(Output) \cup Shown(line) \cup Shown(s) \subseteq Shown(Output')
  <2> HIDE DEF T, s
  <2>1. PICK a \in Seq(T) : \E c \in Seq(T) : IsRest(printed', line, s, a, c)
    <3>1. Rest(printed', line, s)
      BY <1>0 DEF Rest, s
    <3> QED BY <1>2, <3>1, RestIs
  <2>2. PICK c \in Seq(T) :
          /\ printed' = (printed \o WriteToConsole(a)) \o WriteToConsole(c)
          /\ \/ a = line /\ c = s
             \/ HasEol(s) /\ a = line \o BeforeEol(s) /\ c = AfterEol(s)
    BY <2>1 DEF IsRest
  <2>3. Shown(line) \cup Shown(s) \subseteq Shown(a) \cup Shown(c)
    <3>1. CASE a = line /\ c = s
      BY <3>1
    <3>2. CASE HasEol(s) /\ a = line \o BeforeEol(s) /\ c = AfterEol(s)
      <4>1. BeforeEol(s) \in Seq(T) /\ Shown(s) \subseteq Shown(BeforeEol(s)) \cup Shown(c)
        BY <1>2, <3>2, ChunkParts, ShownParts
      <4>2. Shown(a) = Shown(line) \cup Shown(BeforeEol(s))
        BY <1>2, <3>2, <4>1, ShownConcat
      <4> QED BY <4>1, <4>2
    <3> QED BY <2>2, <3>1, <3>2
  <2> DEFINE y == WriteToConsole(a)
             z == WriteToConsole(c)
             p == printed \o y
  <2>4. /\ y \in Seq(Seq(T)) /\ Shown(a) \subseteq Shown(FlattenSeq(y))
        /\ z \in Seq(Seq(T)) /\ Shown(c) \subseteq Shown(FlattenSeq(z))
        /\ printed' = p \o z
    BY <1>2, <2>2, ShownWritten
  <2> HIDE DEF y, z
  <2>5. p \in Seq(Seq(T)) /\ Shown(FlattenSeq(p)) = Shown(FlattenSeq(printed)) \cup Shown(FlattenSeq(y))
    BY <1>2, <2>4, ShownLines
  <2> HIDE DEF p
  <2>6. Shown(FlattenSeq(p \o z)) = Shown(FlattenSeq(p)) \cup Shown(FlattenSeq(z))
    BY <2>4, <2>5, ShownLines
  <2>7. Shown(Output') = Shown(Output) \cup Shown(FlattenSeq(y)) \cup Shown(FlattenSeq(z))
    BY <2>4, <2>5, <2>6 DEF Output
  <2> QED BY <2>3, <2>4, <2>7
<1> QED BY <1>0, <1>1, <1>3, ShownNext

\* The line under way is printed as it is, and is empty when a read begins.
LEMMA PrintsLastShown == Inv /\ ShownInv /\ PrintsLast => ShownInv'
<1> SUFFICES ASSUME Inv, ShownInv, PrintsLast, Sound' PROVE ShownInv'
  BY DEF ShownInv
<1>1. /\ printed' = printed \o WriteToConsole(line)
      /\ UNCHANGED <<file, start, offset, encoding, cut>> /\ Sound
  BY DEF PrintsLast, Sound, Mistaken
<1>2. line \in Seq(Text) /\ printed \in Seq(Seq(Text)) /\ NoZeros(Text)
  BY <1>1, SoundText DEF Inv, TextInv
<1> DEFINE y == WriteToConsole(line)
           T == Text
<1> HIDE DEF T
<1>3. y \in Seq(Seq(T)) /\ Shown(line) \subseteq Shown(FlattenSeq(y))
  BY <1>2, ShownWritten DEF T
<1> HIDE DEF y
<1>4. Shown(FlattenSeq(printed \o y)) = Shown(FlattenSeq(printed)) \cup Shown(FlattenSeq(y))
  BY <1>2, <1>3, ShownLines DEF T
<1>5. Shown(Output) \cup Shown(line) \subseteq Shown(Output')
  BY <1>1, <1>3, <1>4 DEF Output, y
<1>6. Bytes' = Bytes
  BY <1>1, BytesStay
<1>7. Texts(start, offset)' = Texts(start, offset)
  BY <1>1, <1>6 DEF Texts
<1> QED BY <1>1, <1>5, <1>7 DEF ShownInv

\* What the last exception leaves on the line stays there.
LEMMA LastThrowsShown == Inv /\ ShownInv /\ LastThrows => ShownInv'
<1> SUFFICES ASSUME Inv, ShownInv, LastThrows, Sound' PROVE ShownInv'
  BY DEF ShownInv
<1> DEFINE T == Text
           G == Seq(T)
           w == WriteToConsole(line)
<1>1. PICK lines \in Prefixes(w) : printed' = printed \o lines
  BY DEF LastThrows
<1>2. UNCHANGED <<file, start, offset, encoding, cut, line>> /\ Sound
  BY DEF LastThrows, Sound, Mistaken
<1>3. line \in Seq(T) /\ printed \in Seq(G)
  BY DEF Inv, TextInv
<1> HIDE DEF T
<1>4. w \in Seq(G)
  BY <1>3, WriteSeq
<1> HIDE DEF G, w
<1>5. lines \in Seq(G)
  BY <1>1, <1>4, PrefixTyped
<1>6. Shown(FlattenSeq(printed \o lines)) = Shown(FlattenSeq(printed)) \cup Shown(FlattenSeq(lines))
  BY <1>3, <1>5, ShownLines DEF G
<1>7. Shown(Output) \subseteq Shown(Output')
  BY <1>1, <1>6 DEF Output
<1>8. Bytes' = Bytes
  BY <1>2, BytesStay
<1>9. Texts(start, offset)' = Texts(start, offset)
  BY <1>2, <1>8 DEF Texts
<1> QED BY <1>2, <1>7, <1>9 DEF ShownInv

LEMMA ShownStays ==
  ASSUME ShownInv, UNCHANGED <<file, start, offset, encoding, printed, line, cut>>
  PROVE  ShownInv'
<1>1. Bytes' = Bytes
  BY BytesStay
<1> QED BY <1>1 DEF ShownInv, Texts, Output, Sound, Mistaken

LEMMA ShownStep == Inv /\ ShownInv /\ [Next]_vars => ShownInv'
<1> SUFFICES ASSUME Inv, ShownInv, [Next]_vars PROVE ShownInv'
  OBVIOUS
<1>1. CASE Opens
  <2>1. line' = line
    BY <1>1 DEF Opens, Inv, OrderInv
  <2> QED BY <1>1, <2>1, ShownStays DEF Opens
<1>2. CASE ReadsChunk
  BY <1>2, ReadsChunkShown
<1>3. CASE ReadsBeforeString
  BY <1>3, ReadsBeforeStringShown
<1>4. CASE ChunkThrows
  BY <1>4, ChunkThrowsShown
<1>5. CASE PrintsAgain
  BY <1>5, PrintsAgainShown
<1>6. CASE ReadsNothing
  BY <1>6, ShownStays DEF ReadsNothing
<1>7. CASE PrintsLast
  BY <1>7, PrintsLastShown
<1>8. CASE Writes
  BY <1>8, ShownStays DEF Writes
<1>9. CASE PrintsRest
  BY <1>9, PrintsRestShown
<1>10. CASE UNCHANGED vars
  BY <1>10, ShownStays DEF vars
<1>11. CASE OpenThrows
  BY <1>11, ShownStays DEF OpenThrows
<1>12. CASE LastThrows
  BY <1>12, LastThrowsShown
<1> QED BY <1>1, <1>2, <1>3, <1>4, <1>5, <1>6, <1>7, <1>8, <1>9, <1>10, <1>11, <1>12 DEF Next, ReadLogFile

LEMMA InitShown == Init => Inv /\ ShownInv
<1> SUFFICES ASSUME Init PROVE Inv /\ ShownInv
  OBVIOUS
<1>1. Inv /\ offset = start
  BY InitInv DEF Init
<1>2. start + 1 .. offset = {}
  BY <1>1, Sizes DEF Inv
<1> QED BY <1>1, <1>2 DEF ShownInv, Texts

(***************************************************************************)
(* Whatever exceptions end a read, and wherever, the offset passes nothing *)
(* that is not printed or on the line under way, which is all that is lost *)
(* if the thread ends; unless a chunk has ended inside a character, or     *)
(* bytes were taken for UTF-16 that are not, or the reverse (ReadLogFile). *)
(***************************************************************************)
THEOREM NothingSkippedCorrect == Spec => []NothingSkipped
<1>1. Inv /\ ShownInv /\ [Next]_vars => (Inv /\ ShownInv)'
  BY StepInv, ShownStep
<1> QED BY <1>1, InitShown, InvSkipped, PTL DEF Spec
=============================================================================
