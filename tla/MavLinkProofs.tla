--------------------------- MODULE MavLinkProofs ---------------------------
(***************************************************************************)
(* Whatever the number of senders and messages, the connection and the      *)
(* bytes: the provider is a fifo that may lose messages, and a byte taken   *)
(* for the beginning of a frame costs one intact message at most.           *)
(*                                                                          *)
(* The fifo's invariant says that there is a message wherever one is taken, *)
(* and counts those still before the mutex, so that the next number is a    *)
(* message's.  The parser's says that it waits for a frame after a struct   *)
(* that came whole and without a marker outside its magic; that it then     *)
(* takes the next one is an induction over the bytes.                       *)
(***************************************************************************)
EXTENDS MavLink, FiniteSetTheorems, SequenceTheorems, WellFoundedInduction, TLAPS

-----------------------------------------------------------------------------
(***************************************************************************)
(* Induction over the bytes of a struct.                                    *)
(***************************************************************************)
\* The order of the numbers is well-founded.
LEMMA LessWF == IsWellFoundedOn({ss \in Nat \X Nat : ss[1] < ss[2]}, Nat)
  BY NatLessThanWellFounded DEF OpToRel

\* A set of numbers that holds 0 and the successor of each of its elements holds them all.
LEMMA SetInduction ==
  ASSUME NEW T, 0 \in T, \A n \in Nat : n \in T => n + 1 \in T
  PROVE  Nat \subseteq T
<1> DEFINE R == {ss \in Nat \X Nat : ss[1] < ss[2]}
           B == Nat \ T
<1> SUFFICES ASSUME B # {} PROVE FALSE
  OBVIOUS
<1>1. IsWellFoundedOn(R, Nat)
  BY LessWF
<1>2. B \subseteq Nat
  OBVIOUS
<1>3. PICK m \in B : \A y \in B : <<y, m>> \notin R
  <2> HIDE DEF B, R
  <2> QED BY <1>1, <1>2, WFMin
<1>4. m \in Nat /\ m # 0 /\ m - 1 \in Nat
  OBVIOUS
<1>5. <<m - 1, m>> \in R
  BY <1>4
<1>6. m - 1 \in T
  BY <1>3, <1>4, <1>5
<1> QED
  BY <1>4, <1>6

\* What ParseBytes does of one byte to all parsers, and where it begins.
Parse(ps, b) == {ParseChar(q, c, b.magic) : q \in ps, c \in b.values}
Start(p) == [at |-> p.at, left |-> p.left, v1 |-> p.v1, own |-> FALSE, got |-> FALSE]

\* g is FoldLeft's function of the sets of positions up to n.
Folds(g, p, bytes, n) ==
  g = [x \in SUBSET (1..n) |->
         IF x = {} THEN {Start(p)} ELSE Parse(g[x \ {Max(x)}], bytes[Max(x)])]

LEMMA MaxIsLast ==
  ASSUME NEW n \in Nat, NEW x \in SUBSET (1..(n + 1)), n + 1 \in x
  PROVE  Max(x) = n + 1
<1> DEFINE m == CHOOSE y \in x : \A z \in x : y >= z
<1>1. \A y \in x : n + 1 >= y
  OBVIOUS
<1>2. m \in x /\ \A z \in x : m >= z
  BY <1>1
<1>3. m = n + 1
  <2> HIDE DEF m
  <2> QED BY <1>1, <1>2
<1> QED BY <1>3 DEF Max

LEMMA FoldExists ==
  ASSUME NEW p, NEW bytes, NEW n \in Nat
  PROVE  \E g : Folds(g, p, bytes, n)
<1> DEFINE T == {k \in Nat : \E g : Folds(g, p, bytes, k)}
<1>1. 0 \in T
  <2> DEFINE g == [x \in SUBSET (1..0) |-> {Start(p)}]
  <2>1. \A x \in SUBSET (1..0) : x = {}
    OBVIOUS
  <2>2. Folds(g, p, bytes, 0)
    BY <2>1 DEF Folds
  <2> QED BY <2>2
<1>2. ASSUME NEW k \in Nat, k \in T
      PROVE  k + 1 \in T
  <2>1. PICK g : Folds(g, p, bytes, k)
    BY <1>2
  <2> DEFINE h == [x \in SUBSET (1..(k + 1)) |->
                     IF k + 1 \in x THEN Parse(g[x \ {k + 1}], bytes[k + 1]) ELSE g[x]]
             e == [x \in SUBSET (1..(k + 1)) |->
                     IF x = {} THEN {Start(p)} ELSE Parse(h[x \ {Max(x)}], bytes[Max(x)])]
  <2>2. ASSUME NEW x \in SUBSET (1..(k + 1)), k + 1 \in x
        PROVE  h[x] = e[x]
    <3>1. Max(x) = k + 1
      BY <2>2, MaxIsLast
    <3>2. x \ {k + 1} \in SUBSET (1..(k + 1)) /\ k + 1 \notin x \ {k + 1} /\ x # {}
      BY <2>2
    <3>3. h[x \ {k + 1}] = g[x \ {k + 1}]
      BY <3>2
    <3>4. h[x] = Parse(g[x \ {k + 1}], bytes[k + 1])
      BY <2>2
    <3>5. e[x] = Parse(h[x \ {Max(x)}], bytes[Max(x)])
      BY <3>2
    <3> HIDE DEF h, e
    <3> QED BY <3>1, <3>3, <3>4, <3>5
  <2>3. ASSUME NEW x \in SUBSET (1..(k + 1)), k + 1 \notin x
        PROVE  h[x] = e[x]
    <3>0. \A y \in 1..(k + 1) : y = k + 1 \/ y \in 1..k
      OBVIOUS
    <3>1. x \in SUBSET (1..k) /\ x \ {Max(x)} \in SUBSET (1..(k + 1))
      BY <2>3, <3>0
    <3>2. h[x] = g[x] /\ h[x \ {Max(x)}] = g[x \ {Max(x)}]
      BY <2>3, <3>1
    <3>3. g[x] = IF x = {} THEN {Start(p)} ELSE Parse(g[x \ {Max(x)}], bytes[Max(x)])
      BY <2>1, <3>1 DEF Folds
    <3>4. e[x] = IF x = {} THEN {Start(p)} ELSE Parse(h[x \ {Max(x)}], bytes[Max(x)])
      OBVIOUS
    <3> HIDE DEF h, e
    <3> QED BY <3>2, <3>3, <3>4
  <2>4. h = e
    <3> DEFINE D == SUBSET (1..(k + 1))
    <3>1. \A x \in D : h[x] = e[x]
      <4> HIDE DEF h, e
      <4> QED BY <2>2, <2>3
    <3>2. DOMAIN h = D /\ DOMAIN e = D
      OBVIOUS
    <3>3. h = [x \in DOMAIN h |-> h[x]] /\ e = [x \in DOMAIN e |-> e[x]]
      BY Zenon
    <3> HIDE DEF D, h, e
    <3> QED BY <3>1, <3>2, <3>3
  <2>5. Folds(h, p, bytes, k + 1)
    <3> HIDE DEF h
    <3> QED BY <2>4 DEF Folds
  <2> QED BY <2>5
<1>3. Nat \subseteq T
  <2> HIDE DEF T
  <2> QED BY <1>1, <1>2, SetInduction
<1> QED BY <1>3

\* ParseBytes goes through the bytes in turn: what holds of the parser at the start and
\* is handed on by every byte holds at the end.
LEMMA ParseInvariant ==
  ASSUME NEW p, NEW n \in Nat, NEW bytes, DOMAIN bytes = 1..n, NEW J,
         Start(p) \in J[0],
         \A i \in 1..n : \A q \in J[i - 1] : \A c \in bytes[i].values :
           ParseChar(q, c, bytes[i].magic) \in J[i]
  PROVE  ParseBytes(p, bytes) \subseteq J[n]
<1> DEFINE g == CHOOSE f : Folds(f, p, bytes, n)
<1>1. Folds(g, p, bytes, n)
  BY FoldExists
<1>2. ParseBytes(p, bytes) = g[1..n]
  BY DEF ParseBytes, FoldLeft, MapThenFoldSet, Folds, Parse, Start
<1> HIDE DEF g
<1> DEFINE T == {i \in Nat : i <= n => g[1..i] \subseteq J[i]}
<1>3. 0 \in T
  <2>1. 1..0 = {} /\ {} \in SUBSET (1..n)
    OBVIOUS
  <2>2. g[{}] = {Start(p)}
    BY <1>1, <2>1 DEF Folds
  <2> QED BY <2>1, <2>2
<1>4. ASSUME NEW i \in Nat, i \in T
      PROVE  i + 1 \in T
  <2> SUFFICES ASSUME i + 1 <= n
               PROVE  g[1..(i + 1)] \subseteq J[i + 1]
    OBVIOUS
  <2>1. Max(1..(i + 1)) = i + 1
    BY MaxIsLast
  <2>2. (1..(i + 1)) \ {i + 1} = 1..i
    OBVIOUS
  <2>3. 1..(i + 1) \in SUBSET (1..n) /\ 1..(i + 1) # {}
    <3>1. i + 1 \in 1..(i + 1)
      OBVIOUS
    <3>2. \A x \in 1..(i + 1) : x \in 1..n
      OBVIOUS
    <3> QED BY <3>1, <3>2
  <2>4. g[1..(i + 1)] = Parse(g[1..i], bytes[i + 1])
    BY <1>1, <2>1, <2>2, <2>3 DEF Folds
  <2>5. g[1..i] \subseteq J[i]
    BY <1>4
  <2>6. i + 1 \in 1..n /\ (i + 1) - 1 = i
    OBVIOUS
  <2> QED BY <2>4, <2>5, <2>6 DEF Parse
<1>5. Nat \subseteq T
  <2> HIDE DEF T
  <2> QED BY <1>3, <1>4, SetInduction
<1> QED BY <1>2, <1>5

-----------------------------------------------------------------------------
\* The bytes of a struct, one by one.
ByteOf(len, values, i) ==
  IF i = 3 THEN [values |-> {STX}, magic |-> TRUE]
  ELSE IF i = 4 THEN [values |-> {len}, magic |-> FALSE]
  ELSE IF i \in {5, 6} THEN [values |-> {0}, magic |-> FALSE]
  ELSE [values |-> values, magic |-> FALSE]

\* r is s with t after it.
Joins(S, r, s, t) ==
  /\ r \in Seq(S) /\ Len(r) = Len(s) + Len(t)
  /\ \A i \in 1..Len(s) : r[i] = s[i]
  /\ \A i \in 1..Len(t) : r[Len(s) + i] = t[i]

LEMMA Together ==
  ASSUME NEW S, NEW s \in Seq(S), NEW t \in Seq(S)
  PROVE  Joins(S, s \o t, s, t)
<1>1. Len(s) \in Nat /\ Len(t) \in Nat
  OBVIOUS
<1>2. /\ s \o t \in Seq(S) /\ Len(s \o t) = Len(s) + Len(t)
      /\ \A i \in 1..(Len(s) + Len(t)) :
           (s \o t)[i] = IF i <= Len(s) THEN s[i] ELSE t[i - Len(s)]
  BY ConcatProperties
<1>3. ASSUME NEW i \in 1..Len(t) PROVE (s \o t)[Len(s) + i] = t[i]
  <2>1. Len(s) + i \in 1..(Len(s) + Len(t)) /\ ~(Len(s) + i <= Len(s))
        /\ (Len(s) + i) - Len(s) = i
    BY <1>1
  <2> QED BY <1>2, <2>1
<1>4. ASSUME NEW i \in 1..Len(s) PROVE (s \o t)[i] = s[i]
  <2>1. i \in 1..(Len(s) + Len(t)) /\ i <= Len(s)
    BY <1>1
  <2> QED BY <1>2, <2>1
<1> QED BY <1>2, <1>3, <1>4 DEF Joins

LEMMA StretchIs ==
  ASSUME NEW n \in Nat, NEW values, NEW S, [values |-> values, magic |-> FALSE] \in S
  PROVE  /\ Stretch(n, values) \in Seq(S) /\ Len(Stretch(n, values)) = n
         /\ \A i \in 1..n : Stretch(n, values)[i] = [values |-> values, magic |-> FALSE]
  BY DEF Stretch

LEMMA StructIs ==
  ASSUME NEW len \in Byte, NEW values
  PROVE  /\ Struct(len, values) \in
              Seq([values: {values, {STX}, {len}, {0}}, magic: BOOLEAN])
         /\ Len(Struct(len, values)) = StructSize
         /\ \A i \in 1..StructSize : Struct(len, values)[i] = ByteOf(len, values, i)
<1> DEFINE S == [values: {values, {STX}, {len}, {0}}, magic: BOOLEAN]
           Magic == [values |-> {STX}, magic |-> TRUE]
           Plain(v) == [values |-> v, magic |-> FALSE]
           m == <<Magic>>
           k == Stretch(1, {len})
           z == Stretch(2, {0})
           w == Stretch(6 + len + 2, values)
           e == Stretch(2, values)
           x == Stretch(MaxByte - len + 7 + 15, values)
           a == m \o k
           b == a \o z
           f == b \o w
           d == e \o f
           s == d \o x
           W == 6 + len + 2
           X == MaxByte - len + 7 + 15
<1>0. /\ len \in Nat /\ MaxByte \in Nat /\ W \in Nat /\ X \in Nat
      /\ 4 + W \in Nat /\ 2 + (4 + W) \in Nat
      /\ (2 + (4 + W)) + X = StructSize /\ StructSize \in Nat
      /\ W > 0
  BY MavFrameAssumption DEF Byte, StructSize
<1>1. m \in Seq(S) /\ Len(m) = 1 /\ m[1] = Magic
  OBVIOUS
<1>2. k \in Seq(S) /\ Len(k) = 1 /\ k[1] = Plain({len})
  <2>1. Plain({len}) \in S
    OBVIOUS
  <2>2. k \in Seq(S) /\ Len(k) = 1 /\ \A i \in 1..1 : k[i] = Plain({len})
    BY <2>1, StretchIs
  <2> QED BY <2>2
<1>3. z \in Seq(S) /\ Len(z) = 2 /\ z[1] = Plain({0}) /\ z[2] = Plain({0})
  <2>1. Plain({0}) \in S
    OBVIOUS
  <2>2. z \in Seq(S) /\ Len(z) = 2 /\ \A i \in 1..2 : z[i] = Plain({0})
    BY <2>1, StretchIs
  <2> QED BY <2>2
<1>4. w \in Seq(S) /\ Len(w) = W /\ \A i \in 1..W : w[i] = Plain(values)
  BY <1>0, StretchIs
<1>5. e \in Seq(S) /\ Len(e) = 2 /\ e[1] = Plain(values) /\ e[2] = Plain(values)
  <2>1. Plain(values) \in S
    OBVIOUS
  <2>2. e \in Seq(S) /\ Len(e) = 2 /\ \A i \in 1..2 : e[i] = Plain(values)
    BY <2>1, StretchIs
  <2> QED BY <2>2
<1>6. x \in Seq(S) /\ Len(x) = X /\ \A i \in 1..X : x[i] = Plain(values)
  BY <1>0, StretchIs
<1> HIDE DEF m, k, z, w, e, x, S, Magic, Plain, W, X
<1>7. a \in Seq(S) /\ Len(a) = 2 /\ a[1] = m[1] /\ a[1 + 1] = k[1]
  <2>1. m \in Seq(S) /\ k \in Seq(S)
    BY <1>1, <1>2
  <2>2. Joins(S, a, m, k)
    BY <2>1, Together
  <2> HIDE DEF a
  <2> QED BY <1>0, <1>1, <1>2, <2>2 DEF Joins
<1> HIDE DEF a
<1>8. b \in Seq(S) /\ Len(b) = 4 /\ b[1] = a[1] /\ b[2] = a[2] /\ b[2 + 1] = z[1] /\ b[2 + 2] = z[2]
  <2>1. a \in Seq(S) /\ z \in Seq(S)
    BY <1>3, <1>7
  <2>2. Joins(S, b, a, z)
    BY <2>1, Together
  <2> HIDE DEF b
  <2> QED BY <1>0, <1>3, <1>7, <2>2 DEF Joins
<1> HIDE DEF b
<1>9. /\ f \in Seq(S) /\ Len(f) = (4 + W) /\ \A i \in 1..4 : f[i] = b[i]
      /\ \A i \in 1..W : f[4 + i] = w[i]
  <2>1. b \in Seq(S) /\ w \in Seq(S)
    BY <1>4, <1>8
  <2>2. Joins(S, f, b, w)
    BY <2>1, Together
  <2> HIDE DEF f
  <2> QED BY <1>0, <1>4, <1>8, <2>2 DEF Joins
<1> HIDE DEF f
<1>10. /\ d \in Seq(S) /\ Len(d) = (2 + (4 + W)) /\ \A i \in 1..2 : d[i] = e[i]
       /\ \A i \in 1..(4 + W) : d[2 + i] = f[i]
  <2>1. e \in Seq(S) /\ f \in Seq(S)
    BY <1>5, <1>9
  <2>2. Joins(S, d, e, f)
    BY <2>1, Together
  <2> HIDE DEF d
  <2> QED BY <1>0, <1>5, <1>9, <2>2 DEF Joins
<1> HIDE DEF d
<1>11. /\ s \in Seq(S) /\ Len(s) = (2 + (4 + W)) + X /\ \A i \in 1..(2 + (4 + W)) : s[i] = d[i]
       /\ \A i \in 1..X : s[(2 + (4 + W)) + i] = x[i]
  <2>1. d \in Seq(S) /\ x \in Seq(S)
    BY <1>10, <1>6
  <2>2. Joins(S, s, d, x)
    BY <2>1, Together
  <2> HIDE DEF s
  <2> QED BY <1>0, <1>10, <1>6, <2>2 DEF Joins
<1> HIDE DEF s
<1>12. s[1] = Plain(values) /\ s[2] = Plain(values)
  <2>1. 1 \in 1..2 /\ 2 \in 1..2 /\ 1 \in 1..(2 + (4 + W)) /\ 2 \in 1..(2 + (4 + W))
    BY <1>0
  <2> QED BY <1>5, <1>10, <1>11, <2>1
<1>13. s[3] = Magic /\ s[4] = Plain({len}) /\ s[5] = Plain({0}) /\ s[6] = Plain({0})
  <2>1. ASSUME NEW i \in 1..4
        PROVE  s[2 + i] = b[i]
    <3>1. i \in 1..(4 + W) /\ 2 + i \in 1..(2 + (4 + W))
      BY <1>0
    <3> QED BY <1>9, <1>10, <1>11, <3>1
  <2>2. s[3] = b[1] /\ s[4] = b[2] /\ s[5] = b[3] /\ s[6] = b[4]
    <3>1. 2 + 1 = 3 /\ 2 + 2 = 4 /\ 2 + 3 = 5 /\ 2 + 4 = 6
      OBVIOUS
    <3> QED BY <2>1, <3>1
  <2>3. b[3] = z[1] /\ b[4] = z[2] /\ a[2] = k[1]
    BY <1>7, <1>8
  <2> QED BY <1>1, <1>2, <1>3, <1>7, <1>8, <2>2, <2>3
<1>14. ASSUME NEW i \in 7..StructSize
       PROVE  s[i] = Plain(values)
  <2>1. CASE i <= 2 + (4 + W)
    <3> DEFINE j == i - 6
    <3>1. j \in 1..W /\ 4 + j \in 1..(4 + W) /\ i \in 1..(2 + (4 + W)) /\ i = 2 + (4 + j)
      BY <1>0, <2>1
    <3> HIDE DEF j
    <3>2. s[i] = f[4 + j]
      BY <1>10, <1>11, <3>1
    <3> QED BY <1>4, <1>9, <3>1, <3>2
  <2>2. CASE i > 2 + (4 + W)
    <3> DEFINE j == i - (2 + (4 + W))
    <3>1. j \in 1..X /\ i = (2 + (4 + W)) + j
      BY <1>0, <2>2
    <3> HIDE DEF j
    <3> QED BY <1>6, <1>11, <3>1
  <2> QED BY <1>0, <2>1, <2>2
<1>15. ASSUME NEW i \in 1..StructSize
       PROVE  s[i] = ByteOf(len, values, i)
  <2>1. CASE i >= 7
    <3>1. s[i] = Plain(values)
      BY <1>0, <1>14, <2>1
    <3> QED BY <2>1, <3>1 DEF ByteOf, Plain
  <2>2. CASE i < 7
    <3>1. i \in {1, 2, 3, 4, 5, 6}
      BY <1>0, <2>2
    <3> QED BY <1>12, <1>13, <3>1 DEF ByteOf, Plain, Magic
  <2> QED BY <1>0, <2>1, <2>2
<1>16. Struct(len, values) = s
  <2>1. Frame(len, values) = f
    BY DEF Frame, m, a, b, f, k, z, w, Magic
  <2> QED BY <2>1 DEF Struct, e, d, s, x
<1> QED BY <1>0, <1>11, <1>15, <1>16 DEF S

-----------------------------------------------------------------------------
(***************************************************************************)
(* What the bytes make of the receiver's parser.                            *)
(***************************************************************************)
\* The parser with what the model's reader knows.
Knowing ==
  [at: {"IDLE", "STX"}, left: {0}, v1: BOOLEAN, own: BOOLEAN, got: BOOLEAN]
    \cup [at: {"LENGTH"}, left: Byte, v1: {FALSE}, own: BOOLEAN, got: BOOLEAN]
    \cup [at: {"BODY"}, left: 1..(MaxByte + 9), v1: BOOLEAN, own: BOOLEAN, got: BOOLEAN]

LEMMA StartKnows ==
  ASSUME NEW p \in Parsers
  PROVE  /\ Start(p) \in Knowing /\ Start(p).at = p.at /\ Start(p).left = p.left
         /\ Start(p).v1 = p.v1 /\ ~Start(p).own /\ ~Start(p).got
<1>1. CASE p \in [at: {"IDLE", "STX"}, left: {0}, v1: BOOLEAN]
  BY <1>1 DEF Start, Knowing
<1>2. CASE p \in [at: {"LENGTH"}, left: Byte, v1: {FALSE}]
  BY <1>2 DEF Start, Knowing
<1>3. CASE p \in [at: {"BODY"}, left: 1..(MaxByte + 9), v1: BOOLEAN]
  BY <1>3 DEF Start, Knowing
<1> QED BY <1>1, <1>2, <1>3 DEF Parsers

\* The steps of the parser, field by field.
BeginStep(q, c, magic, r) ==
  /\ r.at = IF c \in Markers THEN "STX" ELSE "IDLE"
  /\ r.v1 = (IF c \in Markers THEN c = STX_MAVLINK1 ELSE q.v1)
  /\ r.left = 0 /\ r.own = magic /\ r.got = q.got
LengthStep(q, c, r) ==
  /\ r.v1 = q.v1 /\ r.got = q.got
  /\ IF q.v1 THEN r.at = "BODY" /\ r.left = 4 + c + 2 /\ r.own = FALSE
     ELSE r.at = "LENGTH" /\ r.left = c /\ r.own = q.own
FlagsStep(q, c, r) ==
  /\ r.v1 = q.v1 /\ r.got = q.got
  /\ IF c \in IFLAG_MASK THEN r.at = "BODY" /\ r.left = 7 + q.left + 2 /\ r.own = q.own
     ELSE r.at = "IDLE" /\ r.left = 0 /\ r.own = FALSE
BodyStep(q, c, magic, r) ==
  /\ r.v1 = q.v1
  /\ IF q.left > 1 THEN r.at = "BODY" /\ r.left = q.left - 1 /\ r.own = q.own /\ r.got = q.got
     ELSE IF q.own THEN r.at = "IDLE" /\ r.left = 0 /\ r.own = FALSE /\ r.got = TRUE
     ELSE /\ r.at = IF c = STX THEN "STX" ELSE "IDLE"
          /\ r.left = 0 /\ r.own = magic /\ r.got = q.got

\* What a byte makes of a parser, and that it stays one.
StepOf(q, c, magic, r) ==
  /\ r \in Knowing
  /\ q.at = "IDLE" => BeginStep(q, c, magic, r)
  /\ q.at = "STX" => LengthStep(q, c, r)
  /\ q.at = "LENGTH" => FlagsStep(q, c, r)
  /\ q.at = "BODY" => BodyStep(q, c, magic, r)

LEMMA ParseStep ==
  ASSUME NEW q \in Knowing, NEW c \in Byte, NEW magic \in BOOLEAN
  PROVE  StepOf(q, c, magic, ParseChar(q, c, magic))
<1> DEFINE r == ParseChar(q, c, magic)
<1> USE MavFrameAssumption DEF StepOf
<1> SUFFICES StepOf(q, c, magic, r)
  OBVIOUS
<1>1. CASE q \in [at: {"IDLE"}, left: {0}, v1: BOOLEAN, own: BOOLEAN, got: BOOLEAN]
  <2>1. r = Begin(q, c, magic)
    BY <1>1 DEF ParseChar
  <2>2. r = [at |-> IF c \in Markers THEN "STX" ELSE "IDLE", left |-> 0,
             v1 |-> IF c \in Markers THEN c = STX_MAVLINK1 ELSE q.v1,
             own |-> magic, got |-> q.got]
    BY <1>1, <2>1 DEF Begin
  <2> HIDE DEF r
  <2> QED BY <1>1, <2>2 DEF BeginStep, Knowing
<1>2. CASE q \in [at: {"STX"}, left: {0}, v1: BOOLEAN, own: BOOLEAN, got: BOOLEAN]
  <2>1. r = Length(q, c)
    BY <1>2 DEF ParseChar
  <2>2. CASE q.v1
    <3>1. r = [at |-> "BODY", left |-> 4 + c + 2, v1 |-> q.v1, own |-> FALSE, got |-> q.got]
      BY <1>2, <2>1, <2>2 DEF Length
    <3>2. 4 + c + 2 \in 1..(MaxByte + 9)
      BY DEF Byte
    <3> HIDE DEF r
    <3> QED BY <1>2, <2>2, <3>1, <3>2 DEF LengthStep, Knowing
  <2>3. CASE ~q.v1
    <3>1. r = [at |-> "LENGTH", left |-> c, v1 |-> FALSE, own |-> q.own, got |-> q.got]
      BY <1>2, <2>1, <2>3 DEF Length
    <3> HIDE DEF r
    <3> QED BY <1>2, <2>3, <3>1 DEF LengthStep, Knowing
  <2> QED BY <2>2, <2>3
<1>3. CASE q \in [at: {"LENGTH"}, left: Byte, v1: {FALSE}, own: BOOLEAN, got: BOOLEAN]
  <2>1. r = Flags(q, c)
    BY <1>3 DEF ParseChar
  <2>2. CASE c \in IFLAG_MASK
    <3>1. r = [at |-> "BODY", left |-> 7 + q.left + 2, v1 |-> q.v1, own |-> q.own, got |-> q.got]
      BY <1>3, <2>1, <2>2 DEF Flags
    <3>2. 7 + q.left + 2 \in 1..(MaxByte + 9)
      BY <1>3 DEF Byte
    <3> HIDE DEF r
    <3> QED BY <1>3, <2>2, <3>1, <3>2 DEF FlagsStep, Knowing
  <2>3. CASE c \notin IFLAG_MASK
    <3>1. r = [at |-> "IDLE", left |-> 0, v1 |-> q.v1, own |-> FALSE, got |-> q.got]
      BY <1>3, <2>1, <2>3 DEF Flags
    <3> HIDE DEF r
    <3> QED BY <1>3, <2>3, <3>1 DEF FlagsStep, Knowing
  <2> QED BY <2>2, <2>3
<1>4. CASE q \in [at: {"BODY"}, left: 1..(MaxByte + 9), v1: BOOLEAN, own: BOOLEAN, got: BOOLEAN]
  <2>1. r = Body(q, c, magic)
    BY <1>4 DEF ParseChar
  <2>2. r = IF q.left > 1
            THEN [at |-> "BODY", left |-> q.left - 1, v1 |-> q.v1, own |-> q.own, got |-> q.got]
            ELSE IF q.own
            THEN [at |-> "IDLE", left |-> 0, v1 |-> q.v1, own |-> FALSE, got |-> TRUE]
            ELSE [at |-> IF c = STX THEN "STX" ELSE "IDLE", left |-> 0, v1 |-> q.v1,
                  own |-> magic, got |-> q.got]
    BY <1>4, <2>1 DEF Body
  <2> HIDE DEF r
  <2> QED BY <1>4, <2>2 DEF BodyStep, Knowing
<1>5. q \in [at: {"IDLE"}, left: {0}, v1: BOOLEAN, own: BOOLEAN, got: BOOLEAN]
      \/ q \in [at: {"STX"}, left: {0}, v1: BOOLEAN, own: BOOLEAN, got: BOOLEAN]
      \/ q \in [at: {"LENGTH"}, left: Byte, v1: {FALSE}, own: BOOLEAN, got: BOOLEAN]
      \/ q \in [at: {"BODY"}, left: 1..(MaxByte + 9), v1: BOOLEAN, own: BOOLEAN, got: BOOLEAN]
  BY DEF Knowing
<1> QED BY <1>1, <1>2, <1>3, <1>4, <1>5

LEMMA KnowingIs ==
  ASSUME NEW r \in Knowing
  PROVE  /\ r.at \in {"IDLE", "STX", "LENGTH", "BODY"} /\ r.left \in Nat
         /\ r.v1 \in BOOLEAN /\ r.own \in BOOLEAN /\ r.got \in BOOLEAN
         /\ r.at \in {"IDLE", "STX"} => r.left = 0
         /\ r.at = "LENGTH" => r.left <= MaxByte
         /\ r.at = "BODY" => r.left >= 1 /\ r.left <= MaxByte + 9
<1> USE MavFrameAssumption DEF Byte
<1>1. CASE r \in [at: {"IDLE", "STX"}, left: {0}, v1: BOOLEAN, own: BOOLEAN, got: BOOLEAN]
  BY <1>1
<1>2. CASE r \in [at: {"LENGTH"}, left: Byte, v1: {FALSE}, own: BOOLEAN, got: BOOLEAN]
  <2>1. r.at = "LENGTH" /\ r.left \in 0..MaxByte
        /\ r.v1 \in BOOLEAN /\ r.own \in BOOLEAN /\ r.got \in BOOLEAN
    BY <1>2
  <2> QED BY <2>1
<1>3. CASE r \in [at: {"BODY"}, left: 1..(MaxByte + 9), v1: BOOLEAN, own: BOOLEAN, got: BOOLEAN]
  BY <1>3
<1> QED BY <1>1, <1>2, <1>3 DEF Knowing

LEMMA StructSizeIs == StructSize \in Nat /\ StructSize = MaxByte + 36 /\ MaxByte \in Nat
  BY MavFrameAssumption DEF StructSize

\* What a struct's byte may be.
LEMMA ByteIs ==
  ASSUME NEW len \in Byte, NEW values \in SUBSET Byte, NEW i \in 1..StructSize,
         NEW c \in ByteOf(len, values, i).values
  PROVE  /\ c \in Byte /\ c \in Nat /\ c <= MaxByte
         /\ ByteOf(len, values, i).magic \in BOOLEAN
         /\ ByteOf(len, values, i).magic <=> i = 3
         /\ i = 3 => c = STX
         /\ i = 4 => c = len
         /\ i \in {5, 6} => c = 0
         /\ i \notin {3, 4, 5, 6} => c \in values
<1> USE MavFrameAssumption DEF Byte, STX
<1>1. CASE i = 3
  BY <1>1 DEF ByteOf
<1>2. CASE i = 4
  BY <1>2 DEF ByteOf
<1>3. CASE i \in {5, 6}
  BY <1>3 DEF ByteOf
<1>4. CASE i \notin {3, 4, 5, 6}
  BY <1>4 DEF ByteOf
<1> QED BY <1>1, <1>2, <1>3, <1>4

LEMMA MarkersAre ==
  /\ STX \in Nat /\ STX_MAVLINK1 \in Nat /\ STX # STX_MAVLINK1
  /\ STX \in Markers /\ 0 \notin Markers /\ 0 \in IFLAG_MASK
  BY MavFrameAssumption DEF STX, STX_MAVLINK1, Markers, IFLAG_MASK

\* In holds pairs of a number of bytes and a parser.
LEMMA StructInvariant ==
  ASSUME NEW p \in Parsers, NEW len \in Byte, NEW values \in SUBSET Byte, NEW In,
         <<0, Start(p)>> \in In,
         \A i \in 1..StructSize : \A r \in Knowing : \A c \in ByteOf(len, values, i).values :
           <<i - 1, r>> \in In =>
             <<i, ParseChar(r, c, ByteOf(len, values, i).magic)>> \in In
  PROVE  \A q \in ParseBytes(p, Struct(len, values)) :
           q \in Knowing /\ <<StructSize, q>> \in In
<1> DEFINE n == StructSize
           b == Struct(len, values)
           J == [i \in 0..n |-> {r \in Knowing : <<i, r>> \in In}]
<1>1. DOMAIN b = 1..n
  <2>1. b \in Seq([values: {values, {STX}, {len}, {0}}, magic: BOOLEAN]) /\ Len(b) = n
    BY StructIs
  <2> QED BY <2>1
<1>2. n \in Nat /\ 0 \in 0..n /\ n \in 0..n
  BY StructSizeIs
<1>3. Start(p) \in J[0]
  BY <1>2, StartKnows
<1>4. ASSUME NEW i \in 1..n
      PROVE  \A r \in J[i - 1] : \A c \in b[i].values : ParseChar(r, c, b[i].magic) \in J[i]
  <2>1. i \in 0..n /\ i - 1 \in 0..n
    BY <1>2
  <2>2. b[i] = ByteOf(len, values, i)
    BY StructIs
  <2> HIDE DEF b, n
  <2>3. ASSUME NEW r \in Knowing, <<i - 1, r>> \in In, NEW c \in ByteOf(len, values, i).values
        PROVE  /\ ParseChar(r, c, ByteOf(len, values, i).magic) \in Knowing
               /\ <<i, ParseChar(r, c, ByteOf(len, values, i).magic)>> \in In
    <3>1. c \in Byte /\ ByteOf(len, values, i).magic \in BOOLEAN
      BY ByteIs DEF n
    <3>2. StepOf(r, c, ByteOf(len, values, i).magic, ParseChar(r, c, ByteOf(len, values, i).magic))
      BY <3>1, ParseStep
    <3>3. ParseChar(r, c, ByteOf(len, values, i).magic) \in Knowing
      BY <3>2 DEF StepOf
    <3> QED BY <2>3, <3>3 DEF n
  <2> QED BY <2>1, <2>2, <2>3
<1>5. ParseBytes(p, b) \subseteq J[n]
  <2> HIDE DEF J, b, n
  <2> QED BY <1>1, <1>2, <1>3, <1>4, ParseInvariant
<1> QED BY <1>2, <1>5

\* A struct has a marker nowhere but at its magic: after it, whatever the parser was in
\* the middle of has ended.  What it may be in after i bytes:
Ending(i, r) ==
  \/ r.at = "IDLE"
  \/ r.at = "STX" /\ i \in {0, 3}
  \/ r.at = "LENGTH" /\ i \in {0, 1, 4}
  \/ r.at = "BODY" /\ i + r.left <= MaxByte + 14

LEMMA EndingStep ==
  ASSUME NEW i \in 1..StructSize, NEW r \in Knowing, Ending(i - 1, r),
         NEW c \in Byte, c \in Markers => i = 3, NEW magic \in BOOLEAN, NEW s,
         StepOf(r, c, magic, s)
  PROVE  Ending(i, s)
<1>1. i \in Nat /\ MaxByte \in Nat /\ c \in Nat /\ c <= MaxByte
  BY StructSizeIs DEF Byte
<1>2. CASE r.at = "IDLE"
  BY <1>2 DEF StepOf, BeginStep, Ending
<1>3. CASE r.at = "STX"
  <2>1. i \in {1, 4}
    BY <1>1, <1>3 DEF Ending
  <2> QED BY <1>1, <1>3, <2>1 DEF StepOf, LengthStep, Ending
<1>4. CASE r.at = "LENGTH"
  <2>1. i \in {1, 2, 5} /\ r.left \in Nat /\ r.left <= MaxByte
    BY <1>1, <1>4, KnowingIs DEF Ending
  <2> QED BY <1>1, <1>4, <2>1 DEF StepOf, FlagsStep, Ending
<1>5. CASE r.at = "BODY"
  <2>1. r.left \in Nat /\ (i - 1) + r.left <= MaxByte + 14
    BY <1>5, KnowingIs DEF Ending
  <2>2. CASE r.left > 1
    <3>1. s.at = "BODY" /\ s.left = r.left - 1
      BY <1>5, <2>2 DEF StepOf, BodyStep
    <3>2. i + (r.left - 1) <= MaxByte + 14
      BY <1>1, <2>1
    <3> QED BY <3>1, <3>2 DEF Ending
  <2>3. CASE ~(r.left > 1)
    <3>1. s.at = "IDLE" \/ (s.at = "STX" /\ c \in Markers)
      BY <1>5, <2>3, MarkersAre DEF StepOf, BodyStep
    <3> QED BY <3>1 DEF Ending
  <2> QED BY <2>2, <2>3
<1> QED BY <1>2, <1>3, <1>4, <1>5, KnowingIs

LEMMA CleanEnds ==
  ASSUME NEW p \in Parsers, NEW len \in Byte, len \notin Markers
  PROVE  \A q \in ParseBytes(p, Struct(len, Byte \ Markers)) : q.at = "IDLE"
<1> DEFINE values == Byte \ Markers
           In == {w \in (0..StructSize) \X Knowing : Ending(w[1], w[2])}
<1>1. <<0, Start(p)>> \in In
  <2>1. Start(p) \in Knowing /\ Ending(0, Start(p)) /\ 0 \in 0..StructSize
    BY StartKnows, KnowingIs, StructSizeIs DEF Ending
  <2> QED BY <2>1
<1>2. ASSUME NEW i \in 1..StructSize, NEW r \in Knowing, NEW c \in ByteOf(len, values, i).values,
             <<i - 1, r>> \in In
      PROVE  <<i, ParseChar(r, c, ByteOf(len, values, i).magic)>> \in In
  <2>1. /\ c \in Byte /\ ByteOf(len, values, i).magic \in BOOLEAN
        /\ c \in Markers => i = 3
    BY ByteIs, MarkersAre
  <2>2. Ending(i - 1, r) /\ i \in 0..StructSize
    BY <1>2
  <2> DEFINE s == ParseChar(r, c, ByteOf(len, values, i).magic)
  <2>3. StepOf(r, c, ByteOf(len, values, i).magic, s)
    BY <2>1, ParseStep
  <2> HIDE DEF s
  <2>4. Ending(i, s) /\ s \in Knowing
    BY <2>1, <2>2, <2>3, EndingStep DEF StepOf
  <2> QED BY <2>2, <2>4 DEF s
<1>3. \A q \in ParseBytes(p, Struct(len, values)) : q \in Knowing /\ <<StructSize, q>> \in In
  <2> HIDE DEF In
  <2> QED BY <1>1, <1>2, StructInvariant
<1> SUFFICES ASSUME NEW q \in Knowing, Ending(StructSize, q)
             PROVE  q.at = "IDLE"
  BY <1>3
<1> QED BY KnowingIs, StructSizeIs DEF Ending

\* A parser that waits for a frame takes the struct's, from its magic to its CRC:
Arriving(i, len, r) ==
  \/ i <= 2 /\ r.at = "IDLE" /\ ~r.own /\ ~r.got
  \/ i = 3 /\ r.at = "STX" /\ ~r.v1 /\ r.own
  \/ i = 4 /\ r.at = "LENGTH" /\ r.left = len /\ r.own
  \/ i >= 5 /\ i <= 13 + len /\ r.at = "BODY" /\ r.left = len + 14 - i /\ r.own
  \/ i >= 14 + len /\ r.at = "IDLE" /\ r.got

LEMMA ArrivingStep ==
  ASSUME NEW len \in Byte, NEW i \in 1..StructSize, NEW r \in Knowing, Arriving(i - 1, len, r),
         NEW c \in Byte, NEW magic \in BOOLEAN, NEW s, StepOf(r, c, magic, s),
         magic <=> i = 3,
         i = 3 => c = STX, i = 4 => c = len, i \in {5, 6} => c = 0,
         i \notin {3, 4, 5, 6} => c \notin Markers
  PROVE  Arriving(i, len, s)
<1>1. i \in Nat /\ i >= 1 /\ MaxByte \in Nat /\ len \in Nat /\ len <= MaxByte
  BY StructSizeIs DEF Byte
<1>2. CASE i - 1 <= 2 /\ r.at = "IDLE" /\ ~r.own /\ ~r.got
  <2>1. CASE i = 3
    <3>1. s.at = "STX" /\ s.own /\ (s.v1 <=> c = STX_MAVLINK1)
      BY <1>2, <2>1, MarkersAre DEF StepOf, BeginStep
    <3> QED BY <2>1, <3>1, MarkersAre DEF Arriving
  <2>2. CASE i # 3
    <3>1. i <= 2 /\ i \notin {3, 4, 5, 6} /\ ~magic
      BY <1>1, <1>2, <2>2
    <3>2. s.at = "IDLE" /\ ~s.own /\ ~s.got
      BY <1>2, <3>1 DEF StepOf, BeginStep
    <3> QED BY <3>1, <3>2 DEF Arriving
  <2> QED BY <2>1, <2>2
<1>3. CASE i - 1 = 3 /\ r.at = "STX" /\ ~r.v1 /\ r.own
  <2>1. i = 4 /\ c = len
    BY <1>1, <1>3
  <2>2. s.at = "LENGTH" /\ s.left = len /\ s.own
    BY <1>3, <2>1 DEF StepOf, LengthStep
  <2> QED BY <2>1, <2>2 DEF Arriving
<1>4. CASE i - 1 = 4 /\ r.at = "LENGTH" /\ r.left = len /\ r.own
  <2>1. i = 5 /\ c \in IFLAG_MASK
    BY <1>1, <1>4, MarkersAre
  <2>2. s.at = "BODY" /\ s.left = 7 + len + 2 /\ s.own
    BY <1>4, <2>1 DEF StepOf, FlagsStep
  <2> QED BY <1>1, <2>1, <2>2 DEF Arriving
<1>5. CASE i - 1 >= 5 /\ i - 1 <= 13 + len /\ r.at = "BODY" /\ r.left = len + 14 - (i - 1) /\ r.own
  <2>1. CASE i <= 13 + len
    <3>1. r.left > 1 /\ r.left - 1 = len + 14 - i
      BY <1>1, <1>5, <2>1
    <3>2. s.at = "BODY" /\ s.left = r.left - 1 /\ s.own
      BY <1>5, <3>1 DEF StepOf, BodyStep
    <3> QED BY <1>1, <1>5, <2>1, <3>1, <3>2 DEF Arriving
  <2>2. CASE i > 13 + len
    <3>1. i = 14 + len /\ ~(r.left > 1)
      BY <1>1, <1>5, <2>2
    <3>2. s.at = "IDLE" /\ s.got
      BY <1>5, <3>1 DEF StepOf, BodyStep
    <3> QED BY <1>1, <3>1, <3>2 DEF Arriving
  <2> QED BY <1>1, <2>1, <2>2
<1>6. CASE i - 1 >= 14 + len /\ r.at = "IDLE" /\ r.got
  <2>1. i \notin {3, 4, 5, 6} /\ i >= 14 + len
    BY <1>1, <1>6
  <2>2. s.at = "IDLE" /\ s.got
    BY <1>6, <2>1 DEF StepOf, BeginStep
  <2> QED BY <2>1, <2>2 DEF Arriving
<1> QED BY <1>2, <1>3, <1>4, <1>5, <1>6 DEF Arriving

LEMMA CleanArrives ==
  ASSUME NEW p \in Parsers, p.at = "IDLE", NEW len \in Byte, len \notin Markers
  PROVE  \A q \in ParseBytes(p, Struct(len, Byte \ Markers)) : q.got
<1> DEFINE values == Byte \ Markers
           In == {w \in (0..StructSize) \X Knowing : Arriving(w[1], len, w[2])}
<1>1. <<0, Start(p)>> \in In
  <2>1. Start(p) \in Knowing /\ Arriving(0, len, Start(p)) /\ 0 \in 0..StructSize
    BY StartKnows, StructSizeIs DEF Arriving
  <2> QED BY <2>1
<1>2. ASSUME NEW i \in 1..StructSize, NEW r \in Knowing, NEW c \in ByteOf(len, values, i).values,
             <<i - 1, r>> \in In
      PROVE  <<i, ParseChar(r, c, ByteOf(len, values, i).magic)>> \in In
  <2> DEFINE magic == ByteOf(len, values, i).magic
             s == ParseChar(r, c, magic)
  <2>1. /\ c \in Byte /\ magic \in BOOLEAN /\ (magic <=> i = 3)
        /\ i = 3 => c = STX
        /\ i = 4 => c = len
        /\ i \in {5, 6} => c = 0
        /\ i \notin {3, 4, 5, 6} => c \notin Markers
    BY ByteIs
  <2>2. Arriving(i - 1, len, r) /\ i \in 0..StructSize
    BY <1>2
  <2> HIDE DEF magic
  <2>3. StepOf(r, c, magic, s)
    BY <2>1, ParseStep
  <2> HIDE DEF s
  <2>4. Arriving(i, len, s) /\ s \in Knowing
    BY <2>1, <2>2, <2>3, ArrivingStep DEF StepOf
  <2> QED BY <2>2, <2>4 DEF s, magic
<1>3. \A q \in ParseBytes(p, Struct(len, values)) : q \in Knowing /\ <<StructSize, q>> \in In
  <2> HIDE DEF In
  <2> QED BY <1>1, <1>2, StructInvariant
<1> SUFFICES ASSUME NEW q \in Knowing, Arriving(StructSize, len, q)
             PROVE  q.got
  BY <1>3
<1>4. len \in Nat /\ len <= MaxByte
  BY MavFrameAssumption DEF Byte
<1> QED BY <1>4, StructSizeIs DEF Arriving

\* However much of a struct has come in, the parser is one.
LEMMA KnowingKept ==
  ASSUME NEW p \in Parsers, NEW bytes, NEW n \in Nat, DOMAIN bytes = 1..n,
         \A i \in 1..n : bytes[i].values \subseteq Byte /\ bytes[i].magic \in BOOLEAN
  PROVE  ParseBytes(p, bytes) \subseteq Knowing
<1> DEFINE J == [i \in 0..n |-> Knowing]
<1>1. Start(p) \in J[0]
  BY StartKnows
<1>2. ASSUME NEW i \in 1..n, NEW q \in J[i - 1], NEW c \in bytes[i].values
      PROVE  ParseChar(q, c, bytes[i].magic) \in J[i]
  <2>1. q \in Knowing /\ J[i] = Knowing /\ c \in Byte /\ bytes[i].magic \in BOOLEAN
    OBVIOUS
  <2> HIDE DEF J
  <2> QED BY <2>1, ParseStep DEF StepOf
<1>3. ParseBytes(p, bytes) \subseteq J[n]
  <2> HIDE DEF J
  <2> QED BY <1>1, <1>2, ParseInvariant
<1> QED BY <1>3

LEMMA OutcomeIs ==
  ASSUME NEW p \in Parsers, NEW r \in Outcome(p)
  PROVE  /\ r.to \in Parsers /\ r.n \in Cuts \cup {StructSize}
         /\ r.clean => r.to.at = "IDLE"
         /\ r.clean /\ p.at = "IDLE" => r.got
<1>1. PICK c \in Contents, n \in Cuts \cup {StructSize} :
        /\ Possible(c)
        /\ \E o \in Outcomes(p, SubSeq(Bytes(c), 1, n)) :
             r = [clean |-> c.clean /\ n = StructSize, n |-> n, to |-> o.parser, got |-> o.got]
  BY DEF Outcome
<1> DEFINE w == SubSeq(Bytes(c), 1, n)
<1>0. PICK o \in Outcomes(p, w) :
        r = [clean |-> c.clean /\ n = StructSize, n |-> n, to |-> o.parser, got |-> o.got]
  BY <1>1
<1> HIDE DEF w
<1>2. PICK q \in ParseBytes(p, w) :
        o = [parser |-> [at |-> q.at, left |-> q.left, v1 |-> q.v1], got |-> q.got]
  BY DEF Outcomes
<1> DEFINE values == IF c.clean THEN Byte \ Markers ELSE Byte
           b == Struct(c.len, values)
<1>3. c.len \in Byte /\ c.clean \in BOOLEAN /\ (c.clean => c.len \notin Markers)
  BY <1>1, MavLinkAssumption DEF Contents, Possible
<1>4. Bytes(c) = b /\ values \in SUBSET Byte
  BY DEF Bytes
<1>5. /\ b \in Seq([values: {values, {STX}, {c.len}, {0}}, magic: BOOLEAN])
      /\ Len(b) = StructSize
      /\ \A i \in 1..StructSize : b[i] = ByteOf(c.len, values, i)
  BY <1>3, StructIs
<1>6. n \in Nat /\ n <= StructSize /\ StructSize \in Nat
  BY StructSizeIs, MavLinkAssumption
<1> HIDE DEF b
<1>7. q \in Knowing
  <2>1. DOMAIN w = 1..n /\ \A i \in 1..n : w[i] = b[i]
    BY <1>4, <1>5, <1>6 DEF w
  <2>2. ASSUME NEW i \in 1..n
        PROVE  w[i].values \subseteq Byte /\ w[i].magic \in BOOLEAN
    <3>0. i \in 1..StructSize /\ w[i] = b[i]
      BY <1>6, <2>1
    <3>1. w[i] = ByteOf(c.len, values, i) /\ i \in 1..StructSize
      BY <1>5, <3>0
    <3> HIDE DEF values
    <3>2. /\ ByteOf(c.len, values, i).values \subseteq Byte
          /\ ByteOf(c.len, values, i).magic \in BOOLEAN
      <4>1. \A d \in ByteOf(c.len, values, i).values : d \in Byte
        BY <1>3, <1>4, <3>1, ByteIs
      <4>2. ByteOf(c.len, values, i).magic \in BOOLEAN
        BY DEF ByteOf
      <4> QED BY <4>1, <4>2
    <3> QED BY <3>1, <3>2
  <2> QED BY <1>2, <1>6, <2>1, <2>2, KnowingKept
<1>8. [at |-> q.at, left |-> q.left, v1 |-> q.v1] \in Parsers
  BY <1>7 DEF Knowing, Parsers
<1>9. ASSUME c.clean, n = StructSize
      PROVE  q.at = "IDLE" /\ (p.at = "IDLE" => q.got)
  <2>1. SubSeq(b, 1, n) = b
    BY <1>5, <1>9
  <2>2. q \in ParseBytes(p, Struct(c.len, Byte \ Markers))
    BY <1>2, <1>4, <1>9, <2>1 DEF b, w
  <2>3. q.at = "IDLE"
    BY <1>3, <1>9, <2>2, CleanEnds
  <2>4. p.at = "IDLE" => q.got
    BY <1>3, <1>9, <2>2, CleanArrives
  <2> QED BY <2>3, <2>4
<1>10. r.to \in Parsers /\ r.n \in Cuts \cup {StructSize}
  BY <1>0, <1>2, <1>8
<1>11. r.clean => c.clean /\ n = StructSize
  BY <1>0
<1>12. r.to.at = q.at /\ r.got = q.got
  BY <1>0, <1>2
<1> QED BY <1>9, <1>10, <1>11, <1>12

-----------------------------------------------------------------------------
(***************************************************************************)
(* The provider.                                                            *)
(***************************************************************************)
\* The fields of the history that change one by one.
IsHistory(h) ==
  h = [given |-> h.given, arrived |-> h.arrived, failures |-> h.failures,
       clean |-> h.clean, hit |-> h.hit, before |-> h.before]

LinkInv ==
  /\ messagesToSend \in Seq(Message)
  /\ pc = "write" => messagesToSend # <<>>
  /\ IsFiniteSet(waiting)
  /\ history.given \in Nat
  /\ history.given + Cardinality(waiting) <= MaxMessages
  /\ IsHistory(history)

USE MavLinkAssumption

\* Every step keeps the invariant and is a step of the fifo, or none.
StepHolds == LinkInv' /\ [Fifo!Next]_(Fifo!vars)

LEMMA InitHolds ==
  ASSUME Init
  PROVE LinkInv /\ Fifo!Init
<1>1. IsFiniteSet({}) /\ Cardinality({}) = 0
  BY FS_EmptySet
<1> QED BY <1>1 DEF Init, LinkInv, IsHistory, Fifo!Init

\* With room for it, a message given is the next one of the queue.
LEMMA PushGives ==
  ASSUME LinkInv, Push, history.given < MaxMessages
  PROVE /\ messagesToSend' \in Seq(Message) /\ messagesToSend' # <<>>
        /\ history'.given = history.given + 1 /\ history'.arrived = history.arrived
        /\ IsHistory(history)'
        /\ Fifo!Next
<1>1. history' = [given |-> history.given + 1, arrived |-> history.arrived,
                  failures |-> history.failures, clean |-> history.clean,
                  hit |-> history.hit, before |-> history.before]
  BY DEF Push, LinkInv, IsHistory
<1>2. history.given + 1 \in Message
  BY DEF LinkInv, Message
<1>3. messagesToSend' = Append(messagesToSend, history.given + 1)
  BY <1>1 DEF Push
<1>4. Fifo!Give(history.given + 1)
  BY <1>1, <1>3 DEF Fifo!Give
<1>5. Fifo!Next
  BY <1>2, <1>4 DEF Fifo!Next
<1>6. messagesToSend' \in Seq(Message) /\ messagesToSend' # <<>>
  BY <1>2, <1>3 DEF LinkInv
<1> QED BY <1>1, <1>5, <1>6 DEF IsHistory

\* Room counts the threads that are in send() already.
LEMMA RoomCounts ==
  ASSUME LinkInv, Room
  PROVE history.given < MaxMessages /\ Cardinality(waiting) \in Nat
<1>1. Cardinality(waiting) \in Nat
  BY FS_CardinalityType DEF LinkInv
<1> QED BY <1>1 DEF Room, LinkInv

LEMMA CallSendHolds ==
  ASSUME LinkInv, NEW t \in Senders, CallSend(t)
  PROVE StepHolds
<1>1. IsFiniteSet(waiting') /\ Cardinality(waiting') = Cardinality(waiting) + 1
  BY FS_AddElement DEF CallSend, LinkInv
<1>2. history.given + Cardinality(waiting') <= MaxMessages
  BY <1>1, RoomCounts DEF CallSend, Room, LinkInv
<1> QED BY <1>1, <1>2 DEF CallSend, LinkInv, IsHistory, StepHolds, Fifo!vars

LEMMA PushBackHolds ==
  ASSUME LinkInv, NEW t \in Senders, PushBack(t)
  PROVE StepHolds
<1>1. /\ IsFiniteSet(waiting') /\ Cardinality(waiting) \in Nat
      /\ Cardinality(waiting') = Cardinality(waiting) - 1
  BY FS_RemoveElement, FS_CardinalityType DEF PushBack, LinkInv
<1>2. Cardinality(waiting') \in Nat
  BY <1>1, FS_CardinalityType
<1>3. history.given < MaxMessages
  BY <1>1, <1>2 DEF LinkInv
<1>4. Push
  BY DEF PushBack
<1> QED BY <1>1, <1>3, <1>4, PushGives DEF LinkInv, StepHolds

LEMMA ProcessReadHolds ==
  ASSUME LinkInv, ProcessRead
  PROVE StepHolds
<1>1. CASE UNCHANGED <<messagesToSend, history>>
  BY <1>1 DEF ProcessRead, LinkInv, IsHistory, StepHolds, Fifo!vars
<1>2. CASE Room /\ Push
  <2>1. history.given < MaxMessages /\ Cardinality(waiting) \in Nat
    BY <1>2, RoomCounts
  <2>2. history'.given + Cardinality(waiting) <= MaxMessages
    BY <1>2, <2>1, PushGives DEF Room, LinkInv
  <2> QED BY <1>2, <2>1, <2>2, PushGives DEF ProcessRead, LinkInv, StepHolds
<1> QED BY <1>1, <1>2 DEF ProcessRead

\* A message is taken and arrives, or is taken only.
LEMMA WriteUpHolds ==
  ASSUME LinkInv, WriteUp
  PROVE StepHolds
<1>1. PICK t \in Receipts : t.from = parser /\ \E r \in t.outcome :
        /\ r.n \in Written
        /\ parser' = r.to
        /\ history' = [history EXCEPT
             !.arrived = IF r.got THEN Append(@, Head(messagesToSend)) ELSE @,
             !.failures = IF r.n < StructSize THEN @ + 1 ELSE @,
             !.clean = r.clean, !.hit = r.got, !.before = history.clean]
        /\ Pop(r.n = StructSize)
  BY DEF WriteUp
<1>2. PICK r \in t.outcome :
        /\ history' = [history EXCEPT
             !.arrived = IF r.got THEN Append(@, Head(messagesToSend)) ELSE @,
             !.failures = IF r.n < StructSize THEN @ + 1 ELSE @,
             !.clean = r.clean, !.hit = r.got, !.before = history.clean]
        /\ Pop(r.n = StructSize)
  BY <1>1
<1>3. messagesToSend # <<>> /\ messagesToSend' = Tail(messagesToSend)
      /\ pc' = "board" /\ waiting' = waiting
  BY <1>2 DEF WriteUp, Pop, LinkInv
<1>4. messagesToSend' \in Seq(Message)
  BY <1>3 DEF LinkInv
<1>5. history' = [given |-> history.given,
                  arrived |-> IF r.got THEN Append(history.arrived, Head(messagesToSend))
                              ELSE history.arrived,
                  failures |-> IF r.n < StructSize THEN history.failures + 1
                               ELSE history.failures,
                  clean |-> r.clean, hit |-> r.got, before |-> history.clean]
  BY <1>2 DEF LinkInv, IsHistory
<1>6. LinkInv'
  BY <1>3, <1>4, <1>5 DEF LinkInv, IsHistory
<1>7. Fifo!Arrive \/ Fifo!Lose
  BY <1>3, <1>5 DEF Fifo!Arrive, Fifo!Lose
<1> QED BY <1>6, <1>7 DEF StepHolds, Fifo!Next

LEMMA WriteNowhereHolds ==
  ASSUME LinkInv, WriteNowhere
  PROVE StepHolds
<1>1. history' = [given |-> history.given, arrived |-> history.arrived,
                  failures |-> IF exited' THEN history.failures ELSE history.failures + 1,
                  clean |-> history.clean, hit |-> history.hit, before |-> history.before]
  BY DEF WriteNowhere, LinkInv, IsHistory
<1>2. CASE UNCHANGED <<messagesToSend, mutex, waiting, pc, conn, inbox>>
  BY <1>1, <1>2 DEF LinkInv, IsHistory, StepHolds, Fifo!vars
<1>3. CASE Pop(TRUE)
  <2>1. messagesToSend # <<>> /\ messagesToSend' = Tail(messagesToSend)
        /\ pc' = "board" /\ waiting' = waiting
    BY <1>3 DEF WriteNowhere, Pop, LinkInv
  <2>2. messagesToSend' \in Seq(Message)
    BY <2>1 DEF LinkInv
  <2>3. LinkInv'
    BY <1>1, <2>1, <2>2 DEF LinkInv, IsHistory
  <2>4. Fifo!Lose
    BY <1>1, <2>1 DEF Fifo!Lose
  <2> QED BY <2>3, <2>4 DEF StepHolds, Fifo!Next
<1> QED BY <1>2, <1>3 DEF WriteNowhere

LEMMA NextHolds ==
  ASSUME LinkInv, [Next]_vars
  PROVE StepHolds
<1>1. CASE Board
  BY <1>1 DEF Board, LinkInv, IsHistory, StepHolds, Fifo!vars
<1>2. CASE ProcessRead
  BY <1>2, ProcessReadHolds
<1>3. CASE Lock
  BY <1>3 DEF Lock, LinkInv, IsHistory, StepHolds, Fifo!vars
<1>4. CASE WriteUp
  BY <1>4, WriteUpHolds
<1>5. CASE WriteNowhere
  BY <1>5, WriteNowhereHolds
<1>6. CASE PlaneTalks
  BY <1>6 DEF PlaneTalks, LinkInv, IsHistory, StepHolds, Fifo!vars
<1>7. CASE PlaneCloses
  BY <1>7 DEF PlaneCloses, LinkInv, IsHistory, StepHolds, Fifo!vars
<1>8. CASE \E t \in Senders : CallSend(t) \/ PushBack(t)
  BY <1>8, CallSendHolds, PushBackHolds
<1>9. CASE UNCHANGED vars
  BY <1>9 DEF vars, LinkInv, IsHistory, StepHolds, Fifo!vars
<1> QED BY <1>1, <1>2, <1>3, <1>4, <1>5, <1>6, <1>7, <1>8, <1>9 DEF Next, MainThread

\* MavlinkProvider::send and processSend: for all threads, messages, connections and
\* bytes, nothing arrives twice or before what was given earlier.
THEOREM ProviderIsFifo == Spec => IsFifo
<1>1. Init => LinkInv /\ Fifo!Init
  BY InitHolds
<1>2. LinkInv /\ [Next]_vars => LinkInv' /\ [Fifo!Next]_(Fifo!vars)
  BY NextHolds DEF StepHolds
<1> QED BY <1>1, <1>2, PTL DEF Spec, IsFifo, Fifo!Spec

-----------------------------------------------------------------------------
\* What is kept of a state by more than its types.
TypeInv ==
  /\ LinkInv /\ TypeOK /\ conn \in [kind: Kinds, state: States]

\* The latest write left the parser waiting for a frame, if it was whole and clean; and
\* two of them in a row brought the second one's message.
ParserInv ==
  /\ history.clean => parser.at = "IDLE"
  /\ DamageIsLocal

LEMMA InitTyped ==
  ASSUME Init
  PROVE TypeInv /\ ParserInv
<1>1. conn \in [kind: Kinds, state: States]
  BY DEF Init, Connections, States
<1>2. Idle \in Parsers
  BY DEF Idle, Parsers
<1>3. TypeOK
  <2>1. conn.kind \in Kinds /\ conn.state \in States
    BY <1>1
  <2>2. history.given = 0 /\ history.failures = 0
    BY DEF Init
  <2>3. messagesToSend \in Seq(Message)
    BY InitHolds DEF LinkInv
  <2>4. inbox \in BOOLEAN /\ exited \in BOOLEAN /\ waiting \subseteq Senders /\ parser \in Parsers
    BY <1>2 DEF Init
  <2>5. history.given \in 0..MaxMessages /\ history.failures \in 0..MaxFailures
    BY <2>2
  <2>6. mutex \in {"free", Main} /\ pc \in {"board", "read", "lock", "write"}
    BY DEF Init
  <2> QED BY <2>1, <2>3, <2>4, <2>5, <2>6 DEF TypeOK
<1>4. ParserInv
  <2>1. history.hit = TRUE /\ parser.at = "IDLE"
    BY DEF Init, Idle
  <2> QED BY <2>1 DEF ParserInv, DamageIsLocal
<1> QED BY <1>1, <1>3, <1>4, InitHolds DEF TypeInv

\* A write that comes through: what it does to the parser, and what is noted of it.
LEMMA WriteUpTyped ==
  ASSUME TypeInv, ParserInv, WriteUp
  PROVE TypeInv' /\ ParserInv'
<1>1. PICK t \in Receipts : t.from = parser /\ \E r \in t.outcome :
        /\ r.n \in Written
        /\ parser' = r.to
        /\ history' = [history EXCEPT
             !.arrived = IF r.got THEN Append(@, Head(messagesToSend)) ELSE @,
             !.failures = IF r.n < StructSize THEN @ + 1 ELSE @,
             !.clean = r.clean, !.hit = r.got, !.before = history.clean]
        /\ Pop(r.n = StructSize)
  BY DEF WriteUp
<1>2. t.outcome = Outcome(parser) /\ parser \in Parsers
  BY <1>1 DEF Receipts, TypeInv, TypeOK
<1>3. PICK r \in Outcome(parser) :
        /\ r.n \in Written
        /\ parser' = r.to
        /\ history' = [history EXCEPT
             !.arrived = IF r.got THEN Append(@, Head(messagesToSend)) ELSE @,
             !.failures = IF r.n < StructSize THEN @ + 1 ELSE @,
             !.clean = r.clean, !.hit = r.got, !.before = history.clean]
        /\ Pop(r.n = StructSize)
  BY <1>1, <1>2
<1>4. /\ r.to \in Parsers /\ r.n \in Cuts \cup {StructSize}
      /\ r.clean => r.to.at = "IDLE"
      /\ r.clean /\ parser.at = "IDLE" => r.got
  BY <1>2, OutcomeIs
<1>5. /\ history'.given = history.given
      /\ history'.failures = IF r.n < StructSize THEN history.failures + 1
                             ELSE history.failures
      /\ history'.clean = r.clean /\ history'.hit = r.got /\ history'.before = history.clean
  BY <1>3 DEF TypeInv, LinkInv, IsHistory
<1>6. history'.failures \in 0..MaxFailures
  <2>1. r.n < StructSize => history.failures < MaxFailures
    <3>1. StructSize \in Nat
      BY StructSizeIs
    <3> QED BY <1>3, <3>1 DEF Written
  <2> QED BY <1>5, <2>1 DEF TypeInv, TypeOK
<1>7. LinkInv'
  BY WriteUpHolds DEF TypeInv, StepHolds
<1>8. TypeOK' /\ conn' = conn
  BY <1>3, <1>4, <1>5, <1>6, <1>7 DEF TypeInv, TypeOK, LinkInv, WriteUp, Pop
<1> QED BY <1>3, <1>4, <1>5, <1>7, <1>8 DEF TypeInv, ParserInv, DamageIsLocal

LEMMA NextTyped ==
  ASSUME TypeInv, ParserInv, [Next]_vars
  PROVE TypeInv' /\ ParserInv'
<1>0. LinkInv'
  BY NextHolds DEF TypeInv, StepHolds
<1> USE <1>0 DEF TypeInv, TypeOK, ParserInv, DamageIsLocal
<1>1. CASE Board
  BY <1>1 DEF Board
<1>2. CASE ProcessRead
  <2>1. CASE UNCHANGED <<messagesToSend, history>>
    BY <1>2, <2>1 DEF ProcessRead
  <2>2. CASE Room /\ Push
    <3>1. /\ history'.given = history.given + 1 /\ history'.failures = history.failures
          /\ history'.clean = history.clean /\ history'.hit = history.hit
          /\ history'.before = history.before
      BY <2>2 DEF Push, LinkInv, IsHistory
    <3>2. history'.given \in 0..MaxMessages
      BY <2>2, <3>1, RoomCounts
    <3> QED BY <1>2, <3>1, <3>2 DEF ProcessRead, LinkInv
  <2> QED BY <1>2, <2>1, <2>2 DEF ProcessRead
<1>3. CASE Lock
  BY <1>3 DEF Lock
<1>4. CASE WriteUp
  BY <1>4, WriteUpTyped
<1>5. CASE WriteNowhere
  <2>1. /\ history'.given = history.given
        /\ history'.failures = IF exited' THEN history.failures ELSE history.failures + 1
        /\ history'.clean = history.clean /\ history'.hit = history.hit
        /\ history'.before = history.before
    BY <1>5 DEF WriteNowhere, LinkInv, IsHistory
  <2>2. CASE exited' = TRUE /\ UNCHANGED <<messagesToSend, mutex, waiting, pc, conn, inbox>>
    BY <1>5, <2>1, <2>2 DEF WriteNowhere, LinkInv
  <2>3. CASE history.failures < MaxFailures /\ Pop(TRUE) /\ UNCHANGED exited
    <3>1. history'.failures \in 0..MaxFailures
      BY <1>5, <2>1, <2>3
    <3> QED BY <1>5, <2>1, <2>3, <3>1 DEF WriteNowhere, Pop, LinkInv
  <2> QED BY <1>5, <2>2, <2>3 DEF WriteNowhere
<1>6. CASE PlaneTalks
  BY <1>6 DEF PlaneTalks
<1>7. CASE PlaneCloses
  BY <1>7 DEF PlaneCloses, States
<1>8. CASE \E t \in Senders : CallSend(t)
  BY <1>8 DEF CallSend
<1>9. CASE \E t \in Senders : PushBack(t)
  <2>1. PICK t \in Senders : PushBack(t)
    BY <1>9
  <2>2. /\ history'.given = history.given + 1 /\ history'.failures = history.failures
        /\ history'.clean = history.clean /\ history'.hit = history.hit
        /\ history'.before = history.before
    BY <2>1 DEF PushBack, Push, LinkInv, IsHistory
  <2>3. history'.given \in 0..MaxMessages
    <3>1. Cardinality(waiting') \in Nat
      BY FS_CardinalityType DEF LinkInv
    <3> QED BY <3>1 DEF LinkInv
  <2> QED BY <2>1, <2>2, <2>3 DEF PushBack, LinkInv
<1>10. CASE UNCHANGED vars
  BY <1>10 DEF vars
<1> QED BY <1>1, <1>2, <1>3, <1>4, <1>5, <1>6, <1>7, <1>8, <1>9, <1>10 DEF Next, MainThread

\* Of the program's state: a message taken is one given, the bounds of the model are kept,
\* and whatever part of whatever struct comes in leaves the receiver's parser in one of its
\* states, so that WriteUp's outcomes leave no state out.
THEOREM TypeCorrect == Spec => []TypeOK
<1>1. Init => TypeInv /\ ParserInv
  BY InitTyped
<1>2. (TypeInv /\ ParserInv) /\ [Next]_vars => (TypeInv /\ ParserInv)'
  BY NextTyped
<1>3. TypeInv => TypeOK
  BY DEF TypeInv
<1> QED BY <1>1, <1>2, <1>3, PTL DEF Spec

\* mavlink_parse_char after processSend's write: for all payload lengths and incomplete
\* writes, of two structs in a row that were written whole and have no marker outside their
\* magic, the second one's message arrives, whatever came before them.
THEOREM DamageStaysLocal == Spec => []DamageIsLocal
<1>1. Init => TypeInv /\ ParserInv
  BY InitTyped
<1>2. (TypeInv /\ ParserInv) /\ [Next]_vars => (TypeInv /\ ParserInv)'
  BY NextTyped
<1>3. ParserInv => DamageIsLocal
  BY DEF ParserInv
<1> QED BY <1>1, <1>2, <1>3, PTL DEF Spec
=============================================================================
