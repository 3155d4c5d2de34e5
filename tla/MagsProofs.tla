----------------------------- MODULE MagsProofs -----------------------------
(***************************************************************************)
(* The calculator's side of the link, for every window size, rate, sleep and *)
(* second, every sentence and every text.                                   *)
(* The sentence reader takes a sentence part by part: it is off behind the  *)
(* end of one, so the next begins with nothing in it, and a whole one is in *)
(* it, part for part, when its end arrives.                                 *)
(* CsvLine: while there is more to come, the cursor is in its line, behind  *)
(* as many commas as it has given values less one.  A field then reaches    *)
(* from the cursor to the next comma, and what is given is compared with it *)
(* character by character; a number's digits by induction.                  *)
(* MagsWindow: a window that fills is the calculator's before the next one  *)
(* is full, as long as none fills during the longest sleep.  The invariant  *)
(* behind it counts time: behind a full window that has waited `age` ticks  *)
(* there are fewer records than these ticks can bring.  The clear may fall  *)
(* in the middle of a swap, which costs the bounds.                         *)
(* MagsBoard: a status is about the last three seconds, by this count:      *)
(* the counter is of sentences since its restart, at each of which the      *)
(* magnetometers were less than a second old, if they count as detected;    *)
(* the number shown is that of the second before.                           *)
(***************************************************************************)
EXTENDS MagsBoard, CsvLine, FiniteSetTheorems, SequenceTheorems, WellFoundedInduction, TLAPS

-----------------------------------------------------------------------------
(***************************************************************************)
(* Induction over the parts of a sentence.                                  *)
(***************************************************************************)
\* The order of the numbers is well-founded.
LEMMA LessWF == IsWellFoundedOn({ss \in Nat \X Nat : ss[1] < ss[2]}, Nat)
  BY NatLessThanWellFounded DEF OpToRel

\* A set of numbers that holds 0 and the successor of each of its elements holds them all.
LEMMA SetInduction ==
  ASSUME NEW T, 0 \in T, \A n \in Nat : n \in T => n + 1 \in T
  PROVE  Nat \subseteq T
<1> DEFINE R == {ss \in Nat \X Nat : ss[1] < ss[2]}
           B == Nat \ T
<1> SUFFICES ASSUME B # {} PROVE FALSE
  OBVIOUS
<1>1. IsWellFoundedOn(R, Nat)
  BY LessWF
<1>2. B \subseteq Nat
  OBVIOUS
<1>3. PICK m \in B : \A y \in B : <<y, m>> \notin R
  <2> HIDE DEF B, R
  <2> QED BY <1>1, <1>2, WFMin
<1>4. m \in Nat /\ m # 0 /\ m - 1 \in Nat
  OBVIOUS
<1>5. <<m - 1, m>> \in R
  BY <1>4
<1>6. m - 1 \in T
  BY <1>3, <1>4, <1>5
<1> QED
  BY <1>4, <1>6

\* A step of a fold, by its name.
StepOf(op, acc, c) ==
  IF op = "part" THEN ReceivePart(acc, c) ELSE DigitTaken(acc, c)

\* g is FoldLeft's function of the sets of positions up to n.
Folded(g, op, r, s, n) ==
  g = [x \in SUBSET (1..n) |->
         IF x = {} THEN r ELSE StepOf(op, g[x \ {Max(x)}], s[Max(x)])]

LEMMA MaxIsLast ==
  ASSUME NEW n \in Nat, NEW x \in SUBSET (1..(n + 1)), n + 1 \in x
  PROVE  Max(x) = n + 1
<1> DEFINE m == CHOOSE y \in x : \A z \in x : y >= z
<1>1. \A y \in x : n + 1 >= y
  OBVIOUS
<1>2. m \in x /\ \A z \in x : m >= z
  BY <1>1
<1>3. m = n + 1
  <2> HIDE DEF m
  <2> QED BY <1>1, <1>2
<1> QED BY <1>3 DEF Max

LEMMA FoldedExists ==
  ASSUME NEW op, NEW r, NEW s, NEW n \in Nat
  PROVE  \E g : Folded(g, op, r, s, n)
<1> DEFINE T == {k \in Nat : \E g : Folded(g, op, r, s, k)}
<1>1. 0 \in T
  <2> DEFINE g == [x \in SUBSET (1..0) |-> r]
  <2>1. \A x \in SUBSET (1..0) : x = {}
    OBVIOUS
  <2>2. Folded(g, op, r, s, 0)
    BY <2>1 DEF Folded
  <2> QED BY <2>2
<1>2. ASSUME NEW k \in Nat, k \in T
      PROVE  k + 1 \in T
  <2>1. PICK g : Folded(g, op, r, s, k)
    BY <1>2
  <2> DEFINE h == [x \in SUBSET (1..(k + 1)) |->
                     IF k + 1 \in x THEN StepOf(op, g[x \ {k + 1}], s[k + 1]) ELSE g[x]]
             e == [x \in SUBSET (1..(k + 1)) |->
                     IF x = {} THEN r ELSE StepOf(op, h[x \ {Max(x)}], s[Max(x)])]
  <2>2. ASSUME NEW x \in SUBSET (1..(k + 1)), k + 1 \in x
        PROVE  h[x] = e[x]
    <3>1. Max(x) = k + 1
      BY <2>2, MaxIsLast
    <3>2. x \ {k + 1} \in SUBSET (1..(k + 1)) /\ k + 1 \notin x \ {k + 1} /\ x # {}
      BY <2>2
    <3>3. h[x \ {k + 1}] = g[x \ {k + 1}]
      BY <3>2
    <3>4. h[x] = StepOf(op, g[x \ {k + 1}], s[k + 1])
      BY <2>2
    <3>5. e[x] = StepOf(op, h[x \ {Max(x)}], s[Max(x)])
      BY <3>2
    <3> HIDE DEF h, e
    <3> QED BY <3>1, <3>3, <3>4, <3>5
  <2>3. ASSUME NEW x \in SUBSET (1..(k + 1)), k + 1 \notin x
        PROVE  h[x] = e[x]
    <3>0. \A y \in 1..(k + 1) : y = k + 1 \/ y \in 1..k
      OBVIOUS
    <3>1. x \in SUBSET (1..k) /\ x \ {Max(x)} \in SUBSET (1..(k + 1))
      BY <2>3, <3>0
    <3>2. h[x] = g[x] /\ h[x \ {Max(x)}] = g[x \ {Max(x)}]
      BY <2>3, <3>1
    <3>3. g[x] = IF x = {} THEN r ELSE StepOf(op, g[x \ {Max(x)}], s[Max(x)])
      BY <2>1, <3>1 DEF Folded
    <3>4. e[x] = IF x = {} THEN r ELSE StepOf(op, h[x \ {Max(x)}], s[Max(x)])
      OBVIOUS
    <3> HIDE DEF h, e
    <3> QED BY <3>2, <3>3, <3>4
  <2>4. h = e
    <3> DEFINE D == SUBSET (1..(k + 1))
    <3>1. \A x \in D : h[x] = e[x]
      <4> HIDE DEF h, e
      <4> QED BY <2>2, <2>3
    <3>2. DOMAIN h = D /\ DOMAIN e = D
      OBVIOUS
    <3>3. h = [x \in DOMAIN h |-> h[x]] /\ e = [x \in DOMAIN e |-> e[x]]
      BY Zenon
    <3> HIDE DEF D, h, e
    <3> QED BY <3>1, <3>2, <3>3
  <2>5. Folded(h, op, r, s, k + 1)
    <3> HIDE DEF h
    <3> QED BY <2>4 DEF Folded
  <2> QED BY <2>5
<1>3. Nat \subseteq T
  <2> HIDE DEF T
  <2> QED BY <1>1, <1>2, SetInduction
<1> QED BY <1>3

\* A fold takes the elements one after the other: acc[i] is what it has after i of them.
Steps(acc, op, r, s, n) ==
  /\ acc[0] = r
  /\ \A i \in 1..n : acc[i] = StepOf(op, acc[i - 1], s[i])

LEMMA FoldedSteps ==
  ASSUME NEW op, NEW r, NEW n \in Nat, NEW s, NEW g, Folded(g, op, r, s, n)
  PROVE  \E acc : Steps(acc, op, r, s, n) /\ g[1..n] = acc[n]
<1> DEFINE acc == [i \in 0..n |-> g[1..i]]
<1>1. acc[0] = r
  <2>1. 1..0 = {} /\ {} \in SUBSET (1..n) /\ 0 \in 0..n
    OBVIOUS
  <2>2. g[{}] = r
    BY <2>1 DEF Folded
  <2> QED BY <2>1, <2>2
<1>2. ASSUME NEW i \in 1..n
      PROVE  acc[i] = StepOf(op, acc[i - 1], s[i])
  <2>1. Max(1..i) = i
    <3>1. i - 1 \in Nat /\ (i - 1) + 1 = i /\ i \in 1..i
      OBVIOUS
    <3>2. 1..i \in SUBSET (1..((i - 1) + 1)) /\ (i - 1) + 1 \in 1..i
      BY <3>1
    <3>3. Max(1..i) = (i - 1) + 1
      BY <3>1, <3>2, MaxIsLast
    <3> QED BY <3>1, <3>3
  <2>2. (1..i) \ {i} = 1..(i - 1) /\ i - 1 \in 0..n /\ i \in 0..n
    OBVIOUS
  <2>3. 1..i \in SUBSET (1..n) /\ 1..i # {}
    <3>1. i \in 1..i
      OBVIOUS
    <3>2. \A x \in 1..i : x \in 1..n
      OBVIOUS
    <3> QED BY <3>1, <3>2
  <2>4. g[1..i] = StepOf(op, g[1..(i - 1)], s[i])
    BY <2>1, <2>2, <2>3 DEF Folded
  <2>5. acc[i] = g[1..i] /\ acc[i - 1] = g[1..(i - 1)]
    BY <2>2
  <2> HIDE DEF acc
  <2> QED BY <2>4, <2>5
<1>3. acc[n] = g[1..n]
  OBVIOUS
<1> HIDE DEF acc
<1> QED BY <1>1, <1>2, <1>3 DEF Steps

\* The reader takes the parts one after the other.
Takes(acc, r, s, n) ==
  /\ acc[0] = r
  /\ \A i \in 1..n : acc[i] = ReceivePart(acc[i - 1], s[i])

LEMMA ReceiveUnfolds ==
  ASSUME NEW r, NEW n \in Nat, NEW s, DOMAIN s = 1..n
  PROVE  \E acc : Takes(acc, r, s, n) /\ FoldLeft(ReceivePart, r, s) = acc[n]
<1> DEFINE g == CHOOSE f : f = [x \in SUBSET (1..n) |->
                                  IF x = {} THEN r ELSE ReceivePart(f[x \ {Max(x)}], s[Max(x)])]
<1>1. \A f : Folded(f, "part", r, s, n)
             <=> f = [x \in SUBSET (1..n) |->
                        IF x = {} THEN r ELSE ReceivePart(f[x \ {Max(x)}], s[Max(x)])]
  BY DEF Folded, StepOf
<1>2. Folded(g, "part", r, s, n)
  BY <1>1, FoldedExists
<1>3. FoldLeft(ReceivePart, r, s) = g[1..n]
  BY DEF FoldLeft, MapThenFoldSet
<1> HIDE DEF g
<1>4. PICK acc : Steps(acc, "part", r, s, n) /\ g[1..n] = acc[n]
  BY <1>2, FoldedSteps
<1>5. Takes(acc, r, s, n)
  BY <1>4 DEF Takes, Steps, StepOf
<1> QED BY <1>3, <1>4, <1>5

\* And a number takes its digits.
DigitsTaken(acc, s, n) ==
  /\ acc[0] = 0
  /\ \A i \in 1..n : acc[i] = DigitTaken(acc[i - 1], s[i])

LEMMA DigUnfolds ==
  ASSUME NEW n \in Nat, NEW s, DOMAIN s = 1..n
  PROVE  \E acc : DigitsTaken(acc, s, n) /\ Dig(s) = acc[n]
<1> DEFINE g == CHOOSE f : f = [x \in SUBSET (1..n) |->
                                  IF x = {} THEN 0 ELSE DigitTaken(f[x \ {Max(x)}], s[Max(x)])]
<1>1. \A f : Folded(f, "digit", 0, s, n)
             <=> f = [x \in SUBSET (1..n) |->
                        IF x = {} THEN 0 ELSE DigitTaken(f[x \ {Max(x)}], s[Max(x)])]
  BY DEF Folded, StepOf
<1>2. Folded(g, "digit", 0, s, n)
  BY <1>1, FoldedExists
<1>3. Dig(s) = g[1..n]
  BY DEF Dig, FoldLeft, MapThenFoldSet
<1> HIDE DEF g
<1>4. PICK acc : Steps(acc, "digit", 0, s, n) /\ g[1..n] = acc[n]
  BY <1>2, FoldedSteps
<1>5. DigitsTaken(acc, s, n)
  BY <1>4 DEF DigitsTaken, Steps, StepOf
<1> QED BY <1>3, <1>4, <1>5

-----------------------------------------------------------------------------
(***************************************************************************)
(* The reader.                                                              *)
(***************************************************************************)
IsReader(r) ==
  /\ r = [on |-> r.on, parts |-> r.parts]
  /\ r.on \in BOOLEAN /\ r.parts \in Seq(Part)

\* A part taken, field by field.
PartTaken(r, p, s) ==
  /\ IsReader(s)
  /\ p.part = "M" => s.on /\ s.parts = IF r.on THEN r.parts ELSE <<>>
  /\ p.part = "end" => ~s.on /\ s.parts = r.parts
  /\ p.part \notin {"M", "end"} =>
       /\ s.on <=> r.on
       /\ s.parts = IF r.on THEN Append(r.parts, p) ELSE r.parts

LEMMA ReceivePartIs ==
  ASSUME NEW r, IsReader(r), NEW p \in Part
  PROVE  PartTaken(r, p, ReceivePart(r, p))
<1> DEFINE s == ReceivePart(r, p)
<1>1. /\ r = [on |-> r.on, parts |-> r.parts] /\ r.on \in BOOLEAN /\ r.parts \in Seq(Part)
      /\ Append(r.parts, p) \in Seq(Part) /\ <<>> \in Seq(Part)
  BY DEF IsReader
<1>2. CASE p.part = "M"
  <2>1. CASE r.on
    <3>1. s = r
      BY <1>2, <2>1 DEF ReceivePart
    <3> HIDE DEF s
    <3> QED BY <1>2, <2>1, <3>1 DEF PartTaken, s
  <2>2. CASE ~r.on
    <3>1. s = [on |-> TRUE, parts |-> <<>>]
      BY <1>1, <1>2, <2>2 DEF ReceivePart, Emptied
    <3> HIDE DEF s
    <3>2. IsReader(s) /\ s.on /\ s.parts = <<>>
      BY <1>1, <3>1 DEF IsReader
    <3> QED BY <1>2, <2>2, <3>2 DEF PartTaken, s
  <2> QED BY <2>1, <2>2
<1>3. CASE p.part = "end"
  <2>1. s = [on |-> FALSE, parts |-> r.parts]
    BY <1>1, <1>3 DEF ReceivePart
  <2> HIDE DEF s
  <2>2. IsReader(s) /\ ~s.on /\ s.parts = r.parts
    BY <1>1, <2>1 DEF IsReader
  <2> QED BY <1>3, <2>2 DEF PartTaken, s
<1>4. CASE p.part \notin {"M", "end"}
  <2>1. CASE r.on
    <3>1. s = [on |-> r.on, parts |-> Append(r.parts, p)]
      BY <1>1, <1>4, <2>1 DEF ReceivePart
    <3> HIDE DEF s
    <3>2. IsReader(s) /\ s.on /\ s.parts = Append(r.parts, p)
      BY <1>1, <2>1, <3>1 DEF IsReader
    <3> QED BY <1>4, <2>1, <3>2 DEF PartTaken, s
  <2>2. CASE ~r.on
    <3>1. s = r
      BY <1>4, <2>2 DEF ReceivePart
    <3> HIDE DEF s
    <3> QED BY <1>4, <2>2, <3>1 DEF PartTaken, s
  <2> QED BY <2>1, <2>2
<1> QED BY <1>2, <1>3, <1>4

\* A sentence that comes to its end leaves the reader off.
LEMMA EndTurnsOff ==
  ASSUME NEW r, IsReader(r), NEW s \in Seq(Part), s # <<>>
  PROVE  /\ IsReader(FoldLeft(ReceivePart, r, s))
         /\ Last(s).part = "end" => ~FoldLeft(ReceivePart, r, s).on
<1> DEFINE n == Len(s)
<1>1. n \in Nat /\ n \in 1..n /\ n - 1 \in Nat /\ DOMAIN s = 1..n
  OBVIOUS
<1> HIDE DEF n
<1>2. PICK acc : Takes(acc, r, s, n) /\ FoldLeft(ReceivePart, r, s) = acc[n]
  BY <1>1, ReceiveUnfolds
<1> DEFINE T == {i \in Nat : i <= n => IsReader(acc[i])}
<1>3. 0 \in T
  BY <1>2 DEF Takes
<1>4. ASSUME NEW i \in Nat, i \in T
      PROVE  i + 1 \in T
  <2> SUFFICES ASSUME i + 1 <= n
               PROVE  IsReader(acc[i + 1])
    OBVIOUS
  <2>1. i + 1 \in 1..n /\ (i + 1) - 1 = i /\ i <= n
    BY <1>1
  <2>2. acc[i + 1] = ReceivePart(acc[i], s[i + 1])
    BY <1>2, <2>1 DEF Takes
  <2>3. s[i + 1] \in Part
    BY <2>1 DEF n
  <2>4. IsReader(acc[i])
    BY <1>4, <2>1
  <2> QED BY <2>2, <2>3, <2>4, ReceivePartIs DEF PartTaken
<1>5. Nat \subseteq T
  <2> HIDE DEF T
  <2> QED BY <1>3, <1>4, SetInduction
<1>6. IsReader(acc[n]) /\ IsReader(acc[n - 1])
  <2>1. n \in T /\ n - 1 \in T
    BY <1>1, <1>5
  <2> QED BY <1>1, <2>1
<1>7. acc[n] = ReceivePart(acc[n - 1], s[n])
  BY <1>1, <1>2 DEF Takes
<1>8. Last(s) = s[n] /\ s[n] \in Part
  BY <1>1 DEF Last, n
<1>9. PartTaken(acc[n - 1], s[n], acc[n])
  BY <1>6, <1>7, <1>8, ReceivePartIs
<1> QED BY <1>2, <1>8, <1>9 DEF PartTaken

\* What the line makes of a sentence, part by part.
Fresh(name) == [part |-> name, new |-> TRUE]

LEMMA PartsAre ==
  /\ Len(Parts) = 10 /\ Parts[1] = "M" /\ Parts[2] = "time" /\ Parts[10] = "end"
  /\ \A i \in 2..9 : Parts[i] \in Numbers
  /\ Numbers = {"time", "x1", "y1", "z1", "x2", "y2", "z2", "accel"}
<1>1. /\ Len(Parts) = 10 /\ Parts[1] = "M" /\ Parts[2] = "time" /\ Parts[3] = "x1"
      /\ Parts[4] = "y1" /\ Parts[5] = "z1" /\ Parts[6] = "x2" /\ Parts[7] = "y2"
      /\ Parts[8] = "z2" /\ Parts[9] = "accel" /\ Parts[10] = "end"
  BY DEF Parts
<1>2. \A i \in 2..9 : i \in {2, 3, 4, 5, 6, 7, 8, 9}
  OBVIOUS
<1>3. \A i \in {2, 3, 4, 5, 6, 7, 8, 9} : i \in 2..9
  OBVIOUS
<1>4. Numbers = {Parts[i] : i \in {2, 3, 4, 5, 6, 7, 8, 9}}
  BY <1>2, <1>3 DEF Numbers
<1> QED BY <1>1, <1>2, <1>4

LEMMA SentIs ==
  ASSUME NEW mags \in BOOLEAN
  PROVE  /\ Sent(mags) \in Seq(Part) /\ Len(Sent(mags)) = 10
         /\ Sent(mags)[1] = Fresh("M") /\ Sent(mags)[10] = Fresh("end")
         /\ mags => \A i \in 2..9 : Sent(mags)[i] = Fresh(Parts[i])
<1> DEFINE s == Sent(mags)
           Name(i) == IF Parts[i] = "time" /\ ~mags THEN "zero" ELSE Parts[i]
<1>2. s = [i \in 1..10 |-> Fresh(Name(i))]
  BY PartsAre DEF Sent, Fresh
<1>3. \A i \in 1..10 : Parts[i] \in Numbers \cup {"M", "end"}
  <2>1. \A i \in 1..10 : i \in 2..9 \/ i = 1 \/ i = 10
    OBVIOUS
  <2> QED BY <2>1, PartsAre
<1> HIDE DEF s
<1>4. \A i \in 1..10 : Fresh(Name(i)) \in Part
  BY <1>3 DEF Part, Fresh
<1>5. s \in Seq(Part) /\ Len(s) = 10
  <2> DEFINE n == 10
             P(i) == Fresh(Name(i))
  <2>1. s = [i \in 1..n |-> P(i)] /\ n \in Nat /\ (\A i \in 1..n : P(i) \in Part)
    BY <1>2, <1>4
  <2>2. n = 10
    OBVIOUS
  <2> HIDE DEF n, P
  <2>3. s \in Seq(Part) /\ Len(s) = n
    BY <2>1
  <2> QED BY <2>2, <2>3
<1>6. s[1] = Fresh("M") /\ s[10] = Fresh("end")
  BY <1>2, PartsAre
<1>7. mags => \A i \in 2..9 : s[i] = Fresh(Parts[i])
  BY <1>2
<1> QED BY <1>5, <1>6, <1>7 DEF s

\* Of a whole sentence a reader that is off takes the numbers, all that are asked for.
IsWhole(parts) == Len(parts) = Asked /\ \A j \in 1..Asked : parts[j] = Fresh(Parts[j + 1])

\* A list with a part behind it.
LEMMA AppendIs ==
  ASSUME NEW l \in Seq(Part), NEW p \in Part, NEW a, a = Append(l, p)
  PROVE  /\ a \in Seq(Part) /\ Len(a) = Len(l) + 1 /\ a[Len(l) + 1] = p
         /\ \A i \in 1..Len(l) : a[i] = l[i]
  BY AppendProperties

LEMMA WholeIsTaken ==
  ASSUME NEW r, IsReader(r), ~r.on
  PROVE  IsWhole(FoldLeft(ReceivePart, r, Sent(TRUE)).parts)
<1> DEFINE s == Sent(TRUE)
<1>1. /\ s \in Seq(Part) /\ Len(s) = 10 /\ s[1] = Fresh("M") /\ s[10] = Fresh("end")
      /\ \A i \in 2..9 : s[i] = Fresh(Parts[i])
  BY SentIs
<1> HIDE DEF s
<1> DEFINE n == Len(s)
<1>2. PICK acc : Takes(acc, r, s, n) /\ FoldLeft(ReceivePart, r, s) = acc[n]
  <2>1. DOMAIN s = 1..n /\ n \in Nat
    BY <1>1
  <2> HIDE DEF n
  <2> QED BY <2>1, ReceiveUnfolds
<1>3. acc[0] = r /\ \A i \in 1..10 : acc[i] = ReceivePart(acc[i - 1], s[i])
  BY <1>1, <1>2 DEF Takes
<1>4. \A i \in 1..10 : s[i] \in Part
  <2>1. s \in Seq(Part) /\ Len(s) = 10
    BY <1>1
  <2> QED BY <2>1, ElementOfSeq
<1>5. ASSUME NEW i \in 1..10, IsReader(acc[i - 1])
      PROVE  PartTaken(acc[i - 1], s[i], acc[i])
  BY <1>3, <1>4, <1>5, ReceivePartIs
<1>6. s[1].part = "M" /\ s[10].part = "end" /\ \A i \in 2..9 : s[i].part \notin {"M", "end"}
  BY <1>1, PartsAre DEF Fresh
<1> DEFINE Holds(i) == /\ IsReader(acc[i]) /\ acc[i].on /\ Len(acc[i].parts) = i - 1
                       /\ \A j \in 1..(i - 1) : acc[i].parts[j] = s[j + 1]
<1>7. Holds(1)
  <2>1. 1 \in 1..10 /\ 1 - 1 = 0 /\ IsReader(acc[0])
    BY <1>3
  <2>2. PartTaken(acc[0], s[1], acc[1])
    BY <1>5, <2>1
  <2> QED BY <1>3, <1>6, <2>2 DEF PartTaken
<1>8. ASSUME NEW i \in 2..9, Holds(i - 1)
      PROVE  Holds(i)
  <2> DEFINE l == acc[i - 1].parts
             a == acc[i].parts
  <2>1. i \in 1..10 /\ PartTaken(acc[i - 1], s[i], acc[i])
    BY <1>5, <1>8
  <2>2. IsReader(acc[i]) /\ acc[i].on /\ a = Append(l, s[i])
    BY <1>6, <1>8, <2>1 DEF PartTaken
  <2>3. /\ l \in Seq(Part) /\ s[i] \in Part /\ Len(l) = i - 2
        /\ \A j \in 1..(i - 2) : l[j] = s[j + 1]
    BY <1>4, <1>8, <2>1 DEF IsReader
  <2>4. i - 2 \in Nat /\ (i - 2) + 1 = i - 1 /\ (i - 1) + 1 = i
    OBVIOUS
  <2> HIDE DEF l, a
  <2>5. Len(a) = Len(l) + 1 /\ a[Len(l) + 1] = s[i] /\ \A j \in 1..Len(l) : a[j] = l[j]
    BY <2>2, <2>3, AppendIs
  <2>6. Len(a) = i - 1 /\ a[i - 1] = s[i] /\ \A j \in 1..(i - 2) : a[j] = s[j + 1]
    BY <2>3, <2>4, <2>5
  <2>7. \A j \in 1..(i - 1) : j = i - 1 \/ j \in 1..(i - 2)
    BY <2>4
  <2>8. \A j \in 1..(i - 1) : a[j] = s[j + 1]
    BY <2>4, <2>6, <2>7
  <2> QED BY <2>2, <2>6, <2>8 DEF l, a
<1>9. Holds(9)
  <2> DEFINE T == {i \in Nat : i <= 8 => Holds(i + 1)}
  <2>1. 0 \in T
    BY <1>7
  <2>2. ASSUME NEW i \in Nat, i \in T PROVE i + 1 \in T
    <3> SUFFICES ASSUME i + 1 <= 8 PROVE Holds((i + 1) + 1)
      OBVIOUS
    <3>1. (i + 1) + 1 \in 2..9 /\ ((i + 1) + 1) - 1 = i + 1 /\ i <= 8
      OBVIOUS
    <3> HIDE DEF Holds
    <3>2. Holds(i + 1)
      BY <2>2, <3>1
    <3>3. PICK k \in 2..9 : k = (i + 1) + 1 /\ k - 1 = i + 1
      BY <3>1
    <3>4. Holds(k)
      BY <1>8, <3>2, <3>3
    <3> QED BY <3>3, <3>4
  <2>3. Nat \subseteq T
    <3> HIDE DEF T
    <3> QED BY <2>1, <2>2, SetInduction
  <2>4. 8 \in T
    <3> HIDE DEF T
    <3> QED BY <2>3
  <2>5. Holds(8 + 1)
    <3> HIDE DEF Holds
    <3> QED BY <2>4
  <2>6. 8 + 1 = 9
    OBVIOUS
  <2> HIDE DEF Holds
  <2> QED BY <2>5, <2>6
<1>10. /\ IsReader(acc[9]) /\ acc[9].on /\ Len(acc[9].parts) = 8
       /\ \A j \in 1..8 : acc[9].parts[j] = s[j + 1]
  BY <1>9
<1>11. FoldLeft(ReceivePart, r, s) = acc[10] /\ acc[10].parts = acc[9].parts
  <2>1. 10 \in 1..10 /\ 10 - 1 = 9
    OBVIOUS
  <2>2. PartTaken(acc[9], s[10], acc[10])
    BY <1>5, <1>10, <2>1
  <2> QED BY <1>1, <1>2, <1>6, <2>2 DEF PartTaken
<1>12. \A j \in 1..8 : acc[9].parts[j] = Fresh(Parts[j + 1])
  BY <1>1, <1>10
<1> QED BY <1>10, <1>11, <1>12 DEF s, IsWhole, Asked

\* The handler reads them in their places, and asks for nothing behind them.
LEMMA WholeIsRead ==
  ASSUME NEW parts, IsWhole(parts)
  PROVE  /\ Handled(parts) = {Read(parts)}
         /\ Read(parts) = [at |-> "count", time |-> Fresh("time"),
                           axes |-> [a \in Axes |-> Fresh(AxisOf(a))]]
<1>1. Asked = 8 /\ Len(parts) = 8 /\ \A j \in 1..8 : parts[j] = Fresh(Parts[j + 1])
  BY DEF IsWhole, Asked
<1>2. ASSUME NEW j \in 1..8, NEW d PROVE Field(parts, j, d) = Fresh(Parts[j + 1])
  <2>1. PICK name \in Numbers : name = Parts[j + 1]
    BY PartsAre
  <2>2. parts[j] = Fresh(name) /\ j <= Len(parts)
    BY <1>1, <2>1
  <2>3. Fresh(name).part = name
    BY DEF Fresh
  <2> QED BY <2>1, <2>2, <2>3 DEF Field
<1>3. Field(parts, 1, None) = Fresh("time")
  <2>1. Field(parts, 1, None) = Fresh(Parts[1 + 1])
    BY <1>2
  <2> QED BY <2>1, PartsAre
<1>4. ASSUME NEW a \in Axes PROVE Axis(parts, a) = Fresh(AxisOf(a))
  <2>1. a + 1 \in 1..8 /\ (a + 1) + 1 = a + 2
    BY DEF Axes
  <2>2. PICK d : Axis(parts, a) = Field(parts, a + 1, d)
    BY DEF Axis
  <2>3. PICK j \in 1..8 : j = a + 1 /\ j + 1 = a + 2
    BY <2>1
  <2>4. Field(parts, j, d) = Fresh(Parts[j + 1])
    BY <1>2
  <2> QED BY <2>2, <2>3, <2>4 DEF AxisOf
<1>5. (Len(parts) + 1)..Asked = {}
  BY <1>1
<1>6. Handled(parts) = {Read(parts)}
  BY <1>5 DEF Handled
<1>7. Read(parts) = [at |-> "count", time |-> Field(parts, 1, None),
                     axes |-> [a \in Axes |-> Axis(parts, a)]]
  BY DEF Read
<1>8. [a \in Axes |-> Axis(parts, a)] = [a \in Axes |-> Fresh(AxisOf(a))]
  BY <1>4
<1> QED BY <1>3, <1>6, <1>7, <1>8

-----------------------------------------------------------------------------
(***************************************************************************)
(* Every state of the board.                                                *)
(***************************************************************************)
\* Behind the end of a sentence nothing is being collected.
ReaderInv ==
  /\ IsReader(reader)
  /\ line.ended => ~reader.on
  /\ handler = [at |-> handler.at, time |-> handler.time, axes |-> handler.axes]
  /\ WholeSentenceRecorded

\* Of the parts before, none is new.
LEMMA BeforeIs ==
  ASSUME NEW r, IsReader(r)
  PROVE  LET b == [r EXCEPT !.parts = [i \in DOMAIN @ |-> [@[i] EXCEPT !.new = FALSE]]]
         IN IsReader(b) /\ b.on = r.on
<1> DEFINE l == r.parts
           o == [i \in DOMAIN l |-> [l[i] EXCEPT !.new = FALSE]]
<1>1. l \in Seq(Part) /\ r = [on |-> r.on, parts |-> l] /\ r.on \in BOOLEAN
  BY DEF IsReader
<1>2. o \in Seq(Part)
  <2> HIDE DEF l
  <2> DEFINE n == Len(l)
  <2>1. n \in Nat /\ DOMAIN l = 1..n /\ \A i \in 1..n : l[i] \in Part
    BY <1>1
  <2>2. \A i \in 1..n : [l[i] EXCEPT !.new = FALSE] \in Part
    BY <2>1 DEF Part
  <2> HIDE DEF n
  <2> QED BY <2>1, <2>2
<1> DEFINE b == [r EXCEPT !.parts = o]
<1>3. b = [on |-> r.on, parts |-> o]
  <2> HIDE DEF o
  <2> QED BY <1>1
<1>4. IsReader(b) /\ b.on = r.on
  <2> HIDE DEF o, b
  <2> QED BY <1>1, <1>2, <1>3 DEF IsReader
<1> QED BY <1>4

LEMMA PartReplaced ==
  ASSUME NEW l \in Seq(Part), NEW i \in 1..Len(l), NEW p \in Part
  PROVE  [l EXCEPT ![i] = p] \in Seq(Part) /\ Len([l EXCEPT ![i] = p]) = Len(l)
  BY ExceptSeq

\* What the line makes of a sentence is a sentence, and a whole one is as it was sent.
LEMMA LineIs ==
  ASSUME NEW mags \in BOOLEAN, NEW s \in OnTheLine(mags)
  PROVE  /\ s.parts \in Seq(Part) /\ s.parts # <<>>
         /\ ~s.damaged => s.parts = Sent(mags)
<1> DEFINE w == Sent(mags)
<1>1. w \in Seq(Part) /\ Len(w) = 10
  BY SentIs
<1> HIDE DEF w
<1>2. CASE s = [parts |-> w, damaged |-> FALSE]
  <2>1. w # <<>>
    BY <1>1, EmptySeq
  <2>2. s.parts = w
    BY <1>2
  <2> QED BY <1>1, <2>1, <2>2 DEF w
<1>3. ASSUME NEW i \in 1..10, s = [parts |-> Lost(w, i), damaged |-> TRUE]
      PROVE  s.damaged /\ s.parts \in Seq(Part) /\ s.parts # <<>>
  <2> DEFINE n == Len(w)
             a == SubSeq(w, 1, i - 1)
             b == SubSeq(w, i + 1, n)
  <2>1. s.parts = a \o b /\ s.damaged
    BY <1>3 DEF Lost, RemoveAt
  <2>2. /\ a \in Seq(Part) /\ b \in Seq(Part) /\ Len(a) = i - 1 /\ Len(b) = 10 - i
    <3>1. n = 10 /\ i \in 1..n
      BY <1>1
    <3>2. \A k \in 1..n : w[k] \in Part
      BY <1>1, ElementOfSeq
    <3> HIDE DEF n
    <3>3. a \in Seq(Part) /\ Len(a) = i - 1
      BY <3>1, <3>2, SubSeqProperties
    <3>4. b \in Seq(Part) /\ Len(b) = 10 - i
      BY <3>1, <3>2, SubSeqProperties
    <3> QED BY <3>3, <3>4
  <2> HIDE DEF a, b
  <2>3. a \o b \in Seq(Part) /\ Len(a \o b) = 9
    BY <2>2, ConcatProperties
  <2> QED BY <2>1, <2>3
<1>4. ASSUME NEW i \in 2..9, s = [parts |-> Unreadable(w, i), damaged |-> TRUE]
      PROVE  s.damaged /\ s.parts \in Seq(Part) /\ s.parts # <<>>
  <2> DEFINE p == [w[i] EXCEPT !.part = "text"]
             u == [w EXCEPT ![i] = p]
  <2>1. s.parts = u /\ s.damaged
    BY <1>4 DEF Unreadable
  <2>2. p \in Part
    <3>1. i \in 1..Len(w)
      BY <1>1
    <3>2. w[i] \in Part
      BY <1>1, <3>1, ElementOfSeq
    <3> QED BY <3>2 DEF Part
  <2>3. u \in Seq(Part) /\ Len(u) = 10
    <3>1. i \in 1..Len(w)
      BY <1>1
    <3> HIDE DEF p
    <3>2. u \in Seq(Part) /\ Len(u) = Len(w)
      BY <1>1, <2>2, <3>1, PartReplaced
    <3> QED BY <1>1, <3>2
  <2> QED BY <2>1, <2>3
<1>5. Len(Parts) = 10
  BY PartsAre
<1>6. \/ s = [parts |-> w, damaged |-> FALSE]
      \/ \E i \in 1..10 : s = [parts |-> Lost(w, i), damaged |-> TRUE]
      \/ \E i \in 2..9 : s = [parts |-> Unreadable(w, i), damaged |-> TRUE]
  BY <1>5 DEF OnTheLine, w
<1> QED BY <1>2, <1>3, <1>4, <1>6

\* The sentence that comes whole behind an end is taken from its '$' on.
LEMMA ReceiveKeeps ==
  ASSUME ReaderInv, Receive
  PROVE  ReaderInv'
<1>1. PICK mags \in BOOLEAN : \E s \in OnTheLine(mags) :
        LET before == [reader EXCEPT !.parts =
                         [i \in DOMAIN @ |-> [@[i] EXCEPT !.new = FALSE]]]
            after == FoldLeft(ReceivePart, before, s.parts)
            ends == Last(s.parts).part = "end"
        IN /\ line' = [damage |-> line.damage + (IF s.damaged THEN 1 ELSE 0),
                       silent |-> line.silent + (IF mags THEN 0 ELSE 1),
                       ended |-> ends, whole |-> line.ended /\ ~s.damaged /\ mags]
           /\ IF ends /\ (reader.on \/ s.parts[1].part = "M")
              THEN handler' \in Handled(after.parts) /\ reader' = Emptied(after)
              ELSE reader' = after /\ UNCHANGED handler
  BY DEF Receive
<1>2. PICK s \in OnTheLine(mags) :
        LET before == [reader EXCEPT !.parts =
                         [i \in DOMAIN @ |-> [@[i] EXCEPT !.new = FALSE]]]
            after == FoldLeft(ReceivePart, before, s.parts)
            ends == Last(s.parts).part = "end"
        IN /\ line' = [damage |-> line.damage + (IF s.damaged THEN 1 ELSE 0),
                       silent |-> line.silent + (IF mags THEN 0 ELSE 1),
                       ended |-> ends, whole |-> line.ended /\ ~s.damaged /\ mags]
           /\ IF ends /\ (reader.on \/ s.parts[1].part = "M")
              THEN handler' \in Handled(after.parts) /\ reader' = Emptied(after)
              ELSE reader' = after /\ UNCHANGED handler
  BY <1>1
<1> DEFINE before == [reader EXCEPT !.parts =
                        [i \in DOMAIN @ |-> [@[i] EXCEPT !.new = FALSE]]]
           after == FoldLeft(ReceivePart, before, s.parts)
           ends == Last(s.parts).part = "end"
<1>3. /\ line'.ended = ends /\ line'.whole = (line.ended /\ ~s.damaged /\ mags)
      /\ IF ends /\ (reader.on \/ s.parts[1].part = "M")
         THEN handler' \in Handled(after.parts) /\ reader' = Emptied(after)
         ELSE reader' = after /\ UNCHANGED handler
  BY <1>2
<1>4. IsReader(before) /\ before.on = reader.on
  BY BeforeIs DEF ReaderInv
<1>5. /\ s.parts \in Seq(Part) /\ s.parts # <<>>
      /\ ~s.damaged => s.parts = Sent(mags)
  BY LineIs
<1> HIDE DEF before
<1>6. IsReader(after) /\ (ends => ~after.on)
  BY <1>4, <1>5, EndTurnsOff
<1>7. IsReader(Emptied(after)) /\ Emptied(after).on = after.on
  <2> HIDE DEF after
  <2>1. Emptied(after) = [on |-> after.on, parts |-> <<>>]
    BY <1>6 DEF Emptied, IsReader
  <2> QED BY <1>6, <2>1 DEF IsReader
<1>8. handler.at = "none"
  BY DEF Receive
<1>9. line'.whole => handler' = [at |-> "count", time |-> Fresh("time"),
                                 axes |-> [a \in Axes |-> Fresh(AxisOf(a))]]
  <2> SUFFICES ASSUME line.ended, ~s.damaged, mags
               PROVE  handler' = [at |-> "count", time |-> Fresh("time"),
                                 axes |-> [a \in Axes |-> Fresh(AxisOf(a))]]
    BY <1>3
  <2>1. ~before.on /\ s.parts = Sent(TRUE)
    BY <1>4, <1>5 DEF ReaderInv
  <2>2. IsWhole(after.parts)
    BY <1>4, <2>1, WholeIsTaken
  <2>3. ends /\ s.parts[1].part = "M"
    <3> DEFINE w == Sent(TRUE)
    <3>1. w \in Seq(Part) /\ Len(w) = 10 /\ w[1] = Fresh("M") /\ w[10] = Fresh("end")
      BY SentIs
    <3> HIDE DEF w
    <3>2. w[1].part = "M" /\ Last(w).part = "end"
      BY <3>1 DEF Last, Fresh
    <3> QED BY <2>1, <3>2 DEF w
  <2>4. handler' \in Handled(after.parts)
    BY <1>3, <2>3
  <2> HIDE DEF after
  <2> QED BY <2>2, <2>4, WholeIsRead
<1> HIDE DEF after, ends
<1>10. IsReader(reader')
  BY <1>3, <1>6, <1>7
<1>11. line'.ended => ~reader'.on
  BY <1>3, <1>6, <1>7
<1>12. handler' = [at |-> handler'.at, time |-> handler'.time, axes |-> handler'.axes]
  <2>1. CASE handler' = handler
    BY <2>1 DEF ReaderInv
  <2>2. CASE handler' \in Handled(after.parts)
    <3>1. PICK pc : handler' = [Read(after.parts) EXCEPT !.at = pc]
      <4>1. Read(after.parts) = [Read(after.parts) EXCEPT !.at = "count"]
        BY DEF Read
      <4> QED BY <2>2, <4>1 DEF Handled
    <3> QED BY <3>1 DEF Read
  <2> QED BY <1>3, <2>1, <2>2
<1>13. WholeSentenceRecorded'
  <2> SUFFICES ASSUME line'.whole
               PROVE  /\ handler'.at # "null"
                      /\ handler'.time = [part |-> "time", new |-> TRUE]
                      /\ \A a \in Axes : handler'.axes[a] = [part |-> AxisOf(a), new |-> TRUE]
    BY DEF WholeSentenceRecorded
  <2>1. PICK x : x = [a \in Axes |-> Fresh(AxisOf(a))]
    OBVIOUS
  <2>2. handler' = [at |-> "count", time |-> Fresh("time"), axes |-> x]
    BY <1>9, <2>1
  <2>3. handler'.at = "count" /\ handler'.time = Fresh("time") /\ handler'.axes = x
    BY <2>2
  <2>4. \A a \in Axes : x[a] = Fresh(AxisOf(a))
    BY <2>1
  <2> QED BY <2>3, <2>4 DEF Fresh
<1> QED BY <1>10, <1>11, <1>12, <1>13 DEF ReaderInv

\* What the handler has read stays as it is until it is handed over.
LEMMA HandlerKeeps ==
  ASSUME ReaderInv, UNCHANGED <<reader, line>>, handler.at # "none",
         handler' = [handler EXCEPT !.at = "push"] \/ handler' = Outside
  PROVE  ReaderInv'
<1>1. CASE handler' = [handler EXCEPT !.at = "push"]
  <2>1. handler' = [at |-> "push", time |-> handler.time, axes |-> handler.axes]
    BY <1>1 DEF ReaderInv
  <2>2. WholeSentenceRecorded'
    BY <2>1 DEF ReaderInv, WholeSentenceRecorded
  <2>3. handler' = [at |-> handler'.at, time |-> handler'.time, axes |-> handler'.axes]
    BY <2>1
  <2> QED BY <2>2, <2>3 DEF ReaderInv
<1>2. CASE handler' = Outside
  BY <1>2 DEF ReaderInv, WholeSentenceRecorded, Outside
<1> QED BY <1>1, <1>2

LEMMA ReaderStep ==
  ASSUME ReaderInv, [BoardNext]_allVars
  PROVE  ReaderInv'
<1>1. ASSUME UNCHANGED <<reader, handler, line>>
      PROVE  ReaderInv'
  BY <1>1 DEF ReaderInv, WholeSentenceRecorded
<1>2. CASE Receive
  BY <1>2, ReceiveKeeps
<1>3. CASE Detect
  <2>1. handler.at # "none" /\ UNCHANGED <<reader, line>>
    BY <1>3 DEF Detect
  <2> QED BY <1>3, <2>1, HandlerKeeps DEF Detect
<1>4. CASE HandOver
  <2>1. handler.at # "none" /\ UNCHANGED <<reader, line>>
    BY <1>4 DEF HandOver
  <2> QED BY <1>4, <2>1, HandlerKeeps DEF HandOver
<1>5. CASE Others
  BY <1>1, <1>5 DEF Others, boardVars
<1>6. CASE Restart
  BY <1>1, <1>6 DEF Restart
<1>7. CASE RestartEnds
  BY <1>1, <1>7 DEF RestartEnds
<1>8. CASE BoardTick
  BY <1>1, <1>8 DEF BoardTick
<1>9. CASE UNCHANGED allVars
  BY <1>1, <1>9 DEF allVars, boardVars
<1> QED BY <1>2, <1>3, <1>4, <1>5, <1>6, <1>7, <1>8, <1>9 DEF BoardNext

LEMMA ReaderInit ==
  ASSUME BoardInit
  PROVE  ReaderInv
<1>1. reader = [on |-> FALSE, parts |-> <<>>] /\ <<>> \in Seq(Part)
  BY DEF BoardInit
<1>2. IsReader(reader) /\ ~reader.on
  BY <1>1 DEF IsReader
<1>3. handler = Outside
  BY DEF BoardInit
<1> QED BY <1>2, <1>3 DEF ReaderInv, WholeSentenceRecorded, Outside

\* NmeaSentenceReader::receiveChar and MagsLogger::onNmeaSentenceReceived: whatever the
\* line has lost or garbled, and however long it goes on doing so, a sentence that comes
\* whole behind the end of another one does not end the program and is recorded as it was
\* sent, each value in its place.
THEOREM WholeSentenceIsKept == BoardSpec => []WholeSentenceRecorded
<1>1. BoardInit => ReaderInv
  BY ReaderInit
<1>2. ReaderInv /\ [BoardNext]_allVars => ReaderInv'
  BY ReaderStep
<1>3. ReaderInv => WholeSentenceRecorded
  BY DEF ReaderInv
<1> QED BY <1>1, <1>2, <1>3, PTL DEF BoardSpec

-----------------------------------------------------------------------------
(***************************************************************************)
(* The cursor of CsvParser.                                                 *)
(***************************************************************************)
IsText == text \in Seq(Alphabet)

\* A set of numbers that is not empty has a smallest one.
LEMMA SmallestExists ==
  ASSUME NEW S, S \subseteq Nat, S # {}
  PROVE  \E q \in S : \A r \in S : q <= r
<1> DEFINE R == {ss \in Nat \X Nat : ss[1] < ss[2]}
<1>1. IsWellFoundedOn(R, Nat)
  BY LessWF
<1>2. PICK m \in S : \A y \in S : <<y, m>> \notin R
  <2> HIDE DEF R
  <2> QED BY <1>1, WFMin
<1>3. ASSUME NEW y \in S PROVE m <= y
  <2>1. y \in Nat /\ m \in Nat /\ ~(y < m)
    BY <1>2
  <2> QED BY <2>1
<1> QED BY <1>3

LEMMA TextIs ==
  ASSUME IsText
  PROVE  TextEnd \in Nat /\ \A q \in 1..TextEnd : text[q] \in Alphabet
  BY ElementOfSeq DEF IsText, TextEnd

\* A loop passes what is outside its stops, and stops at the first of them.
LEMMA ScanIs ==
  ASSUME IsText, NEW from \in 1..(TextEnd + 1), NEW stops, NEW s, s = Scan(from, stops)
  PROVE  /\ s \in from..(TextEnd + 1)
         /\ \A q \in from..(s - 1) : q \in 1..TextEnd /\ text[q] \notin stops
         /\ s <= TextEnd => text[s] \in stops
<1> DEFINE hits == {q \in from..TextEnd : text[q] \in stops}
<1>1. TextEnd \in Nat /\ from \in Nat
  BY TextIs
<1>2. s = IF hits = {} THEN TextEnd + 1 ELSE CHOOSE q \in hits : \A r \in hits : q <= r
  BY DEF Scan
<1>3. CASE hits = {}
  BY <1>1, <1>2, <1>3
<1>4. CASE hits # {}
  <2>1. hits \subseteq Nat
    BY <1>1
  <2>2. s \in hits /\ \A r \in hits : s <= r
    <3> HIDE DEF hits
    <3> QED BY <1>2, <1>4, <2>1, SmallestExists
  <2>3. s \in from..TextEnd /\ text[s] \in stops
    BY <2>2
  <2>4. ASSUME NEW q \in from..(s - 1) PROVE q \in 1..TextEnd /\ text[q] \notin stops
    <3>1. q \in from..TextEnd /\ ~(s <= q)
      BY <1>1, <2>3
    <3>2. q \notin hits
      BY <2>2, <3>1
    <3> QED BY <1>1, <3>1, <3>2
  <2> QED BY <1>1, <2>3, <2>4
<1> QED BY <1>3, <1>4

-----------------------------------------------------------------------------
(***************************************************************************)
(* Commas.                                                                  *)
(***************************************************************************)
LEMMA CommasFinite ==
  ASSUME NEW l \in Nat, NEW p \in Nat
  PROVE  IsFiniteSet({q \in l..(p - 1) : text[q] = Comma})
<1>1. IsFiniteSet(l..(p - 1))
  BY FS_Interval
<1> QED BY <1>1, FS_Subset

\* Where there is none, none is counted.
LEMMA NoComma ==
  ASSUME last.line \in Nat, NEW p \in Nat, NEW r \in Nat, last.line <= p, p <= r,
         \A q \in p..(r - 1) : text[q] # Comma
  PROVE  CommasBefore(r) = CommasBefore(p)
<1>1. {q \in last.line..(r - 1) : text[q] = Comma} = {q \in last.line..(p - 1) : text[q] = Comma}
  OBVIOUS
<1> QED BY <1>1 DEF CommasBefore

LEMMA OneComma ==
  ASSUME last.line \in Nat, NEW p \in Nat, last.line <= p, text[p] = Comma
  PROVE  CommasBefore(p + 1) = CommasBefore(p) + 1
<1> DEFINE A == {q \in last.line..(p - 1) : text[q] = Comma}
           B == {q \in last.line..p : text[q] = Comma}
<1>1. B = A \cup {p} /\ p \notin A
  OBVIOUS
<1>2. IsFiniteSet(A)
  BY CommasFinite
<1>3. (p + 1) - 1 = p
  OBVIOUS
<1>4. CommasBefore(p + 1) = Cardinality(B) /\ CommasBefore(p) = Cardinality(A)
  BY <1>3 DEF CommasBefore
<1> HIDE DEF A, B
<1> QED BY <1>1, <1>2, <1>4, FS_AddElement

\* At the line's begin there is none yet.
LEMMA CommasAre ==
  ASSUME last.line \in Nat
  PROVE  /\ CommasBefore(last.line) = 0
         /\ \A p \in Nat : CommasBefore(p) \in Nat
<1>1. {q \in last.line..(last.line - 1) : text[q] = Comma} = {}
  OBVIOUS
<1>2. CommasBefore(last.line) = 0
  BY <1>1, FS_EmptySet DEF CommasBefore
<1>3. ASSUME NEW p \in Nat PROVE CommasBefore(p) \in Nat
  BY CommasFinite, FS_CardinalityType DEF CommasBefore
<1> QED BY <1>2, <1>3

\* There are no fewer of them further on.
LEMMA CommasGrow ==
  ASSUME last.line \in Nat, NEW p \in Nat, NEW r \in Nat, p <= r
  PROVE  CommasBefore(p) <= CommasBefore(r)
<1> DEFINE A == {q \in last.line..(p - 1) : text[q] = Comma}
           B == {q \in last.line..(r - 1) : text[q] = Comma}
<1>1. A \subseteq B
  OBVIOUS
<1>2. IsFiniteSet(B)
  BY CommasFinite
<1> HIDE DEF A, B
<1>3. Cardinality(A) <= Cardinality(B)
  BY <1>1, <1>2, FS_Subset
<1> QED BY <1>3 DEF CommasBefore, A, B

\* Without a line end before it, a position is in its line.
LEMMA InLine ==
  ASSUME IsText, last.line \in 1..(TextEnd + 1), NEW p \in last.line..(TextEnd + 1),
         \A q \in last.line..(p - 1) : text[q] \notin Endlines
  PROVE  p <= LineEnd /\ LineEnd \in Nat
<1> DEFINE e == LineEnd
<1>1. /\ e \in last.line..(TextEnd + 1)
      /\ e <= TextEnd => text[e] \in Endlines
  BY ScanIs DEF LineEnd
<1>2. TextEnd \in Nat
  BY TextIs
<1> HIDE DEF e
<1>3. ~(e \in last.line..(p - 1))
  BY <1>1, <1>2
<1> QED BY <1>1, <1>2, <1>3 DEF e

-----------------------------------------------------------------------------
(***************************************************************************)
(* What a call takes.                                                       *)
(***************************************************************************)
\* No value reaches beyond its field, and one that is not found is left as it was, or
\* turned round.
ValueTaken(c, from, t) ==
  /\ t.to \in from..(TextEnd + 1)
  /\ \A q \in from..(t.to - 1) : text[q] \notin Endlines \cup {Comma}
  /\ t.eol \in BOOLEAN
  /\ c.kind \in {"int", "double"} /\ ~t.found =>
       t.value = value \/ (Sign(from) /\ t.value = Negated(value))

LEMMA CharactersDiffer ==
  /\ Comma \notin Digits /\ Comma \notin Above /\ Comma \notin Blanks /\ Comma # "-"
  /\ Endlines \cap Digits = {} /\ Endlines \cap Above = {} /\ Endlines \cap Blanks = {}
  /\ "-" \notin Endlines /\ Comma \notin Endlines
  BY DEF Comma, Digits, Above, Blanks, Endlines

\* Digits are passed.
LEMMA DigitsPassed ==
  ASSUME IsText, NEW from \in 1..(TextEnd + 1), NEW s, s = Scan(from, Alphabet \ Digits)
  PROVE  /\ s \in from..(TextEnd + 1)
         /\ \A q \in from..(s - 1) : text[q] \notin Endlines \cup {Comma}
<1>1. /\ s \in from..(TextEnd + 1)
      /\ \A q \in from..(s - 1) : q \in 1..TextEnd /\ text[q] \notin Alphabet \ Digits
  BY ScanIs
<1>2. \A q \in from..(s - 1) : text[q] \in Digits
  BY <1>1, TextIs
<1> QED BY <1>1, <1>2, CharactersDiffer

LEMMA UnsignedIs ==
  ASSUME IsText, NEW from \in 1..TextEnd
  PROVE  /\ Unsigned(from) \in from..(TextEnd + 1)
         /\ \A q \in from..(Unsigned(from) - 1) : text[q] \notin Endlines \cup {Comma}
<1>1. TextEnd \in Nat
  BY TextIs
<1>2. CASE Sign(from)
  <2>1. Unsigned(from) = from + 1
    BY <1>2 DEF Unsigned
  <2>2. \A q \in from..((from + 1) - 1) : q = from
    BY <1>1
  <2>3. text[from] = "-"
    BY <1>2 DEF Sign
  <2> QED BY <1>1, <2>1, <2>2, <2>3, CharactersDiffer
<1>3. CASE ~Sign(from)
  <2>1. Unsigned(from) = from
    BY <1>1, <1>3 DEF Unsigned
  <2> QED BY <1>1, <2>1
<1> QED BY <1>2, <1>3

\* One stretch behind another.
LEMMA Stretches ==
  ASSUME IsText, NEW a \in 1..(TextEnd + 1), NEW b \in a..(TextEnd + 1),
         NEW d \in b..(TextEnd + 1), NEW S,
         \A q \in a..(b - 1) : text[q] \notin S, \A q \in b..(d - 1) : text[q] \notin S
  PROVE  d \in a..(TextEnd + 1) /\ \A q \in a..(d - 1) : text[q] \notin S
<1>1. TextEnd \in Nat
  BY TextIs
<1>2. \A q \in a..(d - 1) : q \in a..(b - 1) \/ q \in b..(d - 1)
  BY <1>1
<1> QED BY <1>1, <1>2

LEMMA StringTaken ==
  ASSUME IsText, NEW from \in 1..TextEnd, NEW size \in Nat, NEW c, c.kind = "string"
  PROVE  ValueTaken(c, from, TakeString(from, size))
<1> DEFINE stop == Scan(from, Endlines \cup {Comma, "NUL"})
           to == IF stop < from + size THEN stop ELSE from + size
           t == TakeString(from, size)
<1>1. TextEnd \in Nat /\ from \in 1..(TextEnd + 1)
  BY TextIs
<1>2. /\ stop \in from..(TextEnd + 1)
      /\ \A q \in from..(stop - 1) : q \in 1..TextEnd /\ text[q] \notin Endlines \cup {Comma, "NUL"}
  <2> HIDE DEF stop
  <2> QED BY <1>1, ScanIs DEF stop
<1> HIDE DEF stop
<1>3. /\ to \in from..(TextEnd + 1) /\ to <= stop
  BY <1>1, <1>2
<1>4. t.to = to /\ t.eol \in BOOLEAN
  BY DEF TakeString, stop
<1> HIDE DEF to, t
<1>5. \A q \in from..(to - 1) : text[q] \notin Endlines \cup {Comma}
  BY <1>1, <1>2, <1>3
<1> QED BY <1>3, <1>4, <1>5 DEF ValueTaken, t

LEMMA IntTaken ==
  ASSUME IsText, NEW from \in 1..TextEnd, NEW c
  PROVE  ValueTaken(c, from, TakeInt(from))
<1> DEFINE u == Unsigned(from)
           to == Scan(u, Alphabet \ Digits)
           v == [m |-> Dig(SubSeq(text, u, to - 1)), d |-> 0]
           t == TakeInt(from)
           found == to > u
<1>1. TextEnd \in Nat /\ from \in 1..(TextEnd + 1)
  BY TextIs
<1>2. u \in from..(TextEnd + 1) /\ \A q \in from..(u - 1) : text[q] \notin Endlines \cup {Comma}
  BY UnsignedIs
<1>3. /\ t.to = to /\ t.eol = FALSE
      /\ ~t.found => t.value = value \/ (Sign(from) /\ t.value = Negated(value))
  <2>1. /\ t.to = to /\ t.eol = FALSE /\ t.found = found
        /\ t.value = IF Sign(from) THEN Negated(IF found THEN v ELSE value)
                     ELSE IF found THEN v ELSE value
    BY DEF TakeInt, Number
  <2> HIDE DEF to, v, t
  <2> QED BY <2>1
<1> HIDE DEF u, v, t, found
<1>4. to \in u..(TextEnd + 1) /\ \A q \in u..(to - 1) : text[q] \notin Endlines \cup {Comma}
  <2>1. u \in 1..(TextEnd + 1)
    BY <1>1, <1>2
  <2> HIDE DEF to
  <2> QED BY <2>1, DigitsPassed DEF to
<1> HIDE DEF to
<1>5. to \in from..(TextEnd + 1) /\ \A q \in from..(to - 1) : text[q] \notin Endlines \cup {Comma}
  BY <1>1, <1>2, <1>4, Stretches
<1> QED BY <1>3, <1>5 DEF ValueTaken, t

LEMMA DoubleTaken ==
  ASSUME IsText, NEW from \in 1..TextEnd, NEW c
  PROVE  ValueTaken(c, from, TakeDouble(from))
<1> DEFINE u == Unsigned(from)
           point == Scan(u, Alphabet \ Digits)
           to == IF point <= TextEnd /\ text[point] \in Above
                 THEN Scan(point + 1, Alphabet \ Digits) ELSE point
           v == [m |-> Dig(SubSeq(text, u, to - 1)),
                 d |-> IF to > point THEN to - point - 1 ELSE 0]
           found == to > u
           t == TakeDouble(from)
<1>1. TextEnd \in Nat /\ from \in 1..(TextEnd + 1)
  BY TextIs
<1>2. u \in from..(TextEnd + 1) /\ \A q \in from..(u - 1) : text[q] \notin Endlines \cup {Comma}
  BY UnsignedIs
<1>3. /\ t.to = to /\ t.eol = FALSE
      /\ ~t.found => t.value = value \/ (Sign(from) /\ t.value = Negated(value))
  <2>1. /\ t.to = to /\ t.eol = FALSE /\ t.found = found
        /\ t.value = IF Sign(from) THEN Negated(IF found THEN v ELSE value)
                     ELSE IF found THEN v ELSE value
    BY DEF TakeDouble, Number
  <2> HIDE DEF to, v, t
  <2> QED BY <2>1
<1> HIDE DEF u, v, t, found
<1>4. point \in u..(TextEnd + 1) /\ \A q \in u..(point - 1) : text[q] \notin Endlines \cup {Comma}
  <2>1. u \in 1..(TextEnd + 1)
    BY <1>1, <1>2
  <2> HIDE DEF point, to
  <2> QED BY <2>1, DigitsPassed DEF point
<1> HIDE DEF point
<1>5. point \in from..(TextEnd + 1)
      /\ \A q \in from..(point - 1) : text[q] \notin Endlines \cup {Comma}
  BY <1>1, <1>2, <1>4, Stretches
<1>6. to \in from..(TextEnd + 1) /\ \A q \in from..(to - 1) : text[q] \notin Endlines \cup {Comma}
  <2>1. CASE point <= TextEnd /\ text[point] \in Above
    <3> DEFINE r == Scan(point + 1, Alphabet \ Digits)
    <3>1. to = r /\ point + 1 \in 1..(TextEnd + 1)
      BY <1>1, <1>5, <2>1
    <3>2. r \in (point + 1)..(TextEnd + 1)
          /\ \A q \in (point + 1)..(r - 1) : text[q] \notin Endlines \cup {Comma}
      BY <3>1, DigitsPassed
    <3>3. \A q \in point..((point + 1) - 1) : q = point
      BY <1>1, <1>5
    <3>4. text[point] \notin Endlines \cup {Comma}
      BY <2>1, CharactersDiffer
    <3> HIDE DEF r, to
    <3>5. point \in 1..(TextEnd + 1) /\ point + 1 \in point..(TextEnd + 1)
      BY <1>1, <1>5, <2>1
    <3>6. r \in point..(TextEnd + 1)
          /\ \A q \in point..(r - 1) : text[q] \notin Endlines \cup {Comma}
      BY <3>2, <3>3, <3>4, <3>5, Stretches
    <3> QED BY <1>1, <1>5, <3>1, <3>6, Stretches
  <2>2. CASE ~(point <= TextEnd /\ text[point] \in Above)
    <3>1. to = point
      BY <2>2
    <3> HIDE DEF to
    <3> QED BY <1>5, <3>1
  <2> QED BY <2>1, <2>2
<1> HIDE DEF to
<1> QED BY <1>3, <1>6 DEF ValueTaken, t

LEMMA TakeIs ==
  ASSUME IsText, NEW from \in 1..TextEnd, NEW c \in Calls, Sizes \subseteq Nat
  PROVE  ValueTaken(c, from, Take(c, from))
<1>1. c.kind \in {"string", "int", "double"} /\ c.size \in Sizes \cup {0}
  BY DEF Calls
<1>2. CASE c.kind = "string"
  <2>1. Take(c, from) = TakeString(from, c.size) /\ c.size \in Nat
    BY <1>1, <1>2 DEF Take
  <2> QED BY <1>2, <2>1, StringTaken
<1>3. CASE c.kind = "int"
  <2>1. Take(c, from) = TakeInt(from)
    BY <1>3 DEF Take
  <2> QED BY <2>1, IntTaken
<1>4. CASE c.kind = "double"
  <2>1. Take(c, from) = TakeDouble(from)
    BY <1>4 DEF Take
  <2> QED BY <2>1, DoubleTaken
<1> QED BY <1>1, <1>2, <1>3, <1>4

-----------------------------------------------------------------------------
(***************************************************************************)
(* Every state of the cursor.                                               *)
(***************************************************************************)
CursorIs ==
  /\ IsText
  /\ pos \in 1..(TextEnd + 1) /\ end = (pos = TextEnd + 1)
  /\ eol \in BOOLEAN /\ end \in BOOLEAN /\ any \in BOOLEAN /\ crashed \in BOOLEAN

\* While there is more to come, the cursor has passed no line end, and as many commas
\* as it has given values, less the one it stands behind.
LineIsLeft ==
  /\ last.line \in 1..pos /\ last.field \in Nat
  /\ ~any => last.field = 0
  /\ ~eol /\ ~end =>
       /\ \A q \in last.line..(pos - 1) : text[q] \notin Endlines
       /\ any => CommasBefore(pos) = last.field - 1
       /\ ~any => pos = last.line

LastIs ==
  last = [call |-> last.call, from |-> last.from, string |-> last.string, found |-> last.found,
          before |-> last.before, line |-> last.line, field |-> last.field]

CsvInv ==
  /\ CursorIs /\ LineIsLeft /\ LastIs
  /\ FieldByField /\ StringIsField /\ NumberIsField /\ NothingFoundKeepsValue /\ SafeWithinLine

\* Where the next value begins: at the line's begin, or right behind a comma.
LEMMA ValueFromIs ==
  ASSUME CursorIs, LineIsLeft, ~eol, ~end, ~LineEnds, NEW b, b = ValueFrom, b <= TextEnd
  PROVE  /\ b \in pos..TextEnd
         /\ \A q \in last.line..(b - 1) : text[q] \notin Endlines
         /\ CommasBefore(b) = last.field
         /\ b = last.line \/ (/\ b - 1 \in last.line..TextEnd /\ text[b - 1] = Comma
                              /\ CommasBefore(b - 1) = last.field - 1)
<1> DEFINE s == NextStop
<1>1. /\ IsText /\ TextEnd \in Nat /\ pos \in 1..(TextEnd + 1) /\ last.line \in 1..pos
      /\ last.line \in Nat /\ last.field \in Nat /\ any \in BOOLEAN
  BY TextIs DEF CursorIs, LineIsLeft
<1>2. CASE any
  <2>1. /\ s \in pos..(TextEnd + 1)
        /\ \A q \in pos..(s - 1) : q \in 1..TextEnd /\ text[q] \notin Endlines \cup {Comma}
        /\ s <= TextEnd => text[s] \in Endlines \cup {Comma}
    <3> HIDE DEF s
    <3> QED BY <1>1, ScanIs DEF s, NextStop
  <2>2. b = s + 1
    BY <1>2 DEF ValueFrom
  <2>3. ~(s <= TextEnd /\ text[s] \in Endlines)
    BY <1>2 DEF LineEnds
  <2>4. /\ \A q \in last.line..(pos - 1) : text[q] \notin Endlines
        /\ CommasBefore(pos) = last.field - 1
    BY <1>2 DEF LineIsLeft
  <2> HIDE DEF s
  <2>5. s \in pos..TextEnd /\ text[s] = Comma /\ s \in Nat /\ pos \in Nat
    BY <1>1, <2>1, <2>2, <2>3
  <2>6. CommasBefore(s) = CommasBefore(pos)
    BY <1>1, <2>1, <2>5, NoComma
  <2>7. CommasBefore(s + 1) = CommasBefore(s) + 1
    BY <1>1, <2>5, OneComma
  <2>8. CommasBefore(b) = last.field
    BY <1>1, <2>2, <2>4, <2>6, <2>7
  <2>9. \A q \in last.line..(b - 1) : q \in last.line..(pos - 1) \/ q \in pos..(s - 1) \/ q = s
    BY <1>1, <2>2, <2>5
  <2>10. \A q \in last.line..(b - 1) : text[q] \notin Endlines
    BY <2>1, <2>4, <2>5, <2>9, CharactersDiffer
  <2>11. b - 1 = s /\ b \in pos..TextEnd /\ s \in last.line..TextEnd
    BY <1>1, <2>2, <2>5
  <2> QED BY <2>4, <2>5, <2>6, <2>8, <2>10, <2>11
<1>3. CASE ~any
  <2>1. b = pos /\ pos = last.line /\ last.field = 0 /\ b <= TextEnd
    BY <1>3 DEF ValueFrom, LineIsLeft
  <2>2. CommasBefore(b) = 0
    BY <1>1, <2>1, CommasAre
  <2> QED BY <1>1, <2>1, <2>2
<1> QED BY <1>1, <1>2, <1>3

\* What comes of the value that follows: it is the next field's.
LEMMA NextValueIs ==
  ASSUME CursorIs, LineIsLeft, ~eol, ~end, ~LineEnds, ValueFrom <= TextEnd,
         NEW from, from = NonBlank(ValueFrom), from <= TextEnd
  PROVE  /\ from \in pos..TextEnd
         /\ \A q \in last.line..(from - 1) : text[q] \notin Endlines
         /\ CommasBefore(from) = last.field
<1> DEFINE b == ValueFrom
<1>1. /\ IsText /\ TextEnd \in Nat /\ pos \in 1..(TextEnd + 1) /\ last.line \in 1..pos
      /\ last.line \in Nat /\ last.field \in Nat /\ any \in BOOLEAN
  BY TextIs DEF CursorIs, LineIsLeft
<1>2. /\ b \in pos..TextEnd
      /\ \A q \in last.line..(b - 1) : text[q] \notin Endlines
      /\ CommasBefore(b) = last.field
  BY ValueFromIs
<1> HIDE DEF b
<1>3. /\ from \in b..(TextEnd + 1)
      /\ \A q \in b..(from - 1) : q \in 1..TextEnd /\ text[q] \notin Alphabet \ Blanks
  <2>1. b \in 1..(TextEnd + 1)
    BY <1>1, <1>2
  <2> QED BY <1>1, <2>1, ScanIs DEF NonBlank, b
<1>4. \A q \in b..(from - 1) : text[q] \in Blanks
  BY <1>1, <1>3, TextIs
<1>5. \A q \in b..(from - 1) : text[q] \notin Endlines /\ text[q] # Comma
  BY <1>4, CharactersDiffer
<1>6. b \in Nat /\ from \in Nat /\ b <= from /\ last.line <= b /\ from \in pos..TextEnd
  BY <1>1, <1>2, <1>3
<1>7. CommasBefore(from) = CommasBefore(b)
  BY <1>1, <1>5, <1>6, NoComma
<1>8. \A q \in last.line..(from - 1) : q \in last.line..(b - 1) \/ q \in b..(from - 1)
  BY <1>1, <1>6
<1>9. \A q \in last.line..(from - 1) : text[q] \notin Endlines
  BY <1>2, <1>5, <1>8
<1> QED BY <1>2, <1>6, <1>7, <1>9

-----------------------------------------------------------------------------
(***************************************************************************)
(* Strings.                                                                 *)
(***************************************************************************)
\* A stretch of the text, character by character.
IsPiece(s, a, e) ==
  /\ s \in Seq(Alphabet) /\ Len(s) = e - a
  /\ \A i \in 1..(e - a) : s[i] = text[a + i - 1]

LEMMA PieceIs ==
  ASSUME IsText, NEW a \in 1..(TextEnd + 1), NEW e \in a..(TextEnd + 1)
  PROVE  IsPiece(SubSeq(text, a, e - 1), a, e)
<1> DEFINE s == SubSeq(text, a, e - 1)
<1>1. TextEnd \in Nat /\ a \in Nat /\ e \in Nat /\ a <= e /\ e - 1 \in Int /\ a \in Int
  BY TextIs
<1>2. \A q \in a..(e - 1) : text[q] \in Alphabet
  BY <1>1, TextIs
<1>3. /\ s \in Seq(Alphabet)
      /\ Len(s) = IF a <= e - 1 THEN (e - 1) - a + 1 ELSE 0
      /\ \A i \in 1..((e - 1) - a + 1) : s[i] = text[a + i - 1]
  BY <1>1, <1>2, SubSeqProperties
<1>4. (e - 1) - a + 1 = e - a
  BY <1>1
<1> HIDE DEF s
<1>5. IsPiece(s, a, e)
  BY <1>1, <1>3, <1>4 DEF IsPiece
<1> QED BY <1>5 DEF s

\* A stretch of a string.
LEMMA StretchIs ==
  ASSUME NEW s, NEW a \in Nat, NEW b \in Nat, NEW d \in Nat, b <= d, NEW x,
         x = SubSeq(s, b - a + 1, d - a), \A i \in (b - a + 1)..(d - a) : s[i] \in Alphabet
  PROVE  /\ x \in Seq(Alphabet) /\ Len(x) = d - b
         /\ \A i \in 1..(d - b) : x[i] = s[b - a + i]
<1>1. PICK m : m = b - a + 1
  OBVIOUS
<1>2. PICK k : k = d - a
  OBVIOUS
<1>3. m \in Int /\ k \in Int /\ k - m + 1 = d - b /\ (m <= k => 1 <= d - b) /\ (~(m <= k) => d - b = 0)
      /\ \A i \in 1..(d - b) : m + i - 1 = b - a + i
  BY <1>1, <1>2
<1>4. /\ x \in Seq(Alphabet) /\ Len(x) = IF m <= k THEN k - m + 1 ELSE 0
      /\ \A i \in 1..(k - m + 1) : x[i] = s[m + i - 1]
  BY <1>1, <1>2, <1>3, SubSeqProperties
<1> QED BY <1>3, <1>4

\* A stretch of a stretch.
LEMMA PieceOfPiece ==
  ASSUME IsText, NEW a \in 1..(TextEnd + 1), NEW e \in a..(TextEnd + 1),
         NEW s \in Seq(Alphabet), Len(s) = e - a,
         \A i \in 1..(e - a) : s[i] = text[a + i - 1],
         NEW b \in a..e, NEW d \in b..e
  PROVE  SubSeq(s, b - a + 1, d - a) = SubSeq(text, b, d - 1)
<1>1. TextEnd \in Nat /\ a \in Nat /\ e \in Nat /\ b \in Nat /\ d \in Nat
      /\ a <= b /\ b <= d /\ d <= e
  BY TextIs
<1>2. /\ s \in Seq(Alphabet) /\ Len(s) = e - a
      /\ \A i \in 1..(e - a) : s[i] = text[a + i - 1]
  OBVIOUS
<1> DEFINE x == SubSeq(s, b - a + 1, d - a)
           y == SubSeq(text, b, d - 1)
<1>3. y \in Seq(Alphabet) /\ Len(y) = d - b /\ \A i \in 1..(d - b) : y[i] = text[b + i - 1]
  <2>1. b \in 1..(TextEnd + 1) /\ d \in b..(TextEnd + 1)
    BY <1>1
  <2>2. IsPiece(y, b, d)
    BY <2>1, PieceIs
  <2> HIDE DEF x, y
  <2> QED BY <2>2 DEF IsPiece
<1>4. /\ x \in Seq(Alphabet) /\ Len(x) = d - b /\ \A i \in 1..(d - b) : x[i] = s[b - a + i]
  <2>1. \A i \in (b - a + 1)..(d - a) : i \in 1..Len(s)
    BY <1>1, <1>2
  <2>2. \A i \in (b - a + 1)..(d - a) : s[i] \in Alphabet
    BY <1>2, <2>1, ElementOfSeq
  <2>3. x = SubSeq(s, b - a + 1, d - a)
    OBVIOUS
  <2> HIDE DEF x
  <2> QED BY <1>1, <2>2, <2>3, StretchIs
<1> HIDE DEF x, y
<1>5. ASSUME NEW i \in 1..(d - b) PROVE x[i] = y[i]
  <2>1. b - a + i \in 1..(e - a) /\ a + (b - a + i) - 1 = b + i - 1
    BY <1>1
  <2> QED BY <1>2, <1>3, <1>4, <2>1
<1>6. x = y
  BY <1>3, <1>4, <1>5, SeqEqual
<1> QED BY <1>6 DEF x, y

\* The stretch from one place to the same place is empty.
LEMMA EmptyPiece ==
  ASSUME NEW s, NEW a \in Int, NEW e \in Int, e < a
  PROVE  SubSeq(s, a, e) = <<>>
  BY SubSeqEmpty

\* The smallest number of a set, and the largest.
LEMMA SmallestIs ==
  ASSUME NEW S, S \subseteq Nat, NEW k \in S, \A j \in S : k <= j
  PROVE  (CHOOSE i \in S : \A j \in S : i <= j) = k
<1> DEFINE c == CHOOSE i \in S : \A j \in S : i <= j
<1>1. c \in S /\ \A j \in S : c <= j
  OBVIOUS
<1> HIDE DEF c
<1>2. c <= k /\ k <= c /\ c \in Nat /\ k \in Nat
  BY <1>1
<1> QED BY <1>2 DEF c

LEMMA LargestExists ==
  ASSUME NEW n \in Nat, NEW S, S \subseteq 1..n, S # {}
  PROVE  \E i \in S : \A j \in S : j <= i
<1> DEFINE back == {n - i : i \in S}
<1>1. back \subseteq Nat /\ back # {}
  <2>1. \A i \in S : n - i \in Nat
    OBVIOUS
  <2>2. \E i \in S : n - i \in back
    OBVIOUS
  <2> QED BY <2>1, <2>2
<1>2. PICK q \in back : \A r \in back : q <= r
  <2> HIDE DEF back
  <2> QED BY <1>1, SmallestExists
<1>3. PICK i \in S : q = n - i
  OBVIOUS
<1>4. ASSUME NEW j \in S PROVE j <= i
  <2>1. n - j \in back
    OBVIOUS
  <2>2. q <= n - j
    <3> HIDE DEF back
    <3> QED BY <1>2, <2>1
  <2>3. i \in 1..n /\ j \in 1..n
    OBVIOUS
  <2> HIDE DEF back
  <2> QED BY <1>3, <2>2, <2>3
<1> QED BY <1>4

\* Without the blanks in front, it begins where they end.
LEMMA StrippedIs ==
  ASSUME IsText, NEW a \in 1..(TextEnd + 1), NEW e \in a..(TextEnd + 1), NEW from \in a..e,
         \A q \in a..(from - 1) : text[q] \in Blanks, from < e => text[from] \notin Blanks
  PROVE  Stripped(SubSeq(text, a, e - 1)) = SubSeq(text, from, e - 1)
<1> DEFINE s == SubSeq(text, a, e - 1)
<1>1. TextEnd \in Nat /\ a \in Nat /\ e \in Nat /\ from \in Nat /\ a <= from /\ from <= e
      /\ e <= TextEnd + 1
  BY TextIs
<1>2. /\ s \in Seq(Alphabet) /\ Len(s) = e - a
      /\ \A i \in 1..(e - a) : s[i] = text[a + i - 1]
  <2>1. IsPiece(s, a, e)
    BY PieceIs
  <2> HIDE DEF s
  <2> QED BY <2>1 DEF IsPiece
<1> DEFINE solid == {i \in DOMAIN s : s[i] \notin Blanks}
           k == from - a + 1
<1>3. Stripped(s) = IF solid = {} THEN <<>>
                    ELSE SubSeq(s, CHOOSE i \in solid : \A j \in solid : i <= j, Len(s))
  BY DEF Stripped
<1> HIDE DEF s
<1>4. DOMAIN s = 1..(e - a)
  BY <1>2
<1>5. CASE from = e
  <2>1. \A i \in 1..(e - a) : a + i - 1 \in a..(from - 1)
    BY <1>1, <1>5
  <2>2. solid = {}
    BY <1>2, <1>4, <2>1
  <2>3. SubSeq(text, from, e - 1) = <<>>
    BY <1>1, <1>5, EmptyPiece
  <2> QED BY <1>3, <2>2, <2>3 DEF s
<1>6. CASE from < e
  <2>1. k \in 1..(e - a) /\ a + k - 1 = from
    BY <1>1, <1>6
  <2>2. k \in solid
    BY <1>2, <1>4, <1>6, <2>1
  <2>3. ASSUME NEW j \in solid PROVE k <= j
    <3>1. j \in 1..(e - a) /\ text[a + j - 1] \notin Blanks
      BY <1>2, <1>4
    <3>2. ~(a + j - 1 \in a..(from - 1))
      BY <3>1
    <3> QED BY <1>1, <3>1, <3>2
  <2>4. k \in Nat /\ solid \subseteq Nat
    BY <1>4, <2>1
  <2> HIDE DEF solid, k
  <2>5. (CHOOSE i \in solid : \A j \in solid : i <= j) = k
    BY <2>2, <2>3, <2>4, SmallestIs
  <2>6. Stripped(s) = SubSeq(s, k, Len(s))
    BY <1>3, <2>2, <2>5
  <2>7. SubSeq(s, from - a + 1, e - a) = SubSeq(text, from, e - 1)
    <3>1. e \in from..e
      BY <1>1
    <3> QED BY <1>2, <3>1, PieceOfPiece
  <2> QED BY <1>2, <2>6, <2>7 DEF s, k
<1> QED BY <1>1, <1>5, <1>6

\* Before the first NUL.
LEMMA BeforeNulIs ==
  ASSUME IsText, NEW a \in 1..(TextEnd + 1), NEW e \in a..(TextEnd + 1), NEW z \in a..e,
         \A q \in a..(z - 1) : text[q] # "NUL", z < e => text[z] = "NUL"
  PROVE  BeforeNul(SubSeq(text, a, e - 1)) = SubSeq(text, a, z - 1)
<1> DEFINE s == SubSeq(text, a, e - 1)
<1>1. TextEnd \in Nat /\ a \in Nat /\ e \in Nat /\ z \in Nat /\ a <= z /\ z <= e
      /\ e <= TextEnd + 1
  BY TextIs
<1>2. /\ s \in Seq(Alphabet) /\ Len(s) = e - a
      /\ \A i \in 1..(e - a) : s[i] = text[a + i - 1]
  <2>1. IsPiece(s, a, e)
    BY PieceIs
  <2> HIDE DEF s
  <2> QED BY <2>1 DEF IsPiece
<1> DEFINE nuls == {i \in DOMAIN s : s[i] = "NUL"}
           k == z - a + 1
<1>3. BeforeNul(s) = IF nuls = {} THEN s
                     ELSE SubSeq(s, 1, (CHOOSE i \in nuls : \A j \in nuls : i <= j) - 1)
  BY DEF BeforeNul
<1> HIDE DEF s
<1>4. DOMAIN s = 1..(e - a)
  BY <1>2
<1>5. CASE z = e
  <2>1. \A i \in 1..(e - a) : a + i - 1 \in a..(z - 1)
    BY <1>1, <1>5
  <2>2. nuls = {}
    BY <1>2, <1>4, <2>1
  <2> QED BY <1>3, <1>5, <2>2 DEF s
<1>6. CASE z < e
  <2>1. k \in 1..(e - a) /\ a + k - 1 = z
    BY <1>1, <1>6
  <2>2. k \in nuls
    BY <1>2, <1>4, <1>6, <2>1
  <2>3. ASSUME NEW j \in nuls PROVE k <= j
    <3>1. j \in 1..(e - a) /\ text[a + j - 1] = "NUL"
      BY <1>2, <1>4
    <3>2. ~(a + j - 1 \in a..(z - 1))
      BY <3>1
    <3> QED BY <1>1, <3>1, <3>2
  <2>4. k \in Nat /\ nuls \subseteq Nat /\ k - 1 = z - a /\ a - a + 1 = 1
    BY <1>1, <1>4, <2>1
  <2> HIDE DEF nuls, k
  <2>5. (CHOOSE i \in nuls : \A j \in nuls : i <= j) = k
    BY <2>2, <2>3, <2>4, SmallestIs
  <2>6. BeforeNul(s) = SubSeq(s, 1, z - a)
    BY <1>3, <2>2, <2>4, <2>5
  <2>7. SubSeq(s, a - a + 1, z - a) = SubSeq(text, a, z - 1)
    <3>1. a \in a..e /\ z \in a..e
      BY <1>1
    <3> QED BY <1>2, <3>1, PieceOfPiece
  <2> QED BY <2>4, <2>6, <2>7 DEF s
<1> QED BY <1>1, <1>5, <1>6

\* Without the blanks behind.
TrimmedOf(g, t) ==
  /\ Len(t) \in 0..Len(g) /\ t = SubSeq(g, 1, Len(t))
  /\ Len(t) > 0 => g[Len(t)] # " "
  /\ \A i \in (Len(t) + 1)..Len(g) : g[i] = " "

LEMMA TrimmedIs ==
  ASSUME NEW g \in Seq(Alphabet), NEW t, t = Trimmed(g)
  PROVE  TrimmedOf(g, t)
<1>1. PICK n : n = Len(g)
  OBVIOUS
<1>2. n \in Nat /\ DOMAIN g = 1..n /\ \A i \in 1..n : g[i] \in Alphabet
  BY <1>1, ElementOfSeq
<1> DEFINE solid == {i \in DOMAIN g : g[i] # " "}
           m == CHOOSE i \in solid : \A j \in solid : j <= i
<1>3. t = IF solid = {} THEN <<>> ELSE SubSeq(g, 1, m)
  BY DEF Trimmed
<1>4. CASE solid = {}
  <2>1. t = <<>> /\ Len(t) = 0
    <3> HIDE DEF solid, m
    <3> QED BY <1>3, <1>4
  <2>2. SubSeq(g, 1, 0) = <<>>
    BY EmptyPiece
  <2>3. \A i \in 1..n : g[i] = " "
    BY <1>2, <1>4
  <2> HIDE DEF solid, m
  <2>4. (Len(t) + 1)..Len(g) = 1..n
    BY <1>1, <2>1
  <2>5. Len(t) \in 0..Len(g) /\ ~(Len(t) > 0)
    BY <1>1, <1>2, <2>1
  <2>6. t = SubSeq(g, 1, Len(t))
    BY <2>1, <2>2
  <2> QED BY <2>3, <2>4, <2>5, <2>6 DEF TrimmedOf
<1>5. CASE solid # {}
  <2>1. solid \subseteq 1..n
    BY <1>2
  <2>2. m \in solid /\ \A j \in solid : j <= m
    <3> HIDE DEF solid
    <3>1. \E i \in solid : \A j \in solid : j <= i
      BY <1>2, <1>5, <2>1, LargestExists
    <3> QED BY <3>1
  <2>3. t = SubSeq(g, 1, m)
    <3> HIDE DEF solid, m
    <3> QED BY <1>3, <1>5
  <2> HIDE DEF m
  <2>4. m \in 1..n
    BY <2>1, <2>2
  <2>5. g[m] # " "
    BY <2>2
  <2>6. ASSUME NEW i \in (m + 1)..n PROVE g[i] = " "
    <3>1. i \in 1..n /\ ~(i <= m)
      BY <1>2, <2>4
    <3>2. i \notin solid
      BY <2>2, <3>1
    <3> QED BY <1>2, <3>1, <3>2
  <2> HIDE DEF solid
  <2>7. Len(t) = m
    <3>1. \A i \in 1..m : g[i] \in Alphabet
      BY <1>2, <2>4
    <3>2. 1 \in Int /\ m \in Int /\ 1 <= m
      BY <1>2, <2>4
    <3>3. Len(t) = IF 1 <= m THEN m - 1 + 1 ELSE 0
      BY <2>3, <3>1, <3>2, SubSeqProperties
    <3> QED BY <3>2, <3>3
  <2>8. Len(t) \in 0..n
    BY <1>2, <2>4, <2>7
  <2> QED BY <1>1, <2>3, <2>5, <2>6, <2>7, <2>8 DEF TrimmedOf
<1> QED BY <1>4, <1>5
\* The stretch that a set of positions covers.
LEMMA CoveredIs ==
  ASSUME NEW b \in Nat, NEW e \in Nat, b < e, NEW S, S = b..(e - 1)
  PROVE  S # {} /\ Min(S) = b /\ Max(S) = e - 1
<1>1. b \in S /\ e - 1 \in S /\ S \subseteq Nat
  OBVIOUS
<1>2. \A q \in S : b <= q /\ q <= e - 1
  OBVIOUS
<1> DEFINE m == CHOOSE q \in S : \A r \in S : q <= r
           n == CHOOSE q \in S : \A r \in S : r <= q
<1>3. m \in S /\ \A r \in S : m <= r
  BY <1>1, <1>2
<1>4. n \in S /\ \A r \in S : r <= n
  BY <1>1, <1>2
<1>5. Min(S) = m
  BY DEF Min
<1>6. Max(S) = n
  BY DEF Max
<1> HIDE DEF m, n
<1>7. m = b
  <2>1. m <= b /\ b <= m /\ m \in Nat
    BY <1>1, <1>2, <1>3
  <2> QED BY <2>1
<1>8. n = e - 1
  <2>1. n <= e - 1 /\ e - 1 <= n /\ n \in Nat
    BY <1>1, <1>2, <1>4
  <2> QED BY <2>1
<1> QED BY <1>1, <1>5, <1>6, <1>7, <1>8

\* A field that begins at the line's begin or behind a comma reaches to the next comma
\* or line end.
LEMMA FieldReaches ==
  ASSUME IsText, last.line \in 1..TextEnd, last.field \in Nat, NEW b \in last.line..TextEnd,
         \A q \in last.line..(b - 1) : text[q] \notin Endlines,
         CommasBefore(b) = last.field,
         b = last.line \/ (/\ b - 1 \in last.line..TextEnd /\ text[b - 1] = Comma
                           /\ CommasBefore(b - 1) = last.field - 1),
         NEW e \in b..(TextEnd + 1),
         \A q \in b..(e - 1) : text[q] \notin Endlines \cup {Comma},
         e <= TextEnd => text[e] \in Endlines \cup {Comma}
  PROVE  FieldText(last.field + 1) = SubSeq(text, b, e - 1)
<1>1. /\ TextEnd \in Nat /\ last.line \in 1..TextEnd /\ last.line \in Nat /\ last.field \in Nat
      /\ b \in last.line..TextEnd /\ b \in Nat /\ last.line <= b /\ e \in b..(TextEnd + 1)
      /\ e \in Nat /\ b <= e
  BY TextIs
<1>2. /\ \A q \in last.line..(b - 1) : text[q] \notin Endlines
      /\ CommasBefore(b) = last.field
      /\ b = last.line \/ (/\ b - 1 \in last.line..TextEnd /\ text[b - 1] = Comma
                           /\ CommasBefore(b - 1) = last.field - 1)
      /\ \A q \in b..(e - 1) : text[q] \notin Endlines \cup {Comma}
      /\ e <= TextEnd => text[e] \in Endlines \cup {Comma}
  OBVIOUS
<1>3. PICK z : z = LineEnd
  OBVIOUS
<1>4. /\ z \in last.line..(TextEnd + 1)
      /\ \A q \in last.line..(z - 1) : q \in 1..TextEnd /\ text[q] \notin Endlines
  <2>1. last.line \in 1..(TextEnd + 1)
    BY <1>1
  <2> QED BY <1>1, <1>3, <2>1, ScanIs DEF LineEnd
<1>5. \A q \in last.line..(e - 1) : text[q] \notin Endlines
  <2>1. \A q \in last.line..(e - 1) : q \in last.line..(b - 1) \/ q \in b..(e - 1)
    BY <1>1, <1>1, <1>1
  <2> QED BY <1>2, <1>2, <2>1
<1>6. e <= z
  <2>1. last.line \in 1..(TextEnd + 1) /\ e \in last.line..(TextEnd + 1)
    BY <1>1, <1>1, <1>2
  <2> QED BY <1>1, <1>3, <1>5, <2>1, InLine
<1>7. z \in Nat
  BY <1>1, <1>4
<1>8. ASSUME NEW q \in b..(e - 1)
       PROVE  q \in last.line..(z - 1) /\ text[q] # Comma /\ CommasBefore(q) = last.field
  <2>1. q \in Nat /\ b <= q /\ q < e
    BY <1>1, <1>1
  <2>2. \A r \in b..(q - 1) : text[r] # Comma
    BY <1>2, <2>1
  <2>3. CommasBefore(q) = CommasBefore(b)
    BY <1>1, <1>1, <2>1, <2>2, NoComma
  <2> QED BY <1>1, <1>2, <1>1, <1>2, <1>1, <1>6, <1>7, <2>1, <2>3
<1>9. ASSUME NEW q \in last.line..(z - 1), text[q] # Comma, CommasBefore(q) = last.field
       PROVE  q \in b..(e - 1)
  <2>1. q \in Nat /\ last.line <= q /\ q < z
    BY <1>1, <1>7
  <2>2. ~(q < b)
    <3>1. SUFFICES ASSUME q < b PROVE FALSE
      OBVIOUS
    <3>2. b - 1 \in Nat /\ text[b - 1] = Comma /\ CommasBefore(b - 1) = last.field - 1
      BY <1>1, <1>2, <1>1, <2>1, <3>1
    <3>3. q # b - 1
      BY <1>9, <3>2
    <3>4. q <= b - 1
      BY <1>1, <2>1, <3>1
    <3>5. CommasBefore(q) <= CommasBefore(b - 1)
      BY <1>1, <2>1, <3>2, <3>4, CommasGrow
    <3> QED BY <1>1, <1>9, <3>2, <3>5
  <2>3. ~(e <= q)
    <3>1. SUFFICES ASSUME e <= q PROVE FALSE
      OBVIOUS
    <3>2. e <= TextEnd /\ e \in last.line..(z - 1)
      BY <1>1, <1>1, <1>1, <1>4, <1>7, <2>1, <3>1
    <3>3. text[e] = Comma
      BY <1>2, <1>4, <3>2
    <3>4. e # q /\ e + 1 <= q /\ e + 1 \in Nat
      BY <1>1, <1>9, <2>1, <3>1, <3>3
    <3>5. CommasBefore(e + 1) = CommasBefore(e) + 1
      BY <1>1, <1>1, <3>2, <3>3, OneComma
    <3>6. CommasBefore(e) = last.field
      <4>1. \A r \in b..(e - 1) : text[r] # Comma
        BY <1>2
      <4> QED BY <1>1, <1>2, <1>1, <1>1, <4>1, NoComma
    <3>7. CommasBefore(e + 1) <= CommasBefore(q)
      BY <1>1, <2>1, <3>4, CommasGrow
    <3> QED BY <1>1, <1>9, <3>5, <3>6, <3>7
  <2> QED BY <1>1, <1>1, <2>1, <2>2, <2>3
<1>10. FieldAt(last.field + 1) = b..(e - 1)
  <2>1. (last.field + 1) - 1 = last.field
    BY <1>1
  <2>2. FieldAt(last.field + 1)
        = {q \in last.line..(z - 1) : text[q] # Comma /\ CommasBefore(q) = last.field}
    BY <1>3, <2>1 DEF FieldAt
  <2> QED BY <1>8, <1>9, <2>2
<1>11. CASE b = e
  <2>1. b..(e - 1) = {}
    BY <1>1, <1>11
  <2>2. SubSeq(text, b, e - 1) = <<>>
    <3>1. b \in Int /\ e - 1 \in Int /\ e - 1 < b
      BY <1>1, <1>11
    <3> QED BY <3>1, EmptyPiece
  <2> QED BY <1>10, <2>1, <2>2 DEF FieldText
<1>12. CASE b < e
  <2>1. PICK S : S = FieldAt(last.field + 1)
    OBVIOUS
  <2>2. S # {} /\ Min(S) = b /\ Max(S) = e - 1
    BY <1>1, <1>10, <1>12, <2>1, CoveredIs
  <2>3. FieldText(last.field + 1) = IF S = {} THEN <<>> ELSE SubSeq(text, Min(S), Max(S))
    BY <2>1 DEF FieldText
  <2> QED BY <2>2, <2>3
<1> QED BY <1>1, <1>11, <1>12

\* The next value's field.
LEMMA FieldIs ==
  ASSUME CursorIs, LineIsLeft, ~eol, ~end, ~LineEnds, NEW b, b = ValueFrom, b <= TextEnd,
         NEW e, e = Scan(b, Endlines \cup {Comma})
  PROVE  b \in 1..TextEnd /\ FieldText(last.field + 1) = SubSeq(text, b, e - 1)
<1>1. /\ IsText /\ TextEnd \in Nat /\ pos \in 1..(TextEnd + 1) /\ last.line \in 1..pos
      /\ last.line \in Nat /\ last.field \in Nat
  BY TextIs DEF CursorIs, LineIsLeft
<1>2. /\ b \in pos..TextEnd
      /\ \A q \in last.line..(b - 1) : text[q] \notin Endlines
      /\ CommasBefore(b) = last.field
      /\ b = last.line \/ (/\ b - 1 \in last.line..TextEnd /\ text[b - 1] = Comma
                           /\ CommasBefore(b - 1) = last.field - 1)
  BY ValueFromIs
<1>3. b \in 1..(TextEnd + 1) /\ b \in 1..TextEnd /\ last.line \in 1..TextEnd /\ b \in last.line..TextEnd
  BY <1>1, <1>2
<1>4. /\ e \in b..(TextEnd + 1)
      /\ \A q \in b..(e - 1) : q \in 1..TextEnd /\ text[q] \notin Endlines \cup {Comma}
      /\ e <= TextEnd => text[e] \in Endlines \cup {Comma}
  BY <1>1, <1>3, ScanIs
<1> QED BY <1>1, <1>2, <1>3, <1>4, FieldReaches

\* Two pieces from one place on, one of them trimmed.
LEMMA CutIs ==
  ASSUME IsText, NEW from \in 1..(TextEnd + 1), NEW z \in from..(TextEnd + 1),
         NEW to \in from..z, NEW size \in Nat,
         to - from = IF z - from < size THEN z - from ELSE size,
         NEW f \in Seq(Alphabet), Len(f) = z - from,
         \A i \in 1..(z - from) : f[i] = text[from + i - 1],
         NEW g \in Seq(Alphabet), Len(g) = to - from,
         \A i \in 1..(to - from) : g[i] = text[from + i - 1],
         NEW t, TrimmedOf(g, t)
  PROVE  IsCutOf(t, f, size)
<1>1. TextEnd \in Nat /\ from \in Nat /\ z \in Nat /\ to \in Nat /\ from <= to /\ to <= z
      /\ to \in from..(TextEnd + 1) /\ z \in from..(TextEnd + 1)
  BY TextIs
<1>2. PICK n : n = Len(t)
  OBVIOUS
<1>3. n \in 0..(to - from) /\ t = SubSeq(g, 1, n) /\ (n > 0 => g[n] # " ")
      /\ \A i \in (n + 1)..(to - from) : g[i] = " "
  BY <1>2 DEF TrimmedOf
<1>4. n \in Nat /\ n <= to - from /\ n <= z - from
  <2>1. n \in 0..(to - from)
    BY <1>3
  <2>2. to - from \in Nat /\ to - from <= z - from
    BY <1>1
  <2>3. n \in Nat /\ n <= to - from
    BY <2>1, <2>2
  <2> QED BY <1>1, <2>2, <2>3
<1>5. t = SubSeq(f, 1, n)
  <2>1. from \in from..to /\ from \in from..z /\ from + n \in from..to /\ from + n \in from..z
        /\ from - from + 1 = 1 /\ (from + n) - from = n
    BY <1>1, <1>4
  <2>2. SubSeq(g, from - from + 1, (from + n) - from) = SubSeq(text, from, (from + n) - 1)
    BY <1>1, <2>1, PieceOfPiece
  <2>3. SubSeq(f, from - from + 1, (from + n) - from) = SubSeq(text, from, (from + n) - 1)
    BY <1>1, <2>1, PieceOfPiece
  <2>4. SubSeq(g, 1, n) = SubSeq(f, 1, n)
    BY <2>1, <2>2, <2>3
  <2> QED BY <1>3, <2>4
<1>6. \A i \in 1..(to - from) : f[i] = g[i]
  BY <1>1
<1>7. n > 0 => f[n] # " "
  <2>1. n > 0 => n \in 1..(to - from)
    BY <1>1, <1>4
  <2> QED BY <1>3, <1>6, <2>1
<1>8. \A i \in (n + 1)..(to - from) : f[i] = " "
  <2>1. \A i \in (n + 1)..(to - from) : i \in 1..(to - from)
    BY <1>1, <1>4
  <2> QED BY <1>3, <1>6, <2>1
<1>9. (IF Len(f) < size THEN Len(f) ELSE size) = to - from
  OBVIOUS
<1> QED BY <1>2, <1>4, <1>5, <1>7, <1>8, <1>9 DEF IsCutOf

LEMMA CutOfPiece ==
  ASSUME IsText, NEW from \in 1..(TextEnd + 1), NEW z \in from..(TextEnd + 1),
         NEW to \in from..(TextEnd + 1), to <= z, NEW size \in Nat,
         to - from = IF z - from < size THEN z - from ELSE size
  PROVE  IsCutOf(Trimmed(SubSeq(text, from, to - 1)), SubSeq(text, from, z - 1), size)
<1>1. TextEnd \in Nat /\ from \in Nat /\ z \in Nat /\ to \in Nat /\ to \in from..z
  BY TextIs
<1>2. PICK f : f = SubSeq(text, from, z - 1) /\ IsPiece(f, from, z)
  BY PieceIs
<1>3. PICK g : g = SubSeq(text, from, to - 1) /\ IsPiece(g, from, to)
  BY PieceIs
<1>4. /\ f \in Seq(Alphabet) /\ Len(f) = z - from
      /\ \A i \in 1..(z - from) : f[i] = text[from + i - 1]
  BY <1>2 DEF IsPiece
<1>5. /\ g \in Seq(Alphabet) /\ Len(g) = to - from
      /\ \A i \in 1..(to - from) : g[i] = text[from + i - 1]
  BY <1>3 DEF IsPiece
<1>6. PICK t : t = Trimmed(g)
  OBVIOUS
<1>7. TrimmedOf(g, t)
  BY <1>5, <1>6, TrimmedIs
<1>8. IsCutOf(t, f, size)
  BY <1>1, <1>4, <1>5, <1>7, CutIs
<1> QED BY <1>2, <1>3, <1>6, <1>8

\* A field's own text: without the blanks in front, and up to a NUL.
IsOwnStretch(own, from, z) ==
  /\ z = Scan(from, Endlines \cup {Comma, "NUL"})
  /\ from \in 1..TextEnd /\ text[from] \notin Blanks
  /\ z \in from..(TextEnd + 1)
  /\ z <= TextEnd => text[z] \in Endlines \cup {Comma, "NUL"}
  /\ own = SubSeq(text, from, z - 1)

LEMMA FieldStretch ==
  ASSUME IsText, NEW b \in 1..TextEnd, NEW from, from = NonBlank(b), from <= TextEnd,
         NEW e, e = Scan(b, Endlines \cup {Comma})
  PROVE  \E z : IsOwnStretch(BeforeNul(Stripped(SubSeq(text, b, e - 1))), from, z)
<1>1. TextEnd \in Nat /\ b \in 1..(TextEnd + 1) /\ b \in Nat
  BY TextIs
<1>2. /\ e \in b..(TextEnd + 1)
      /\ \A q \in b..(e - 1) : q \in 1..TextEnd /\ text[q] \notin Endlines \cup {Comma}
      /\ e <= TextEnd => text[e] \in Endlines \cup {Comma}
  BY <1>1, ScanIs
<1>3. /\ from \in b..TextEnd
      /\ \A q \in b..(from - 1) : q \in 1..TextEnd /\ text[q] \notin Alphabet \ Blanks
      /\ text[from] \in Alphabet \ Blanks
  BY <1>1, ScanIs DEF NonBlank
<1>4. \A q \in b..(from - 1) : text[q] \in Blanks
  BY <1>3, TextIs
<1>5. from \in b..e /\ e \in Nat /\ from \in Nat /\ from \in 1..(TextEnd + 1)
      /\ e \in from..(TextEnd + 1) /\ b <= from /\ from <= e /\ e <= TextEnd + 1
  <2>1. ~(e < from)
    <3>1. e < from => e \in b..(from - 1)
      BY <1>1, <1>2, <1>3
    <3>2. e < from => e <= TextEnd
      BY <1>1, <1>2, <1>3
    <3> QED BY <1>2, <1>4, <3>1, <3>2, CharactersDiffer
  <2> QED BY <1>1, <1>2, <1>3, <2>1
<1>6. PICK z : z = Scan(from, Endlines \cup {Comma, "NUL"})
  OBVIOUS
<1>7. /\ z \in from..(TextEnd + 1)
      /\ \A q \in from..(z - 1) : q \in 1..TextEnd /\ text[q] \notin Endlines \cup {Comma, "NUL"}
      /\ z <= TextEnd => text[z] \in Endlines \cup {Comma, "NUL"}
  BY <1>5, <1>6, ScanIs
<1>8. z \in from..e /\ (z < e => text[z] = "NUL") /\ z \in Nat
  <2>1. ~(e < z)
    <3>1. e < z => e \in from..(z - 1) /\ e <= TextEnd
      BY <1>1, <1>5, <1>7
    <3> QED BY <1>2, <1>7, <3>1
  <2>2. z < e => z \in b..(e - 1) /\ z <= TextEnd
    BY <1>1, <1>5, <1>7
  <2>3. z < e => text[z] = "NUL"
    BY <1>2, <1>7, <2>2
  <2> QED BY <1>1, <1>5, <1>7, <2>1, <2>3
<1>9. Stripped(SubSeq(text, b, e - 1)) = SubSeq(text, from, e - 1)
  <2>1. from < e => text[from] \notin Blanks
    BY <1>3
  <2> QED BY <1>1, <1>2, <1>4, <1>5, <2>1, StrippedIs
<1>10. BeforeNul(SubSeq(text, from, e - 1)) = SubSeq(text, from, z - 1)
  <2>1. \A q \in from..(z - 1) : text[q] # "NUL"
    BY <1>7
  <2> QED BY <1>1, <1>5, <1>8, <2>1, BeforeNulIs
<1>11. from \in 1..TextEnd /\ text[from] \notin Blanks
  BY <1>1, <1>3
<1> QED BY <1>6, <1>7, <1>9, <1>10, <1>11 DEF IsOwnStretch

\* What a call for a string makes of its field.
LEMMA StringIs ==
  ASSUME IsText, NEW b \in 1..TextEnd, NEW from, from = NonBlank(b), from <= TextEnd,
         NEW e, e = Scan(b, Endlines \cup {Comma}), NEW size \in Nat
  PROVE  IsCutOf(TakeString(from, size).string, BeforeNul(Stripped(SubSeq(text, b, e - 1))), size)
<1>1. PICK own : own = BeforeNul(Stripped(SubSeq(text, b, e - 1)))
  OBVIOUS
<1>2. PICK z : IsOwnStretch(own, from, z)
  BY <1>1, FieldStretch
<1>3. /\ z = Scan(from, Endlines \cup {Comma, "NUL"})
      /\ from \in 1..TextEnd /\ z \in from..(TextEnd + 1)
      /\ own = SubSeq(text, from, z - 1)
  BY <1>2 DEF IsOwnStretch
<1>4. PICK to : to = IF z < from + size THEN z ELSE from + size
  OBVIOUS
<1>5. /\ TextEnd \in Nat /\ from \in 1..(TextEnd + 1) /\ from \in Nat /\ z \in from..(TextEnd + 1)
      /\ to \in from..(TextEnd + 1) /\ to <= z
      /\ to - from = IF z - from < size THEN z - from ELSE size
  <2>1. TextEnd \in Nat /\ from \in Nat /\ z \in Nat /\ from <= TextEnd /\ 1 <= from
        /\ from <= z /\ z <= TextEnd + 1
    BY <1>3, TextIs
  <2> QED BY <1>4, <2>1
<1>6. TakeString(from, size).string = Trimmed(SubSeq(text, from, to - 1))
  BY <1>3, <1>4 DEF TakeString
<1>7. IsCutOf(Trimmed(SubSeq(text, from, to - 1)), SubSeq(text, from, z - 1), size)
  BY <1>5, CutOfPiece
<1> QED BY <1>1, <1>3, <1>6, <1>7

-----------------------------------------------------------------------------
(***************************************************************************)
(* Numbers.                                                                 *)
(***************************************************************************)
\* One character more in front.
WorthOf(behind, c) ==
  IF c = "." THEN behind
  ELSE [sum |-> behind.sum + DigitValue[c] * behind.place, place |-> 10 * behind.place]

\* w is NumberOf's function of the last characters, up to k of n.
Worth(w, s, n, k) ==
  w = [i \in 0..k |-> IF i = 0 THEN [sum |-> 0, place |-> 1] ELSE WorthOf(w[i - 1], s[n - i + 1])]

LEMMA WorthExists ==
  ASSUME NEW s, NEW n \in Nat
  PROVE  \E w : Worth(w, s, n, n)
<1> DEFINE T == {k \in Nat : \E w : Worth(w, s, n, k)}
<1>1. 0 \in T
  <2> DEFINE w == [i \in 0..0 |-> [sum |-> 0, place |-> 1]]
  <2>1. \A i \in 0..0 : i = 0
    OBVIOUS
  <2>2. Worth(w, s, n, 0)
    BY <2>1 DEF Worth
  <2> QED BY <2>2
<1>2. ASSUME NEW k \in Nat, k \in T
      PROVE  k + 1 \in T
  <2>1. PICK w : Worth(w, s, n, k)
    BY <1>2
  <2> DEFINE h == [i \in 0..(k + 1) |-> IF i = k + 1 THEN WorthOf(w[k], s[n - (k + 1) + 1]) ELSE w[i]]
             e == [i \in 0..(k + 1) |-> IF i = 0 THEN [sum |-> 0, place |-> 1]
                                        ELSE WorthOf(h[i - 1], s[n - i + 1])]
  <2>2. ASSUME NEW i \in 0..(k + 1), i = k + 1
        PROVE  h[i] = e[i]
    <3>1. i # 0 /\ i - 1 = k /\ k \in 0..(k + 1) /\ k # k + 1
      BY <2>2
    <3>2. h[i] = WorthOf(w[k], s[n - i + 1]) /\ h[k] = w[k]
      BY <2>2, <3>1
    <3>3. e[i] = WorthOf(h[i - 1], s[n - i + 1])
      BY <3>1
    <3> HIDE DEF h, e
    <3> QED BY <3>1, <3>2, <3>3
  <2>3. ASSUME NEW i \in 0..(k + 1), i # k + 1
        PROVE  h[i] = e[i]
    <3>1. i \in 0..k
      BY <2>3
    <3>2. h[i] = w[i]
      BY <2>3
    <3>3. w[i] = IF i = 0 THEN [sum |-> 0, place |-> 1] ELSE WorthOf(w[i - 1], s[n - i + 1])
      BY <2>1, <3>1 DEF Worth
    <3>4. e[i] = IF i = 0 THEN [sum |-> 0, place |-> 1] ELSE WorthOf(h[i - 1], s[n - i + 1])
      OBVIOUS
    <3>5. i # 0 => i - 1 \in 0..(k + 1) /\ i - 1 # k + 1
      BY <3>1
    <3>6. i # 0 => h[i - 1] = w[i - 1]
      BY <3>5
    <3> HIDE DEF h, e
    <3> QED BY <3>2, <3>3, <3>4, <3>6
  <2>4. h = e
    <3> DEFINE D == 0..(k + 1)
    <3>1. \A i \in D : h[i] = e[i]
      <4> HIDE DEF h, e
      <4> QED BY <2>2, <2>3
    <3>2. DOMAIN h = D /\ DOMAIN e = D
      OBVIOUS
    <3>3. h = [i \in DOMAIN h |-> h[i]]
      OBVIOUS
    <3>4. e = [i \in DOMAIN e |-> e[i]]
      OBVIOUS
    <3> HIDE DEF D, h, e
    <3> QED BY <3>1, <3>2, <3>3, <3>4
  <2>5. Worth(h, s, n, k + 1)
    <3> HIDE DEF h
    <3> QED BY <2>4 DEF Worth
  <2> QED BY <2>5
<1>3. Nat \subseteq T
  <2> HIDE DEF T
  <2> QED BY <1>1, <1>2, SetInduction
<1> QED BY <1>3

\* What the last characters are worth, one after the other.
Places(w, s, n) ==
  /\ w[0] = [sum |-> 0, place |-> 1]
  /\ \A i \in 1..n : w[i] = WorthOf(w[i - 1], s[n - i + 1])

LEMMA NumberUnfolds ==
  ASSUME NEW s, NEW n \in Nat, Len(s) = n
  PROVE  \E w : Places(w, s, n) /\ NumberOf(s).m = w[n].sum
<1> DEFINE w == CHOOSE f : f = [k \in 0..n |->
                  IF k = 0 THEN [sum |-> 0, place |-> 1]
                  ELSE LET c == s[n - k + 1]
                           behind == f[k - 1]
                       IN IF c = "." THEN behind
                          ELSE [sum |-> behind.sum + DigitValue[c] * behind.place,
                                place |-> 10 * behind.place]]
<1>1. \A f : Worth(f, s, n, n)
             <=> f = [k \in 0..n |->
                  IF k = 0 THEN [sum |-> 0, place |-> 1]
                  ELSE LET c == s[n - k + 1]
                           behind == f[k - 1]
                       IN IF c = "." THEN behind
                          ELSE [sum |-> behind.sum + DigitValue[c] * behind.place,
                                place |-> 10 * behind.place]]
  BY DEF Worth, WorthOf
<1>2. Worth(w, s, n, n)
  BY <1>1, WorthExists
<1>3. NumberOf(s).m = w[n].sum
  BY DEF NumberOf
<1> HIDE DEF w
<1>4. Places(w, s, n)
  <2>1. 0 \in 0..n
    OBVIOUS
  <2>2. \A i \in 1..n : i \in 0..n /\ i # 0
    OBVIOUS
  <2> QED BY <1>2, <2>1, <2>2 DEF Places, Worth
<1> QED BY <1>3, <1>4

LEMMA OnePlace ==
  ASSUME NEW a \in Nat, NEW p \in Nat, NEW v \in Nat, NEW x \in Nat
  PROVE  a * (10 * p) + (x + v * p) = (10 * a + v) * p + x
  OBVIOUS

LEMMA DigitsAre ==
  /\ "." \notin Digits
  /\ \A c \in Digits : DigitValue[c] \in Nat
  BY DEF Digits, DigitValue

\* A number read digit by digit is worth what its digits are worth in their places.
LEMMA ReadIsWorth ==
  ASSUME NEW n \in Nat, NEW s, \A i \in 1..n : s[i] \in Digits \cup {"."},
         NEW acc, DigitsTaken(acc, s, n), NEW w, Places(w, s, n)
  PROVE  acc[n] = w[n].sum /\ acc[n] \in Nat
<1> DEFINE T == {k \in Nat : k <= n => w[k].sum \in Nat /\ w[k].place \in Nat}
<1>1. 0 \in T
  BY DEF Places
<1>2. ASSUME NEW k \in Nat, k \in T
      PROVE  k + 1 \in T
  <2>1. SUFFICES ASSUME k + 1 <= n
                 PROVE  w[k + 1].sum \in Nat /\ w[k + 1].place \in Nat
    OBVIOUS
  <2>2. k + 1 \in 1..n /\ (k + 1) - 1 = k /\ n - (k + 1) + 1 \in 1..n
    BY <2>1
  <2>3. PICK c : c = s[n - (k + 1) + 1]
    OBVIOUS
  <2>4. c \in Digits \cup {"."}
    BY <2>2, <2>3
  <2>5. PICK b : b = w[k]
    OBVIOUS
  <2>6. w[k + 1] = WorthOf(b, c)
    BY <2>2, <2>3, <2>5 DEF Places
  <2>7. b.sum \in Nat /\ b.place \in Nat
    BY <1>2, <2>1, <2>5
  <2>8. CASE c = "."
    BY <2>6, <2>7, <2>8 DEF WorthOf
  <2>9. CASE c # "."
    <3>1. DigitValue[c] \in Nat
      BY <2>4, <2>9, DigitsAre
    <3>2. w[k + 1].sum = b.sum + DigitValue[c] * b.place /\ w[k + 1].place = 10 * b.place
      BY <2>6, <2>9 DEF WorthOf
    <3> QED BY <2>7, <3>1, <3>2
  <2> QED BY <2>8, <2>9
<1>3. \A k \in 0..n : w[k].sum \in Nat /\ w[k].place \in Nat
  <2>1. Nat \subseteq T
    <3> HIDE DEF T
    <3> QED BY <1>1, <1>2, SetInduction
  <2> QED BY <2>1
<1> DEFINE U == {i \in Nat : i <= n => acc[i] \in Nat
                                       /\ acc[i] * w[n - i].place + w[n - i].sum = w[n].sum}
<1>4. 0 \in U
  <2>1. acc[0] = 0 /\ n - 0 = n /\ n \in 0..n
    BY DEF DigitsTaken
  <2>2. 0 * w[n].place + w[n].sum = w[n].sum
    BY <1>3, <2>1
  <2> QED BY <2>1, <2>2
<1>5. ASSUME NEW i \in Nat, i \in U
      PROVE  i + 1 \in U
  <2>1. SUFFICES ASSUME i + 1 <= n
                 PROVE  /\ acc[i + 1] \in Nat
                        /\ acc[i + 1] * w[n - (i + 1)].place + w[n - (i + 1)].sum = w[n].sum
    OBVIOUS
  <2>2. /\ i + 1 \in 1..n /\ (i + 1) - 1 = i /\ n - i \in 1..n /\ (n - i) - 1 = n - (i + 1)
        /\ n - (n - i) + 1 = i + 1 /\ n - (i + 1) \in 0..n
    BY <2>1
  <2>3. PICK c : c = s[i + 1]
    OBVIOUS
  <2>4. c \in Digits \cup {"."}
    BY <2>2, <2>3
  <2>5. PICK b : b = w[n - (i + 1)]
    OBVIOUS
  <2>6. PICK x : x = w[n - i]
    OBVIOUS
  <2>7. x = WorthOf(b, c)
    BY <2>2, <2>3, <2>5, <2>6 DEF Places
  <2>8. b.sum \in Nat /\ b.place \in Nat
    BY <1>3, <2>2, <2>5
  <2>9. PICK a : a = acc[i]
    OBVIOUS
  <2>10. a \in Nat /\ a * x.place + x.sum = w[n].sum
    BY <1>5, <2>1, <2>6, <2>9
  <2>11. acc[i + 1] = DigitTaken(a, c)
    BY <2>2, <2>3, <2>9 DEF DigitsTaken
  <2>12. CASE c = "."
    <3>1. acc[i + 1] = a /\ x = b
      BY <2>7, <2>11, <2>12, DigitsAre DEF WorthOf, DigitTaken
    <3> QED BY <2>5, <2>10, <3>1
  <2>13. CASE c # "."
    <3>1. c \in Digits /\ DigitValue[c] \in Nat
      BY <2>4, <2>13, DigitsAre
    <3>2. acc[i + 1] = 10 * a + DigitValue[c]
      BY <2>11, <3>1 DEF DigitTaken
    <3>3. x.sum = b.sum + DigitValue[c] * b.place /\ x.place = 10 * b.place
      BY <2>7, <2>13 DEF WorthOf
    <3>4. PICK v : v = DigitValue[c]
      OBVIOUS
    <3>5. PICK p : p = b.place
      OBVIOUS
    <3>6. PICK y : y = b.sum
      OBVIOUS
    <3>7. v \in Nat /\ p \in Nat /\ y \in Nat
      BY <2>8, <3>1, <3>4, <3>5, <3>6
    <3>8. a * (10 * p) + (y + v * p) = (10 * a + v) * p + y
      BY <2>10, <3>7, OnePlace
    <3>9. a * (10 * p) + (y + v * p) = w[n].sum
      BY <2>10, <3>3, <3>4, <3>5, <3>6
    <3>10. 10 * a + v \in Nat
      BY <2>10, <3>7
    <3> QED BY <2>5, <3>2, <3>4, <3>5, <3>6, <3>8, <3>9, <3>10
  <2> QED BY <2>12, <2>13
<1>6. n \in U
  <2>1. Nat \subseteq U
    <3> HIDE DEF U
    <3> QED BY <1>4, <1>5, SetInduction
  <2> QED BY <2>1
<1>7. acc[n] \in Nat /\ acc[n] * w[0].place + w[0].sum = w[n].sum
  <2>1. n - n = 0
    OBVIOUS
  <2> QED BY <1>6, <2>1
<1>8. w[0].place = 1 /\ w[0].sum = 0
  BY DEF Places
<1> QED BY <1>7, <1>8

\* A number of digits, with points or without, is what its digits are worth.
LEMMA DigitsAreWorth ==
  ASSUME NEW s, NEW n \in Nat, Len(s) = n, DOMAIN s = 1..n,
         \A i \in 1..n : s[i] \in Digits \cup {"."}
  PROVE  Dig(s) = NumberOf(s).m /\ Dig(s) \in Nat
<1>1. PICK acc : DigitsTaken(acc, s, n) /\ Dig(s) = acc[n]
  BY DigUnfolds
<1>2. PICK w : Places(w, s, n) /\ NumberOf(s).m = w[n].sum
  BY NumberUnfolds
<1> QED BY <1>1, <1>2, ReadIsWorth

\* A loop stops where the first of its stops is.
LEMMA ScanAt ==
  ASSUME IsText, NEW from \in 1..(TextEnd + 1), NEW y \in from..(TextEnd + 1), NEW stops,
         \A q \in from..(y - 1) : text[q] \notin stops, y <= TextEnd => text[y] \in stops
  PROVE  Scan(from, stops) = y
<1>1. TextEnd \in Nat /\ from \in Nat /\ y \in Nat
  BY TextIs
<1>2. PICK s : s = Scan(from, stops)
  OBVIOUS
<1>3. /\ s \in from..(TextEnd + 1)
      /\ \A q \in from..(s - 1) : text[q] \notin stops
      /\ s <= TextEnd => text[s] \in stops
  BY <1>2, ScanIs
<1>4. ~(s < y)
  <2>1. s < y => s \in from..(y - 1) /\ s <= TextEnd
    BY <1>1, <1>3
  <2> QED BY <1>3, <2>1
<1>5. ~(y < s)
  <2>1. y < s => y \in from..(s - 1) /\ y <= TextEnd
    BY <1>1, <1>3
  <2> QED BY <1>3, <2>1
<1>6. s = y
  BY <1>1, <1>3, <1>4, <1>5
<1> QED BY <1>2, <1>6

\* What ends a number.
After == Endlines \cup {Comma, "NUL", " "}

LEMMA AfterIs == After \cap Digits = {} /\ After \cap Above = {} /\ "." \in Above /\ "." \notin Digits
  BY DEF After, Endlines, Comma, Digits, Above

PointsOf(s) == {i \in DOMAIN s : s[i] = "."}

\* The points of a number that has one at most.
LEMMA PointsAre ==
  ASSUME NEW s, NEW n \in Nat, DOMAIN s = 1..n, NEW points \in {0, 1}, IsNumber(s, points)
  PROVE  PointsOf(s) = {} \/ (points = 1 /\ \E i \in 1..n : PointsOf(s) = {i})
<1> DEFINE P == PointsOf(s)
<1>1. IsFiniteSet(P)
  <2>1. IsFiniteSet(1..n) /\ P \subseteq 1..n
    BY FS_Interval DEF PointsOf
  <2> HIDE DEF P
  <2> QED BY <2>1, FS_Subset
<1>2. Cardinality(P) \in Nat /\ Cardinality(P) <= points
  <2>1. Cardinality(P) <= points
    BY DEF IsNumber, PointsOf
  <2> HIDE DEF P
  <2> QED BY <1>1, <2>1, FS_CardinalityType
<1>3. P \subseteq 1..n
  BY DEF PointsOf
<1> HIDE DEF P
<1>4. CASE Cardinality(P) = 0
  <2>1. P = {}
    BY <1>1, <1>4, FS_EmptySet
  <2> QED BY <2>1 DEF P
<1>5. CASE Cardinality(P) = 1
  <2>1. \E i : P = {i}
    BY <1>1, <1>5, FS_Singleton
  <2>2. points = 1
    BY <1>2, <1>5
  <2> QED BY <1>3, <2>1, <2>2 DEF P
<1> QED BY <1>2, <1>4, <1>5 DEF P

\* What a number is, by its parts.
LEMMA NumberParts ==
  ASSUME NEW s, NEW n \in Nat, Len(s) = n, DOMAIN s = 1..n, NEW points, IsNumber(s, points)
  PROVE  /\ PointsOf(s) = {} => NumberOf(s) = [m |-> Dig(s), d |-> 0]
         /\ \A i \in 1..n : PointsOf(s) = {i} => NumberOf(s) = [m |-> Dig(s), d |-> n - i]
<1> DEFINE P == PointsOf(s)
<1>1. NumberOf(s).m = Dig(s)
  BY DigitsAreWorth DEF IsNumber
<1>2. NumberOf(s) = [m |-> NumberOf(s).m,
                     d |-> IF P = {} THEN 0 ELSE n - (CHOOSE i \in P : TRUE)]
  BY DEF NumberOf, PointsOf
<1>3. \A i : P = {i} => (CHOOSE j \in P : TRUE) = i
  <2> HIDE DEF P
  <2> QED OBVIOUS
<1> HIDE DEF P
<1> QED BY <1>1, <1>2, <1>3 DEF P

\* Digits without a point are an int's value.
LEMMA DigitsTakenTo ==
  ASSUME IsText, NEW u \in 1..(TextEnd + 1), NEW y \in u..(TextEnd + 1),
         y <= TextEnd => text[y] \in After,
         \A q \in u..(y - 1) : text[q] \in Digits
  PROVE  Scan(u, Alphabet \ Digits) = y
<1>1. TextEnd \in Nat /\ u \in Nat /\ y \in Nat
  BY TextIs
<1>2. y <= TextEnd => text[y] \in Alphabet \ Digits
  <2>1. y <= TextEnd => y \in 1..TextEnd
    BY <1>1
  <2> QED BY <2>1, TextIs, AfterIs
<1>3. \A q \in u..(y - 1) : text[q] \notin Alphabet \ Digits
  OBVIOUS
<1> QED BY <1>2, <1>3, ScanAt

IsNumberAt(s, u, y, points) ==
  /\ u \in 1..(TextEnd + 1) /\ y \in u..(TextEnd + 1)
  /\ y <= TextEnd => text[y] \in After
  /\ IsPiece(s, u, y) /\ s = SubSeq(text, u, y - 1)
  /\ points \in {0, 1} /\ IsNumber(s, points)

\* A number without a point is passed, one with a point up to it and then from it on.
LEMMA NumberPassed ==
  ASSUME IsText, NEW s, NEW u, NEW y, NEW points, IsNumberAt(s, u, y, points)
  PROVE  \E k : /\ k = Scan(u, Alphabet \ Digits)
                /\ y > u /\ k \in u..y
                /\ NumberOf(s) = [m |-> Dig(s), d |-> IF y > k THEN y - k - 1 ELSE 0]
                /\ k = y \/ (/\ points = 1 /\ k < y /\ text[k] = "."
                             /\ Scan(k + 1, Alphabet \ Digits) = y)
<1>1. /\ TextEnd \in Nat /\ u \in 1..(TextEnd + 1) /\ u \in Nat /\ y \in u..(TextEnd + 1) /\ y \in Nat
      /\ u <= y /\ (y <= TextEnd => text[y] \in After)
      /\ points \in {0, 1} /\ IsNumber(s, points)
  BY TextIs DEF IsNumberAt
<1>2. PICK n : n = y - u
  OBVIOUS
<1>3. /\ n \in Nat /\ Len(s) = n /\ DOMAIN s = 1..n
      /\ \A i \in 1..n : s[i] = text[u + i - 1]
  BY <1>1, <1>2 DEF IsNumberAt, IsPiece
<1>4. y > u
  <2>1. \E i \in DOMAIN s : s[i] \in Digits
    BY <1>1 DEF IsNumber
  <2> QED BY <1>1, <1>2, <1>3, <2>1
<1>5. \A i \in 1..n : s[i] \in Digits \cup {"."}
  BY <1>1, <1>3 DEF IsNumber
<1>6. \A q \in u..(y - 1) : q - u + 1 \in 1..n /\ s[q - u + 1] = text[q]
  <2>1. \A q \in u..(y - 1) : q - u + 1 \in 1..n /\ u + (q - u + 1) - 1 = q
    BY <1>1, <1>2
  <2> QED BY <1>3, <2>1
<1> DEFINE P == PointsOf(s)
<1>7. P = {} \/ (points = 1 /\ \E i \in 1..n : P = {i})
  BY <1>1, <1>3, PointsAre
<1>8. /\ P = {} => NumberOf(s) = [m |-> Dig(s), d |-> 0]
      /\ \A i \in 1..n : P = {i} => NumberOf(s) = [m |-> Dig(s), d |-> n - i]
  BY <1>1, <1>3, NumberParts
<1>9. \A i \in 1..n : i \notin P => s[i] \in Digits
  BY <1>3, <1>5 DEF PointsOf
<1>10. \A i \in P : s[i] = "."
  BY DEF PointsOf
<1> HIDE DEF P
<1>11. PICK k : k = Scan(u, Alphabet \ Digits)
  OBVIOUS
<1>12. CASE P = {}
  <2>1. \A q \in u..(y - 1) : text[q] \in Digits
    BY <1>6, <1>9, <1>12
  <2>2. k = y
    BY <1>1, <1>11, <2>1, DigitsTakenTo
  <2>3. NumberOf(s) = [m |-> Dig(s), d |-> 0]
    BY <1>8, <1>12
  <2> QED BY <1>1, <1>4, <1>11, <2>2, <2>3
<1>13. ASSUME NEW i \in 1..n, points = 1, P = {i}
       PROVE  /\ k \in u..y
              /\ NumberOf(s) = [m |-> Dig(s), d |-> IF y > k THEN y - k - 1 ELSE 0]
              /\ k < y /\ text[k] = "." /\ Scan(k + 1, Alphabet \ Digits) = y
  <2>1. PICK r : r = u + i - 1
    OBVIOUS
  <2>2. /\ r \in u..(y - 1) /\ r \in 1..TextEnd /\ r \in u..(TextEnd + 1) /\ r + 1 \in 1..(TextEnd + 1)
        /\ y \in (r + 1)..(TextEnd + 1) /\ r - u + 1 = i /\ n - i = y - r - 1 /\ y > r
    BY <1>1, <1>2, <2>1
  <2>3. text[r] = "."
    BY <1>6, <1>10, <1>13, <2>2
  <2>4. \A q \in u..(y - 1) : q # r => text[q] \in Digits
    <3>1. \A q \in u..(y - 1) : q # r => q - u + 1 # i
      BY <1>1, <2>1
    <3> QED BY <1>6, <1>9, <1>13, <3>1
  <2>5. k = r
    <3>1. \A q \in u..(r - 1) : q \in u..(y - 1) /\ q # r
      BY <1>1, <2>2
    <3>2. \A q \in u..(r - 1) : text[q] \notin Alphabet \ Digits
      BY <2>4, <3>1
    <3>3. text[r] \in Alphabet \ Digits
      BY <2>2, <2>3, TextIs, AfterIs
    <3> QED BY <1>1, <1>11, <2>2, <3>2, <3>3, ScanAt
  <2>6. Scan(r + 1, Alphabet \ Digits) = y
    <3>1. \A q \in (r + 1)..(y - 1) : q \in u..(y - 1) /\ q # r
      BY <1>1, <2>2
    <3>2. \A q \in (r + 1)..(y - 1) : text[q] \in Digits
      BY <2>4, <3>1
    <3> QED BY <1>1, <2>2, <3>2, DigitsTakenTo
  <2>7. NumberOf(s) = [m |-> Dig(s), d |-> n - i]
    BY <1>8, <1>13
  <2>8. k \in u..y
    BY <1>1, <2>2, <2>5
  <2> QED BY <2>2, <2>3, <2>5, <2>6, <2>7, <2>8
<1> QED BY <1>4, <1>7, <1>12, <1>13, <1>11

\* What a call for a number makes of one.
NumberTaken(t, from, s) ==
  /\ t.found
  /\ t.value = IF Sign(from) THEN Negated(NumberOf(s)) ELSE NumberOf(s)

LEMMA IntIs ==
  ASSUME IsText, NEW from, NEW s, NEW y, IsNumberAt(s, Unsigned(from), y, 0)
  PROVE  NumberTaken(TakeInt(from), from, s)
<1>1. PICK u : u = Unsigned(from)
  OBVIOUS
<1>2. PICK k : /\ k = Scan(u, Alphabet \ Digits)
               /\ y > u /\ k \in u..y
               /\ NumberOf(s) = [m |-> Dig(s), d |-> IF y > k THEN y - k - 1 ELSE 0]
               /\ k = y
  BY <1>1, NumberPassed
<1>3. k = y /\ k > u /\ ~(y > k)
  <2>1. u \in Nat /\ y \in Nat
    BY <1>1, TextIs DEF IsNumberAt
  <2> QED BY <1>2, <2>1
<1>4. s = SubSeq(text, u, k - 1)
  BY <1>1, <1>3 DEF IsNumberAt
<1>5. PICK v : v = [m |-> Dig(s), d |-> 0]
  OBVIOUS
<1>6. NumberOf(s) = v
  BY <1>2, <1>3, <1>5
<1>7. TakeInt(from) = Number(from, k, k > u, v)
  BY <1>1, <1>2, <1>4, <1>5 DEF TakeInt
<1>8. (k > u) = TRUE
  BY <1>3
<1>9. TakeInt(from) = Number(from, k, TRUE, v)
  BY <1>7, <1>8
<1>10. PICK t : t = TakeInt(from)
  OBVIOUS
<1>11. t.found /\ t.value = IF Sign(from) THEN Negated(v) ELSE v
  <2>1. t = Number(from, k, TRUE, v)
    BY <1>9, <1>10
  <2> QED BY <2>1 DEF Number
<1>12. NumberTaken(t, from, s)
  BY <1>6, <1>11 DEF NumberTaken
<1> QED BY <1>10, <1>12

LEMMA DoubleIs ==
  ASSUME IsText, NEW from, NEW s, NEW y, IsNumberAt(s, Unsigned(from), y, 1)
  PROVE  NumberTaken(TakeDouble(from), from, s)
<1>1. PICK u : u = Unsigned(from)
  OBVIOUS
<1>2. PICK points : points = 1
  OBVIOUS
<1>3. PICK k : /\ k = Scan(u, Alphabet \ Digits)
               /\ y > u /\ k \in u..y
               /\ NumberOf(s) = [m |-> Dig(s), d |-> IF y > k THEN y - k - 1 ELSE 0]
               /\ k = y \/ (/\ points = 1 /\ k < y /\ text[k] = "."
                            /\ Scan(k + 1, Alphabet \ Digits) = y)
  <2>1. IsNumberAt(s, u, y, points)
    BY <1>1, <1>2
  <2> QED BY <2>1, NumberPassed
<1>4. u \in Nat /\ y \in Nat /\ TextEnd \in Nat /\ y \in u..(TextEnd + 1)
      /\ (y <= TextEnd => text[y] \in After)
  BY <1>1, TextIs DEF IsNumberAt
<1>5. y = IF k <= TextEnd /\ text[k] \in Above THEN Scan(k + 1, Alphabet \ Digits) ELSE k
  <2>1. CASE k = y
    BY <1>4, <2>1, AfterIs
  <2>2. CASE k < y /\ text[k] = "." /\ Scan(k + 1, Alphabet \ Digits) = y
    <3>1. k <= TextEnd
      BY <1>3, <1>4, <2>2
    <3> QED BY <2>2, <3>1, AfterIs
  <2> QED BY <1>3, <2>1, <2>2
<1>6. s = SubSeq(text, u, y - 1)
  BY <1>1 DEF IsNumberAt
<1>7. PICK v : v = [m |-> Dig(s), d |-> IF y > k THEN y - k - 1 ELSE 0]
  OBVIOUS
<1>8. NumberOf(s) = v
  BY <1>3, <1>7
<1>9. TakeDouble(from) = Number(from, y, y > u, v)
  BY <1>1, <1>3, <1>5, <1>6, <1>7 DEF TakeDouble
<1>10. (y > u) = TRUE
  BY <1>3
<1>11. TakeDouble(from) = Number(from, y, TRUE, v)
  BY <1>9, <1>10
<1>12. PICK t : t = TakeDouble(from)
  OBVIOUS
<1>13. t.found /\ t.value = IF Sign(from) THEN Negated(v) ELSE v
  <2>1. t = Number(from, y, TRUE, v)
    BY <1>11, <1>12
  <2> QED BY <2>1 DEF Number
<1>14. NumberTaken(t, from, s)
  BY <1>8, <1>13 DEF NumberTaken
<1> QED BY <1>12, <1>14

\* Without the blanks behind, it ends where a number may end.
LEMMA TrimmedStretch ==
  ASSUME IsText, NEW from \in 1..TextEnd, NEW z \in from..(TextEnd + 1),
         z <= TextEnd => text[z] \in Endlines \cup {Comma, "NUL"}
  PROVE  \E y : /\ y \in from..(TextEnd + 1)
                /\ y <= TextEnd => text[y] \in After
                /\ Trimmed(SubSeq(text, from, z - 1)) = SubSeq(text, from, y - 1)
<1>1. TextEnd \in Nat /\ from \in Nat /\ z \in Nat /\ from <= z /\ z <= TextEnd + 1
      /\ from \in 1..(TextEnd + 1)
  BY TextIs
<1>2. PICK g : g = SubSeq(text, from, z - 1) /\ IsPiece(g, from, z)
  BY <1>1, PieceIs
<1>3. /\ g \in Seq(Alphabet) /\ Len(g) = z - from
      /\ \A i \in 1..(z - from) : g[i] = text[from + i - 1]
  BY <1>2 DEF IsPiece
<1>4. PICK t : t = Trimmed(g)
  OBVIOUS
<1>5. TrimmedOf(g, t)
  BY <1>3, <1>4, TrimmedIs
<1>6. PICK n : n = Len(t)
  OBVIOUS
<1>7. n \in 0..(z - from) /\ \A i \in (n + 1)..(z - from) : g[i] = " "
  BY <1>3, <1>5, <1>6 DEF TrimmedOf
<1>8. t = SubSeq(g, 1, n)
  BY <1>3, <1>5, <1>6 DEF TrimmedOf
<1>9. PICK y : y = from + n
  OBVIOUS
<1>10. n \in Nat /\ n <= z - from
  <2>1. n \in 0..(z - from)
    BY <1>7
  <2> QED BY <1>1, <2>1
<1>11. y \in from..z /\ from \in from..z /\ from - from + 1 = 1 /\ y - from = n /\ y \in Nat
      /\ y \in from..(TextEnd + 1)
  BY <1>1, <1>9, <1>10
<1>12. SubSeq(g, from - from + 1, y - from) = SubSeq(text, from, y - 1)
  BY <1>1, <1>3, <1>11, PieceOfPiece
<1>13. t = SubSeq(text, from, y - 1)
  BY <1>11, <1>12, <1>8
<1>14. y <= TextEnd => text[y] \in After
  <2>1. CASE y = z
    BY <2>1 DEF After
  <2>2. CASE y < z
    <3>1. n + 1 \in (n + 1)..(z - from) /\ n + 1 \in 1..(z - from) /\ from + (n + 1) - 1 = y
      BY <1>1, <1>9, <1>10, <2>2
    <3>2. text[y] = " "
      BY <1>3, <1>7, <3>1
    <3> QED BY <3>2 DEF After
  <2> QED BY <1>1, <1>11, <2>1, <2>2
<1> QED BY <1>2, <1>4, <1>11, <1>13, <1>14

\* A piece is what a text has there.
LEMMA PiecesAreEqual ==
  ASSUME NEW a \in Nat, NEW e \in Nat, a <= e, NEW s, IsPiece(s, a, e), NEW x, IsPiece(x, a, e)
  PROVE  s = x
<1>1. /\ s \in Seq(Alphabet) /\ x \in Seq(Alphabet) /\ Len(s) = e - a /\ Len(x) = e - a
      /\ \A i \in 1..(e - a) : s[i] = x[i]
  BY DEF IsPiece
<1> QED BY <1>1, SeqEqual

\* Without its sign, a number begins behind it.
LEMMA PlainIs ==
  ASSUME IsText, NEW from \in 1..TextEnd, NEW y \in from..(TextEnd + 1),
         NEW f, IsPiece(f, from, y), NEW points, IsNumber(Plain(f), points)
  PROVE  /\ Unsigned(from) \in 1..y
         /\ Plain(f) = SubSeq(text, Unsigned(from), y - 1)
         /\ f[1] = "-" <=> Sign(from)
         /\ ~Sign(from) => Plain(f) = f
<1>1. TextEnd \in Nat /\ from \in Nat /\ y \in Nat /\ from <= y /\ from \in 1..(TextEnd + 1)
      /\ y \in from..(TextEnd + 1)
  BY TextIs
<1>2. /\ f \in Seq(Alphabet) /\ Len(f) = y - from
      /\ \A i \in 1..(y - from) : f[i] = text[from + i - 1]
  BY DEF IsPiece
<1>3. f # <<>>
  <2>1. ASSUME f = <<>> PROVE FALSE
    <3>1. Plain(f) = <<>>
      BY <2>1 DEF Plain
    <3>2. \E i \in DOMAIN Plain(f) : TRUE
      BY DEF IsNumber
    <3> QED BY <3>1, <3>2
  <2> QED BY <2>1
<1>4. from < y
  <2>1. Len(f) # 0
    BY <1>2, <1>3, EmptySeq
  <2> QED BY <1>1, <1>2, <2>1
<1>5. f[1] = text[from]
  <2>1. 1 \in 1..(y - from) /\ from + 1 - 1 = from
    BY <1>1, <1>4
  <2> QED BY <1>2, <2>1
<1>6. CASE text[from] = "-"
  <2>1. Sign(from) /\ Unsigned(from) = from + 1
    BY <1>6 DEF Sign, Unsigned
  <2>2. PICK h : h = Tail(f)
    OBVIOUS
  <2>3. Plain(f) = h
    BY <1>3, <1>5, <1>6, <2>2 DEF Plain
  <2>4. IsPiece(h, from + 1, y)
    <3>1. h \in Seq(Alphabet) /\ Len(h) = (y - from) - 1
          /\ \A i \in 1..((y - from) - 1) : h[i] = f[i + 1]
      BY <1>2, <1>3, <2>2, HeadTailProperties
    <3>2. \A i \in 1..(y - (from + 1)) :
             i \in 1..((y - from) - 1) /\ i + 1 \in 1..(y - from) /\ from + (i + 1) - 1 = (from + 1) + i - 1
      BY <1>1
    <3>3. (y - from) - 1 = y - (from + 1)
      BY <1>1
    <3>4. \A i \in 1..(y - (from + 1)) : h[i] = text[(from + 1) + i - 1]
      BY <1>2, <3>1, <3>2
    <3> QED BY <3>1, <3>3, <3>4 DEF IsPiece
  <2>5. from + 1 \in 1..(TextEnd + 1) /\ y \in (from + 1)..(TextEnd + 1) /\ from + 1 \in 1..y
        /\ from + 1 \in Nat /\ from + 1 <= y
    BY <1>1, <1>4
  <2>6. IsPiece(SubSeq(text, from + 1, y - 1), from + 1, y)
    BY <2>5, PieceIs
  <2>7. h = SubSeq(text, from + 1, y - 1)
    <3>1. PICK m : m = from + 1
      OBVIOUS
    <3>2. PICK x : x = SubSeq(text, from + 1, y - 1)
      OBVIOUS
    <3>3. m \in Nat /\ m <= y /\ IsPiece(h, m, y) /\ IsPiece(x, m, y)
      BY <2>4, <2>5, <2>6, <3>1, <3>2
    <3>4. h = x
      BY <1>1, <3>3, PiecesAreEqual
    <3> QED BY <3>2, <3>4
  <2> QED BY <1>5, <1>6, <2>1, <2>3, <2>5, <2>7
<1>7. CASE text[from] # "-"
  <2>1. ~Sign(from) /\ Unsigned(from) = from
    BY <1>1, <1>7 DEF Sign, Unsigned
  <2>2. Plain(f) = f
    BY <1>3, <1>5, <1>7 DEF Plain
  <2>3. f[1] # "-"
    BY <1>5, <1>7
  <2>4. Unsigned(from) \in 1..y
    BY <1>1, <2>1
  <2>5. IsPiece(SubSeq(text, from, y - 1), from, y)
    BY <1>1, PieceIs
  <2>6. f = SubSeq(text, from, y - 1)
    BY <1>1, <2>5, PiecesAreEqual
  <2>7. Plain(f) = SubSeq(text, Unsigned(from), y - 1)
    BY <2>1, <2>2, <2>6
  <2> QED BY <2>1, <2>2, <2>3, <2>4, <2>7
<1> QED BY <1>6, <1>7

\* What a call for a number makes of a field that is one.
LEMMA NumberIs ==
  ASSUME IsText, NEW b \in 1..TextEnd, NEW from, from = NonBlank(b), from <= TextEnd,
         NEW e, e = Scan(b, Endlines \cup {Comma}),
         NEW c \in Calls, c.kind \in {"int", "double"},
         NEW f, f = Trimmed(BeforeNul(Stripped(SubSeq(text, b, e - 1)))),
         IsNumber(Plain(f), IF c.kind = "int" THEN 0 ELSE 1)
  PROVE  /\ Take(c, from).found
         /\ Take(c, from).value = IF f[1] = "-" THEN Negated(NumberOf(Plain(f))) ELSE NumberOf(f)
<1>1. PICK own : own = BeforeNul(Stripped(SubSeq(text, b, e - 1)))
  OBVIOUS
<1>2. PICK z : IsOwnStretch(own, from, z)
  BY <1>1, FieldStretch
<1>3. /\ from \in 1..TextEnd /\ z \in from..(TextEnd + 1)
      /\ z <= TextEnd => text[z] \in Endlines \cup {Comma, "NUL"}
      /\ own = SubSeq(text, from, z - 1)
  BY <1>2 DEF IsOwnStretch
<1>4. PICK y : /\ y \in from..(TextEnd + 1)
               /\ y <= TextEnd => text[y] \in After
               /\ Trimmed(SubSeq(text, from, z - 1)) = SubSeq(text, from, y - 1)
  BY <1>3, TrimmedStretch
<1>5. PICK h : h = SubSeq(text, from, y - 1) /\ IsPiece(h, from, y)
  <2>1. from \in 1..(TextEnd + 1)
    BY <1>3, TextIs
  <2> QED BY <1>4, <2>1, PieceIs
<1>6. f = h
  BY <1>3, <1>4, <1>5, <1>1
<1>7. PICK points : points = IF c.kind = "int" THEN 0 ELSE 1
  OBVIOUS
<1>8. IsNumber(Plain(h), points) /\ points \in {0, 1}
  BY <1>6, <1>7
<1>9. /\ Unsigned(from) \in 1..y
      /\ Plain(h) = SubSeq(text, Unsigned(from), y - 1)
      /\ h[1] = "-" <=> Sign(from)
      /\ ~Sign(from) => Plain(h) = h
  <2>1. from \in 1..TextEnd /\ y \in from..(TextEnd + 1) /\ IsPiece(h, from, y)
    BY <1>3, <1>4, <1>5
  <2> QED BY <1>8, <2>1, PlainIs
<1>10. PICK s : s = Plain(h)
  OBVIOUS
<1>11. IsNumberAt(s, Unsigned(from), y, points)
  <2>1. TextEnd \in Nat /\ Unsigned(from) \in 1..(TextEnd + 1) /\ y \in Unsigned(from)..(TextEnd + 1)
    BY <1>3, <1>4, <1>9, TextIs
  <2>2. IsPiece(s, Unsigned(from), y)
    BY <1>9, <1>10, <2>1, PieceIs
  <2> QED BY <1>4, <1>8, <1>9, <1>10, <2>1, <2>2 DEF IsNumberAt
<1>12. NumberTaken(Take(c, from), from, s)
  <2>1. CASE c.kind = "int"
    <3>1. Take(c, from) = TakeInt(from) /\ points = 0
      BY <1>7, <2>1 DEF Take
    <3> QED BY <1>11, <3>1, IntIs
  <2>2. CASE c.kind = "double"
    <3>1. Take(c, from) = TakeDouble(from) /\ points = 1
      BY <1>7, <2>2 DEF Take
    <3> QED BY <1>11, <3>1, DoubleIs
  <2> QED BY <2>1, <2>2
<1>13. /\ Take(c, from).found
       /\ Take(c, from).value = IF Sign(from) THEN Negated(NumberOf(s)) ELSE NumberOf(s)
  BY <1>12 DEF NumberTaken
<1>14. (IF Sign(from) THEN Negated(NumberOf(s)) ELSE NumberOf(s))
       = IF h[1] = "-" THEN Negated(NumberOf(Plain(h))) ELSE NumberOf(h)
  BY <1>9, <1>10
<1> QED BY <1>6, <1>13, <1>14

-----------------------------------------------------------------------------
(***************************************************************************)
(* From one state of the cursor to the next.                                *)
(***************************************************************************)
\* The field of the latest value, before the step and after it.
LEMMA FieldOf ==
  ASSUME UNCHANGED text, last'.line = last.line, NEW k, last'.field = k
  PROVE  BeforeNul(Stripped(FieldText(last.field)))' = BeforeNul(Stripped(FieldText(k)))
<1>1. FieldText(last.field)' = FieldText(k)
  BY DEF FieldText, FieldAt, CommasBefore, LineEnd, Scan, TextEnd
<1> QED BY <1>1 DEF BeforeNul, Stripped

\* What a string and its field are does not change with the cursor.
LEMMA StringStays ==
  ASSUME StringIsField, UNCHANGED <<text, last>>
  PROVE  StringIsField'
<1>1. PICK k : k = last.field
  OBVIOUS
<1>2. BeforeNul(Stripped(FieldText(last.field)))' = BeforeNul(Stripped(FieldText(last.field)))
  <2>1. last'.line = last.line /\ last'.field = k
    BY <1>1
  <2> QED BY <1>1, <2>1, FieldOf
<1>3. IsCutOf(last.string, BeforeNul(Stripped(FieldText(last.field))), last.call.size)'
      = IsCutOf(last.string, BeforeNul(Stripped(FieldText(last.field))), last.call.size)
  BY <1>2 DEF IsCutOf
<1> QED BY <1>3 DEF StringIsField, Reads

\* A field that is a number gives it.
GivesNumber(f, kind, found, v) ==
  IsNumber(Plain(f), IF kind = "int" THEN 0 ELSE 1) =>
    found /\ v = IF f[1] = "-" THEN Negated(NumberOf(Plain(f))) ELSE NumberOf(f)

\* A field without the blanks around it, up to a NUL.
OwnText(k) == Trimmed(BeforeNul(Stripped(FieldText(k))))

LEMMA OwnTextStays ==
  ASSUME UNCHANGED text, last'.line = last.line, NEW k, last'.field = k
  PROVE  OwnText(last.field)' = OwnText(k)
<1>1. BeforeNul(Stripped(FieldText(last.field)))' = BeforeNul(Stripped(FieldText(k)))
  BY FieldOf
<1> QED BY <1>1 DEF OwnText, Trimmed

LEMMA NumberGiven ==
  ASSUME UNCHANGED text, last'.line = last.line, NEW k, last'.field = k,
         last'.call.kind \in {"int", "double"} =>
           GivesNumber(OwnText(k), last'.call.kind, last'.found, value')
  PROVE  NumberIsField'
<1>1. PICK f : f = OwnText(k)
  OBVIOUS
<1>2. OwnText(last.field)' = f
  BY <1>1, OwnTextStays
<1>3. /\ NumberOf(OwnText(last.field))' = NumberOf(f)
      /\ Plain(OwnText(last.field))' = Plain(f)
      /\ NumberOf(Plain(OwnText(last.field)))' = NumberOf(Plain(f))
  BY <1>2 DEF Plain
<1>4. ASSUME NEW points
      PROVE  IsNumber(Plain(OwnText(last.field)), points)' = IsNumber(Plain(f), points)
  BY <1>3 DEF IsNumber
<1> QED BY <1>1, <1>2, <1>3, <1>4 DEF NumberIsField, OwnText, GivesNumber, Negated

LEMMA NumberStays ==
  ASSUME NumberIsField, UNCHANGED <<text, value, last>>
  PROVE  NumberIsField'
<1>1. CASE ~Reads
  <2>1. ~Reads'
    BY <1>1 DEF Reads
  <2> QED BY <2>1 DEF NumberIsField
<1>2. CASE Reads
  <2>1. PICK k : k = last.field
    OBVIOUS
  <2>2. last.call.kind \in {"int", "double"} =>
          GivesNumber(OwnText(k), last.call.kind, last.found, value)
    BY <1>2, <2>1 DEF NumberIsField, GivesNumber, OwnText
  <2>3. last'.line = last.line /\ last'.field = k /\ last'.call = last.call
        /\ last'.found = last.found /\ value' = value
    BY <2>1
  <2>4. last'.call.kind \in {"int", "double"} =>
          GivesNumber(OwnText(k), last'.call.kind, last'.found, value')
    BY <2>2, <2>3
  <2> QED BY <2>3, <2>4, NumberGiven
<1> QED BY <1>1, <1>2

\* A call that gives nothing ends the line for those after it.
LEMMA NothingKeeps ==
  ASSUME CsvInv, ~crashed, NEW c, Nothing(c), UNCHANGED text,
         pos' \in pos..(TextEnd + 1), eol' \in BOOLEAN, end' = (pos' = TextEnd + 1), eol' \/ end'
  PROVE  CsvInv'
<1>1. last' = [call |-> c, from |-> 0, string |-> last.string, found |-> last.found,
               before |-> value, line |-> last.line, field |-> last.field]
  BY DEF Nothing, CsvInv, LastIs
<1>2. /\ TextEnd' = TextEnd /\ TextEnd \in Nat /\ IsText'
      /\ any' = any /\ value' = value /\ crashed' = crashed
  BY TextIs DEF Nothing, CsvInv, CursorIs, IsText, TextEnd
<1>3. CursorIs'
  BY <1>2 DEF CsvInv, CursorIs
<1>4. LineIsLeft'
  <2>1. /\ last.line \in 1..pos /\ last.field \in Nat /\ (~any => last.field = 0)
        /\ pos \in Nat
    BY <1>2 DEF CsvInv, LineIsLeft, CursorIs
  <2>2. last'.line = last.line /\ last'.field = last.field
    BY <1>1
  <2>3. last'.line \in 1..pos' /\ last'.field \in Nat /\ (~any' => last'.field = 0)
    BY <1>2, <2>1, <2>2
  <2> QED BY <2>3 DEF LineIsLeft
<1>5. LastIs'
  BY <1>1 DEF LastIs
<1>6. FieldByField' /\ StringIsField' /\ NumberIsField' /\ NothingFoundKeepsValue' /\ SafeWithinLine'
  BY <1>1, <1>2 DEF FieldByField, StringIsField, NumberIsField, NothingFoundKeepsValue,
                      SafeWithinLine, Reads
<1> QED BY <1>3, <1>4, <1>5, <1>6 DEF CsvInv

\* A value is read in its own field.
LEMMA GivenKeeps ==
  ASSUME CsvInv, Sizes \subseteq Nat, ~crashed, ~eol, ~end, ~LineEnds, ValueFrom <= TextEnd,
         NEW c \in Calls, NEW from, from = NonBlank(ValueFrom), from <= TextEnd,
         Given(c, from), UNCHANGED text
  PROVE  CsvInv'
<1> DEFINE t == Take(c, from)
<1>1. /\ from \in pos..TextEnd
      /\ \A q \in last.line..(from - 1) : text[q] \notin Endlines
      /\ CommasBefore(from) = last.field
  BY NextValueIs DEF CsvInv
<1>2. /\ IsText /\ TextEnd \in Nat /\ pos \in 1..(TextEnd + 1) /\ last.line \in 1..pos
      /\ last.field \in Nat
  BY TextIs DEF CsvInv, CursorIs, LineIsLeft
<1>3. ValueTaken(c, from, t)
  BY <1>1, <1>2, TakeIs
<1>4. /\ pos' = t.to /\ eol' = (t.eol \/ t.to > TextEnd) /\ end' = (t.to > TextEnd)
      /\ any' = TRUE /\ value' = t.value /\ crashed' = crashed
      /\ last' = [call |-> c, from |-> from, string |-> t.string, found |-> t.found,
                  before |-> value, line |-> last.line, field |-> last.field + 1]
  BY DEF Given, CsvInv, LastIs
<1> HIDE DEF t
<1>5. t.to \in from..(TextEnd + 1) /\ t.eol \in BOOLEAN
      /\ \A q \in from..(t.to - 1) : text[q] \notin Endlines \cup {Comma}
  BY <1>3 DEF ValueTaken
<1>6. TextEnd' = TextEnd /\ IsText' /\ text' = text
  BY <1>2 DEF IsText, TextEnd
<1>7. CursorIs'
  BY <1>1, <1>2, <1>4, <1>5, <1>6 DEF CursorIs, CsvInv
<1>8. \A p : CommasBefore(p)' = CommasBefore(p)
  BY <1>4 DEF CommasBefore
<1>9. LineIsLeft'
  <2>1. CommasBefore(t.to) = CommasBefore(from)
    <3>1. /\ last.line \in Nat /\ from \in Nat /\ t.to \in Nat /\ last.line <= from /\ from <= t.to
          /\ \A q \in from..(t.to - 1) : text[q] # Comma
      BY <1>1, <1>2, <1>5
    <3> QED BY <3>1, NoComma
  <2>2. CommasBefore(pos)' = last.field
    BY <1>1, <1>4, <1>8, <2>1
  <2>3. \A q \in last.line..(t.to - 1) : q \in last.line..(from - 1) \/ q \in from..(t.to - 1)
    BY <1>1, <1>2, <1>5
  <2>4. \A q \in last.line..(t.to - 1) : text[q] \notin Endlines
    BY <1>1, <1>5, <2>3
  <2>5. last'.line = last.line /\ last'.field = last.field + 1 /\ last'.line \in 1..pos'
    BY <1>1, <1>2, <1>4, <1>5
  <2> QED BY <1>2, <1>4, <1>6, <2>2, <2>4, <2>5 DEF LineIsLeft
<1>10. LastIs'
  BY <1>4 DEF LastIs
<1>11. FieldByField'
  <2>1. LineEnd' = LineEnd
    BY <1>4 DEF LineEnd, Scan, TextEnd
  <2>2. from <= LineEnd
    <3>1. last.line \in 1..(TextEnd + 1) /\ from \in last.line..(TextEnd + 1)
      BY <1>1, <1>2
    <3> QED BY <1>1, <1>2, <3>1, InLine
  <2>3. last'.from = from /\ last'.field - 1 = last.field
    BY <1>2, <1>4
  <2> QED BY <1>1, <1>8, <2>1, <2>2, <2>3 DEF FieldByField
<1>12. NothingFoundKeepsValue'
  <2>1. Sign(from)' = Sign(from)
    BY DEF Sign
  <2>2. /\ last'.call = c /\ last'.from = from /\ last'.found = t.found /\ last'.before = value
        /\ value' = t.value /\ from > 0
    BY <1>1, <1>2, <1>4
  <2>3. c.kind \in {"int", "double"} /\ ~t.found =>
          t.value = value \/ (Sign(from) /\ t.value = Negated(value))
    BY <1>3 DEF ValueTaken
  <2>4. Negated(value) = Negated(last'.before)
    BY <2>2
  <2> QED BY <2>1, <2>2, <2>3, <2>4 DEF NothingFoundKeepsValue, Reads, Negated
<1>13. SafeWithinLine'
  BY <1>4 DEF SafeWithinLine
<1>14. StringIsField'
  <2>1. SUFFICES ASSUME c.kind = "string" PROVE StringIsField'
    <3>1. c.kind # "string" => StringIsField'
      BY <1>4 DEF StringIsField
    <3> QED BY <3>1
  <2>2. PICK b : b = ValueFrom
    OBVIOUS
  <2>3. PICK e : e = Scan(b, Endlines \cup {Comma})
    OBVIOUS
  <2>4. b \in 1..TextEnd /\ FieldText(last.field + 1) = SubSeq(text, b, e - 1)
    BY <2>2, <2>3, FieldIs DEF CsvInv
  <2>5. c.size \in Nat /\ t.string = TakeString(from, c.size).string
    BY <2>1 DEF Calls, Take, t
  <2>6. IsCutOf(t.string, BeforeNul(Stripped(SubSeq(text, b, e - 1))), c.size)
    <3>1. PICK w : w = t.string
      OBVIOUS
    <3>2. PICK f : f = BeforeNul(Stripped(SubSeq(text, b, e - 1)))
      OBVIOUS
    <3>3. PICK size : size = c.size
      OBVIOUS
    <3>4. IsCutOf(w, f, size)
      BY <1>2, <2>2, <2>3, <2>4, <2>5, <3>1, <3>2, <3>3, StringIs
    <3> QED BY <3>1, <3>2, <3>3, <3>4
  <2>7. last'.line = last.line /\ last'.field = last.field + 1
        /\ last'.string = t.string /\ last'.call = c
    BY <1>4
  <2>8. PICK k : k = last.field + 1
    OBVIOUS
  <2>9. BeforeNul(Stripped(FieldText(last.field)))' = BeforeNul(Stripped(FieldText(k)))
    BY <2>7, <2>8, FieldOf
  <2>10. IsCutOf(t.string, BeforeNul(Stripped(FieldText(k))), c.size)
    BY <2>4, <2>6, <2>8
  <2>11. IsCutOf(last.string, BeforeNul(Stripped(FieldText(last.field))), last.call.size)'
    BY <2>7, <2>9, <2>10 DEF IsCutOf
  <2> QED BY <2>11 DEF StringIsField
<1>15. NumberIsField'
  <2>1. PICK b : b = ValueFrom
    OBVIOUS
  <2>2. PICK e : e = Scan(b, Endlines \cup {Comma})
    OBVIOUS
  <2>3. b \in 1..TextEnd /\ FieldText(last.field + 1) = SubSeq(text, b, e - 1)
    BY <2>1, <2>2, FieldIs DEF CsvInv
  <2>4. PICK k : k = last.field + 1
    OBVIOUS
  <2>5. PICK f : f = Trimmed(BeforeNul(Stripped(SubSeq(text, b, e - 1))))
    OBVIOUS
  <2>6. c.kind \in {"int", "double"} => GivesNumber(f, c.kind, t.found, t.value)
    <3>1. SUFFICES ASSUME c.kind \in {"int", "double"},
                          IsNumber(Plain(f), IF c.kind = "int" THEN 0 ELSE 1)
                   PROVE  t.found /\ t.value = IF f[1] = "-" THEN Negated(NumberOf(Plain(f))) ELSE NumberOf(f)
      BY DEF GivesNumber
    <3>2. from = NonBlank(b) /\ b \in 1..TextEnd /\ IsText
      BY <1>2, <2>1, <2>3
    <3> QED BY <2>2, <2>5, <3>1, <3>2, NumberIs DEF t
  <2>7. OwnText(k) = f
    BY <2>3, <2>4, <2>5 DEF OwnText
  <2>8. last'.line = last.line /\ last'.field = k /\ last'.call = c
        /\ last'.found = t.found /\ value' = t.value
    BY <1>4, <2>4
  <2>9. last'.call.kind \in {"int", "double"} =>
          GivesNumber(OwnText(k), last'.call.kind, last'.found, value')
    BY <2>6, <2>7, <2>8
  <2> QED BY <2>8, <2>9, NumberGiven
<1> QED BY <1>7, <1>9, <1>10, <1>11, <1>12, <1>13, <1>14, <1>15 DEF CsvInv

\* The null pointer is read at the end of a text that ends without a line end, and all
\* of its fields, or all but an empty one, are given.
LEMMA CrashKeeps ==
  ASSUME CsvInv, ~eol, ~end, ~LineEnds, ValueFrom > TextEnd, crashed' = TRUE,
         UNCHANGED <<text, pos, eol, end, any, value, last>>
  PROVE  CsvInv'
<1> DEFINE s == NextStop
<1>1. /\ IsText /\ TextEnd \in Nat /\ pos \in 1..TextEnd /\ last.line \in 1..pos
      /\ last.line \in Nat /\ last.field \in Nat
  <2>1. IsText /\ TextEnd \in Nat /\ pos \in 1..(TextEnd + 1) /\ end = (pos = TextEnd + 1)
    BY TextIs DEF CsvInv, CursorIs
  <2>2. last.line \in 1..pos /\ last.field \in Nat
    BY DEF CsvInv, LineIsLeft
  <2>3. pos # TextEnd + 1
    BY <2>1, Zenon
  <2> QED BY <2>1, <2>2, <2>3
<1>2. any
  <2>1. ~any => ValueFrom = pos
    BY DEF ValueFrom
  <2> QED BY <1>1, <2>1
<1>3. /\ s \in pos..(TextEnd + 1)
      /\ \A q \in pos..(s - 1) : q \in 1..TextEnd /\ text[q] \notin Endlines \cup {Comma}
      /\ s <= TextEnd => text[s] \in Endlines \cup {Comma}
  <2> HIDE DEF s
  <2> QED BY <1>1, ScanIs DEF s, NextStop
<1>4. s + 1 > TextEnd /\ ~(s <= TextEnd /\ text[s] \in Endlines)
  BY <1>2 DEF ValueFrom, LineEnds
<1>5. /\ \A q \in last.line..(pos - 1) : text[q] \notin Endlines
      /\ CommasBefore(pos) = last.field - 1
  BY <1>2 DEF CsvInv, LineIsLeft
<1> HIDE DEF s
<1>6. s \in {TextEnd, TextEnd + 1} /\ s \in Nat /\ pos \in Nat /\ pos <= s /\ last.line <= s
      /\ last.line <= pos
  BY <1>1, <1>3, <1>4
<1>7. CommasBefore(s) = last.field - 1
  BY <1>1, <1>3, <1>5, <1>6, NoComma
<1>8. LineEnd = TextEnd + 1
  <2> DEFINE e == LineEnd
  <2>1. e \in last.line..(TextEnd + 1) /\ (e <= TextEnd => text[e] \in Endlines)
    <3>1. last.line \in 1..(TextEnd + 1)
      BY <1>1
    <3> QED BY <1>1, <3>1, ScanIs DEF LineEnd
  <2> HIDE DEF e
  <2>2. e <= TextEnd => e \in last.line..(pos - 1) \/ e \in pos..(s - 1) \/ e = s
    BY <1>1, <1>6, <2>1
  <2>3. ~(e <= TextEnd)
    BY <1>3, <1>4, <1>5, <2>1, <2>2
  <2> QED BY <1>1, <2>1, <2>3 DEF e
<1>9. last.field >= Fields \/ (last.field = Fields - 1 /\ FieldText(Fields) = <<>>)
  <2>1. CASE s = TextEnd + 1
    <3>1. Fields = (last.field - 1) + 1
      BY <1>7, <1>8, <2>1 DEF Fields
    <3> QED BY <1>1, <3>1
  <2>2. CASE s = TextEnd
    <3>1. text[s] = Comma
      BY <1>3, <1>4, <1>6, <2>2
    <3>2. CommasBefore(s + 1) = CommasBefore(s) + 1
      BY <1>1, <1>6, <3>1, OneComma
    <3>3. CommasBefore(LineEnd) = last.field
      BY <1>1, <1>7, <1>8, <2>2, <3>2
    <3>4. Fields = last.field + 1
      BY <3>3 DEF Fields
    <3>5. ASSUME NEW q \in last.line..(LineEnd - 1), text[q] # Comma
          PROVE  CommasBefore(q) # Fields - 1
      <4>1. q \in Nat /\ q <= s
        BY <1>1, <1>6, <1>8, <2>2
      <4>2. CommasBefore(q) <= CommasBefore(s) /\ CommasBefore(q) \in Nat
        BY <1>1, <1>6, <4>1, CommasGrow, CommasAre
      <4> QED BY <1>1, <1>7, <3>4, <4>2
    <3>6. FieldAt(Fields) = {}
      BY <3>5 DEF FieldAt
    <3>7. FieldText(Fields) = <<>>
      BY <3>6 DEF FieldText
    <3> QED BY <1>1, <3>4, <3>7
  <2> QED BY <1>6, <2>1, <2>2
<1>10. SafeWithinLine
  BY <1>1, <1>8, <1>9 DEF SafeWithinLine
<1>11. SafeWithinLine'
  <2>1. pos <= TextEnd /\ LineEnd = TextEnd + 1
    BY <1>1, <1>8
  <2>2. UNCHANGED <<TextEnd, LineEnd, Fields, FieldText(Fields)>>
    BY DEF TextEnd, LineEnd, Fields, FieldText, FieldAt, CommasBefore, Scan
  <2> QED BY <1>9, <2>1, <2>2 DEF SafeWithinLine
<1>12. CursorIs' /\ LineIsLeft' /\ LastIs'
  BY DEF CsvInv, CursorIs, LineIsLeft, LastIs, IsText, TextEnd, CommasBefore
<1>13. FieldByField' /\ NothingFoundKeepsValue'
  BY DEF CsvInv, FieldByField, NothingFoundKeepsValue, Reads, Sign, Negated, LineEnd, CommasBefore,
         Scan, TextEnd
<1>14. StringIsField' /\ NumberIsField'
  BY StringStays, NumberStays DEF CsvInv
<1> QED BY <1>11, <1>12, <1>13, <1>14 DEF CsvInv

LEMMA CallKeeps ==
  ASSUME CsvInv, Sizes \subseteq Nat, NEW c \in Calls, Call(c)
  PROVE  CsvInv'
<1>1. ~crashed /\ UNCHANGED text
  BY DEF Call
<1>2. /\ IsText /\ TextEnd \in Nat /\ pos \in 1..(TextEnd + 1) /\ end = (pos = TextEnd + 1)
      /\ eol \in BOOLEAN /\ end \in BOOLEAN
  BY TextIs DEF CsvInv, CursorIs
<1>3. CASE (eol \/ end) /\ Nothing(c) /\ UNCHANGED <<pos, eol, end>>
  BY <1>1, <1>2, <1>3, NothingKeeps
<1>4. CASE ~eol /\ ~end /\ LineEnds /\ Nothing(c) /\ pos' = NextStop /\ eol' = TRUE /\ UNCHANGED end
  <2>1. NextStop \in pos..(TextEnd + 1)
    BY <1>2, ScanIs DEF NextStop
  <2>2. NextStop <= TextEnd
    BY <1>4 DEF LineEnds
  <2> QED BY <1>1, <1>2, <1>4, <2>1, <2>2, NothingKeeps
<1>5. CASE /\ ~eol /\ ~end /\ ~LineEnds /\ ValueFrom > TextEnd /\ crashed' = TRUE
           /\ UNCHANGED <<pos, eol, end, any, value, last>>
  BY <1>1, <1>5, CrashKeeps
<1> DEFINE from == NonBlank(ValueFrom)
<1>6. ASSUME ~eol, ~end, ~LineEnds, ValueFrom <= TextEnd, from > TextEnd,
             Nothing(c), pos' = from, eol' = TRUE, end' = TRUE
      PROVE  CsvInv'
  <2>1. ValueFrom \in pos..(TextEnd + 1)
    <3>1. NextStop \in pos..(TextEnd + 1)
      BY <1>2, ScanIs DEF NextStop
    <3> QED BY <1>2, <1>6, <3>1 DEF ValueFrom
  <2>2. from \in ValueFrom..(TextEnd + 1)
    <3>1. ValueFrom \in 1..(TextEnd + 1)
      BY <1>2, <2>1
    <3> QED BY <1>2, <3>1, ScanIs DEF NonBlank
  <2>3. pos' = TextEnd + 1
    BY <1>2, <1>6, <2>1, <2>2
  <2>4. pos' \in pos..(TextEnd + 1)
    BY <1>2, <2>3
  <2>5. end' = (pos' = TextEnd + 1)
    BY <1>6, <2>3, Zenon
  <2>6. eol' \in BOOLEAN /\ (eol' \/ end')
    BY <1>6
  <2> HIDE DEF from
  <2> QED BY <1>1, <1>6, <2>4, <2>5, <2>6, NothingKeeps
<1>7. ASSUME ~eol, ~end, ~LineEnds, ValueFrom <= TextEnd, from <= TextEnd, Given(c, from)
      PROVE  CsvInv'
  BY <1>1, <1>7, GivenKeeps
<1>8. \/ (eol \/ end) /\ Nothing(c) /\ UNCHANGED <<pos, eol, end>>
      \/ ~eol /\ ~end /\ LineEnds /\ Nothing(c) /\ pos' = NextStop /\ eol' = TRUE /\ UNCHANGED end
      \/ /\ ~eol /\ ~end /\ ~LineEnds /\ ValueFrom > TextEnd /\ crashed' = TRUE
         /\ UNCHANGED <<pos, eol, end, any, value, last>>
      \/ /\ ~eol /\ ~end /\ ~LineEnds /\ ValueFrom <= TextEnd
         /\ from > TextEnd /\ Nothing(c) /\ pos' = from /\ eol' = TRUE /\ end' = TRUE
      \/ /\ ~eol /\ ~end /\ ~LineEnds /\ ValueFrom <= TextEnd
         /\ ~(from > TextEnd) /\ Given(c, from)
  BY DEF Call
<1>9. ~(from > TextEnd) /\ ValueFrom <= TextEnd => from <= TextEnd
  <2>1. ~any => ValueFrom = pos
    BY DEF ValueFrom
  <2>2. any => ValueFrom = NextStop + 1
    BY DEF ValueFrom
  <2>3. NextStop \in pos..(TextEnd + 1)
    BY <1>2, ScanIs DEF NextStop
  <2>4. ValueFrom <= TextEnd => ValueFrom \in 1..(TextEnd + 1)
    BY <1>2, <2>1, <2>2, <2>3
  <2>5. ValueFrom <= TextEnd => from \in ValueFrom..(TextEnd + 1)
    BY <1>2, <2>4, ScanIs DEF NonBlank
  <2> QED BY <1>2, <2>4, <2>5
<1> QED BY <1>3, <1>4, <1>5, <1>6, <1>7, <1>8, <1>9

LEMMA NextLineKeeps ==
  ASSUME CsvInv, NextLine
  PROVE  CsvInv'
<1> DEFINE q == Scan(pos, Endlines \cup {"NUL"})
           two == q < TextEnd /\ text[q] \in Endlines /\ text[q + 1] \in Endlines \ {text[q]}
           to == IF q > TextEnd THEN TextEnd + 1 ELSE IF two THEN q + 2 ELSE q + 1
<1>1. /\ pos' = to /\ eol' = (to > TextEnd) /\ end' = (to > TextEnd)
      /\ last' = [last EXCEPT !.from = 0, !.before = value, !.line = to, !.field = 0]
      /\ any' = FALSE /\ text' = text /\ value' = value /\ crashed' = crashed /\ ~crashed
  BY DEF NextLine
<1>2. /\ IsText /\ TextEnd \in Nat /\ pos \in 1..(TextEnd + 1)
      /\ crashed \in BOOLEAN
  BY TextIs DEF CsvInv, CursorIs
<1>3. to \in 1..(TextEnd + 1)
  <2>1. q \in pos..(TextEnd + 1)
    <3> HIDE DEF q
    <3> QED BY <1>2, ScanIs DEF q
  <2> HIDE DEF q
  <2> QED BY <1>2, <2>1
<1> HIDE DEF to
<1>4. last' = [call |-> last.call, from |-> 0, string |-> last.string, found |-> last.found,
               before |-> value, line |-> to, field |-> 0]
  BY <1>1 DEF CsvInv, LastIs
<1>5. TextEnd' = TextEnd /\ IsText'
  BY <1>1, <1>2 DEF IsText, TextEnd
<1>6. CursorIs'
  <2>1. end' = (pos' = TextEnd + 1) /\ eol' \in BOOLEAN /\ end' \in BOOLEAN
    BY <1>1, <1>2, <1>3
  <2> QED BY <1>1, <1>2, <1>3, <1>5, <2>1 DEF CursorIs
<1>7. LineIsLeft'
  <2>1. last'.line = to /\ last'.field = 0 /\ pos' = to /\ to \in Nat
    BY <1>1, <1>2, <1>3, <1>4
  <2>2. \A r \in to..(to - 1) : FALSE
    BY <2>1
  <2> QED BY <1>1, <1>3, <2>1, <2>2 DEF LineIsLeft
<1>8. LastIs'
  BY <1>4 DEF LastIs
<1>9. FieldByField' /\ StringIsField' /\ NumberIsField' /\ NothingFoundKeepsValue' /\ SafeWithinLine'
  BY <1>1, <1>4 DEF FieldByField, StringIsField, NumberIsField, NothingFoundKeepsValue,
                      SafeWithinLine, Reads
<1> QED BY <1>6, <1>7, <1>8, <1>9 DEF CsvInv

LEMMA CsvInvInit ==
  ASSUME CsvInit, Texts \subseteq Seq(Alphabet)
  PROVE  CsvInv
<1>1. IsText /\ TextEnd \in Nat
  BY TextIs DEF CsvInit, IsText
<1>2. last = [call |-> [kind |-> "none", size |-> 0], from |-> 0, string |-> <<>>, found |-> FALSE,
              before |-> value, line |-> 1, field |-> 0]
  BY DEF CsvInit
<1>3. /\ pos = 1 /\ eol = FALSE /\ end = (TextEnd = 0) /\ any = FALSE /\ crashed = FALSE
  BY DEF CsvInit
<1>4. CursorIs
  <2>1. end = (pos = TextEnd + 1) /\ pos \in 1..(TextEnd + 1)
    BY <1>1, <1>3
  <2>2. end \in BOOLEAN
    BY <2>1
  <2>3. eol \in BOOLEAN /\ any \in BOOLEAN /\ crashed \in BOOLEAN
    BY <1>3
  <2> QED BY <1>1, <2>1, <2>2, <2>3 DEF CursorIs
<1>5. LineIsLeft
  BY <1>2, <1>3 DEF LineIsLeft
<1>6. LastIs
  BY <1>2 DEF LastIs
<1>7. FieldByField /\ StringIsField /\ NumberIsField /\ NothingFoundKeepsValue /\ SafeWithinLine
  BY <1>2, <1>3 DEF FieldByField, StringIsField, NumberIsField, NothingFoundKeepsValue,
                      SafeWithinLine, Reads
<1> QED BY <1>4, <1>5, <1>6, <1>7 DEF CsvInv

LEMMA CsvStep ==
  ASSUME CsvInv, Sizes \subseteq Nat, [CsvNext]_csvVars
  PROVE  CsvInv'
<1>1. CASE NextLine
  BY <1>1, NextLineKeeps
<1>2. ASSUME NEW c \in Calls, Call(c)
      PROVE  CsvInv'
  BY <1>2, CallKeeps
<1>3. CASE UNCHANGED csvVars
  <2>1. UNCHANGED <<text, pos, eol, end, any, value, crashed, last>>
    BY <1>3 DEF csvVars
  <2>2. CursorIs' /\ LineIsLeft' /\ LastIs'
    BY <2>1 DEF CsvInv, CursorIs, LineIsLeft, LastIs, IsText, TextEnd, CommasBefore
  <2>3. FieldByField' /\ NothingFoundKeepsValue'
    BY <2>1 DEF CsvInv, FieldByField, NothingFoundKeepsValue, Reads, Sign, Negated, LineEnd,
               CommasBefore, Scan, TextEnd
  <2>4. SafeWithinLine'
    <3>1. UNCHANGED <<TextEnd, LineEnd, Fields, FieldText(Fields)>>
      BY <2>1 DEF TextEnd, LineEnd, Fields, FieldText, FieldAt, CommasBefore, Scan
    <3> QED BY <2>1, <3>1 DEF CsvInv, SafeWithinLine
  <2>5. StringIsField' /\ NumberIsField'
    BY <2>1, StringStays, NumberStays DEF CsvInv
  <2> QED BY <2>2, <2>3, <2>4, <2>5 DEF CsvInv
<1> QED BY <1>1, <1>2, <1>3 DEF CsvNext

LEMMA CsvInvariant == CsvSpec => []CsvInv
<1>1. CsvInit => CsvInv
  BY CsvInvInit, CsvLineAssumption
<1>2. CsvInv /\ [CsvNext]_csvVars => CsvInv'
  BY CsvStep, CsvLineAssumption
<1> QED BY <1>1, <1>2, PTL DEF CsvSpec

\* moveToNextNonWhitespaceValue: for every text, the k-th call that gives a value reads
\* the k-th field of its line, whatever the calls before it have left of theirs.
THEOREM FieldsInOrder == CsvSpec => []FieldByField
<1>1. CsvInv => FieldByField
  BY DEF CsvInv
<1> QED BY <1>1, CsvInvariant, PTL

\* nextString, nextInt, nextFloat, nextDouble: for every text and every buffer's size, a
\* string is its field without the blanks around it, up to a NUL and to what the buffer
\* holds, and a field that is a number gives what its digits are worth in their places,
\* with its sign and its decimals.
THEOREM ValuesAreFields == CsvSpec => []ValueIsField
<1>1. CsvInv => ValueIsField
  BY DEF CsvInv, ValueIsField
<1> QED BY <1>1, CsvInvariant, PTL

\* nextInt, nextFloat, nextDouble: a call that finds no number leaves the caller's own
\* value to it, but for the sign.
THEOREM DefaultsAreKept == CsvSpec => []NothingFoundKeepsValue
<1>1. CsvInv => NothingFoundKeepsValue
  BY DEF CsvInv
<1> QED BY <1>1, CsvInvariant, PTL

\* getNextChar: the null pointer is read only in a text without a line end, by a caller who
\* asks for a field after the last one, or for the last one when that is empty.
THEOREM NullIsBeyondTheLine == CsvSpec => []SafeWithinLine
<1>1. CsvInv => SafeWithinLine
  BY DEF CsvInv
<1> QED BY <1>1, CsvInvariant, PTL

-----------------------------------------------------------------------------
\* The caller's number: what is read is a natural number whatever it is read from, it has no
\* more decimals than the text has characters, and a sign changes neither.
Typed == [m: Int, d: 0..TextEnd]

LEMMA DigIsNat ==
  ASSUME NEW n \in Nat, NEW s, DOMAIN s = 1..n
  PROVE  Dig(s) \in Nat
<1>1. PICK acc : DigitsTaken(acc, s, n) /\ Dig(s) = acc[n]
  BY DigUnfolds
<1> DEFINE T == {k \in Nat : k <= n => acc[k] \in Nat}
<1>2. 0 \in T
  BY <1>1 DEF DigitsTaken
<1>3. ASSUME NEW k \in Nat, k \in T
      PROVE  k + 1 \in T
  <2>1. SUFFICES ASSUME k + 1 <= n
                 PROVE  acc[k + 1] \in Nat
    OBVIOUS
  <2>2. k + 1 \in 1..n /\ (k + 1) - 1 = k
    BY <2>1
  <2>3. PICK a \in Nat : a = acc[k]
    BY <1>3, <2>1
  <2>4. PICK c : c = s[k + 1]
    OBVIOUS
  <2>5. acc[k + 1] = DigitTaken(a, c)
    BY <1>1, <2>2, <2>3, <2>4 DEF DigitsTaken
  <2>6. c \in Digits => DigitValue[c] \in Nat
    BY DigitsAre
  <2> QED BY <2>5, <2>6 DEF DigitTaken
<1>4. n \in T
  <2>1. Nat \subseteq T
    <3> HIDE DEF T
    <3> QED BY <1>2, <1>3, SetInduction
  <2> QED BY <2>1
<1> QED BY <1>1, <1>4

LEMMA DigOfText ==
  ASSUME IsText, NEW a \in 1..(TextEnd + 1), NEW b \in a..(TextEnd + 1)
  PROVE  Dig(SubSeq(text, a, b - 1)) \in Nat
<1>1. TextEnd \in Nat /\ text \in Seq(Alphabet) /\ Len(text) = TextEnd
  BY TextIs DEF IsText, TextEnd
<1>2. PICK s : s = SubSeq(text, a, b - 1)
  OBVIOUS
<1>3. s \in Seq(Alphabet)
  BY <1>1, <1>2, SubSeqProperties
<1>4. DOMAIN s = 1..Len(s) /\ Len(s) \in Nat
  BY <1>3, LenProperties
<1>5. Dig(s) \in Nat
  BY <1>4, DigIsNat
<1> QED BY <1>2, <1>5

LEMMA NegatedTyped ==
  ASSUME NEW v \in Typed
  PROVE  Negated(v) \in Typed
  BY DEF Negated, Typed

LEMMA NumberTyped ==
  ASSUME value \in Typed, NEW from, NEW to, NEW found, NEW v \in Typed
  PROVE  Number(from, to, found, v).value \in Typed
<1>1. PICK w \in Typed : w = IF found THEN v ELSE value
  OBVIOUS
<1>2. Number(from, to, found, v).value = IF Sign(from) THEN Negated(w) ELSE w
  BY <1>1 DEF Number
<1>3. Negated(w) \in Typed
  BY NegatedTyped
<1> QED BY <1>2, <1>3

\* Whatever is asked for.
LEMMA TakeTyped ==
  ASSUME IsText, value \in Typed, NEW from \in 1..TextEnd, NEW c \in Calls
  PROVE  Take(c, from).value \in Typed
<1>1. c.kind \in {"string", "int", "double"}
  BY DEF Calls
<1>2. TextEnd \in Nat
  BY TextIs
<1>3. PICK u : u = Unsigned(from)
  OBVIOUS
<1>4. u \in 1..(TextEnd + 1)
  BY <1>2, <1>3, UnsignedIs
<1>5. PICK k : k = Scan(u, Alphabet \ Digits)
  OBVIOUS
<1>6. k \in u..(TextEnd + 1)
  BY <1>4, <1>5, DigitsPassed
<1>7. CASE c.kind = "string"
  <2>1. Take(c, from).value = value
    BY <1>7 DEF Take, TakeString
  <2> QED BY <2>1
<1>8. CASE c.kind = "int"
  <2>1. PICK n \in Nat : n = Dig(SubSeq(text, u, k - 1))
    BY <1>4, <1>6, DigOfText
  <2>2. PICK v : v = [m |-> n, d |-> 0]
    OBVIOUS
  <2>3. v \in Typed
    BY <1>2, <2>2 DEF Typed
  <2>4. Take(c, from) = Number(from, k, k > u, v)
    BY <1>3, <1>5, <1>8, <2>1, <2>2 DEF Take, TakeInt
  <2> QED BY <2>3, <2>4, NumberTyped
<1>9. CASE c.kind = "double"
  <2>1. PICK to : to = IF k <= TextEnd /\ text[k] \in Above THEN Scan(k + 1, Alphabet \ Digits) ELSE k
    OBVIOUS
  <2>2. to \in k..(TextEnd + 1)
    <3>1. CASE k <= TextEnd /\ text[k] \in Above
      <4>1. k + 1 \in 1..(TextEnd + 1)
        BY <1>2, <1>4, <1>6, <3>1
      <4>2. to \in (k + 1)..(TextEnd + 1)
        BY <2>1, <3>1, <4>1, DigitsPassed
      <4> QED BY <1>2, <1>4, <1>6, <4>2
    <3>2. CASE ~(k <= TextEnd /\ text[k] \in Above)
      BY <1>2, <1>4, <1>6, <2>1, <3>2
    <3> QED BY <3>1, <3>2
  <2>3. to \in u..(TextEnd + 1)
    BY <1>2, <1>4, <1>6, <2>2
  <2>4. PICK n \in Nat : n = Dig(SubSeq(text, u, to - 1))
    BY <1>4, <2>3, DigOfText
  <2>5. PICK d : d = IF to > k THEN to - k - 1 ELSE 0
    OBVIOUS
  <2>6. d \in 0..TextEnd
    BY <1>2, <1>4, <1>6, <2>2, <2>5
  <2>7. PICK v : v = [m |-> n, d |-> d]
    OBVIOUS
  <2>8. v \in Typed
    BY <2>6, <2>7 DEF Typed
  <2>9. Take(c, from) = Number(from, to, to > u, v)
    BY <1>3, <1>5, <1>9, <2>1, <2>4, <2>5, <2>7 DEF Take, TakeDouble
  <2> QED BY <2>8, <2>9, NumberTyped
<1> QED BY <1>1, <1>7, <1>8, <1>9

LEMMA ValueTypedStep == CsvInv /\ value \in Typed /\ [CsvNext]_csvVars => (value \in Typed)'
<1> SUFFICES ASSUME CsvInv, value \in Typed, [CsvNext]_csvVars
             PROVE  value' \in Typed'
  OBVIOUS
<1>1. text' = text
  BY DEF CsvNext, NextLine, Call, csvVars
<1>2. Typed' = Typed
  BY <1>1 DEF Typed, TextEnd
<1>3. CASE NextLine \/ UNCHANGED csvVars
  BY <1>2, <1>3 DEF NextLine, csvVars
<1>4. ASSUME NEW c \in Calls, Call(c)
      PROVE  value' \in Typed
  <2>1. CASE UNCHANGED value
    BY <2>1
  <2>2. CASE /\ ~eol /\ ~end /\ ~LineEnds /\ ValueFrom <= TextEnd
             /\ NonBlank(ValueFrom) <= TextEnd /\ Given(c, NonBlank(ValueFrom))
    <3>1. PICK from : from = NonBlank(ValueFrom)
      OBVIOUS
    <3>2. /\ from \in pos..TextEnd /\ IsText /\ pos \in 1..(TextEnd + 1) /\ TextEnd \in Nat
      BY <2>2, <3>1, NextValueIs, TextIs DEF CsvInv, CursorIs
    <3>3. value' = Take(c, from).value
      BY <2>2, <3>1 DEF Given
    <3> QED BY <3>2, <3>3, TakeTyped
  <2>3. \/ UNCHANGED value
        \/ /\ ~eol /\ ~end /\ ~LineEnds /\ ValueFrom <= TextEnd
           /\ ~(NonBlank(ValueFrom) > TextEnd) /\ Given(c, NonBlank(ValueFrom))
    BY <1>4 DEF Call, Nothing
  <2>4. /\ ~eol /\ ~end /\ ~LineEnds /\ ValueFrom <= TextEnd /\ ~(NonBlank(ValueFrom) > TextEnd)
        => NonBlank(ValueFrom) <= TextEnd
    <3> SUFFICES ASSUME ~eol, ~end, ~LineEnds, ValueFrom <= TextEnd, ~(NonBlank(ValueFrom) > TextEnd)
                 PROVE  NonBlank(ValueFrom) <= TextEnd
      OBVIOUS
    <3>1. IsText /\ TextEnd \in Nat /\ pos \in 1..(TextEnd + 1)
      BY TextIs DEF CsvInv, CursorIs
    <3>2. PICK b : b = ValueFrom
      OBVIOUS
    <3>3. b \in pos..TextEnd
      BY <3>2, ValueFromIs DEF CsvInv
    <3>4. NonBlank(b) \in b..(TextEnd + 1)
      <4>1. b \in 1..(TextEnd + 1)
        BY <3>1, <3>3
      <4> QED BY <3>1, <4>1, ScanIs DEF NonBlank
    <3> QED BY <3>1, <3>2, <3>3, <3>4
  <2> QED BY <2>1, <2>2, <2>3, <2>4
<1> QED BY <1>2, <1>3, <1>4 DEF CsvNext

\* CsvParser: the cursor is in the text or behind its end, where the flag says it is, and the
\* caller's number is one whatever the text is.
THEOREM CursorTypeCorrect == CsvSpec => []CsvTypeOK
<1>1. CsvInit => value \in Typed
  <2> SUFFICES ASSUME CsvInit PROVE value \in Typed
    OBVIOUS
  <2>1. CsvInv
    BY CsvInvInit, CsvLineAssumption
  <2>2. TextEnd \in Nat
    BY <2>1, TextIs DEF CsvInv, CursorIs
  <2> QED BY <2>2 DEF CsvInit, Typed
<1>2. CsvInv /\ value \in Typed => CsvTypeOK
  BY DEF CsvInv, CursorIs, Typed, CsvTypeOK
<1> QED BY <1>1, <1>2, ValueTypedStep, CsvInvariant, PTL DEF CsvSpec

-----------------------------------------------------------------------------
(***************************************************************************)
(* The windows.                                                             *)
(***************************************************************************)
Histories == [came: Nat, taken: Nat, swaps: Nat, age: Nat, met: BOOLEAN]

Types ==
  /\ recordsAccumulator \in Seq(Nat) /\ records \in Seq(Nat)
  /\ main \in MainPcs /\ calc \in CalcPcs
  /\ sleep \in 0..Idle /\ tick \in 0..PerTick
  /\ start \in Nat /\ finish \in Nat /\ begin \in Nat
  /\ history \in Histories

\* The main thread swaps at a full accumulator, at once, and the other vector is empty.
SwapIsDue ==
  /\ main = "idle" => Len(recordsAccumulator) < Window
  /\ main # "idle" => Len(recordsAccumulator) = Window /\ tick > 0
  /\ MidSwap => records = <<>>

\* A full window has time to be taken before the next one is full.
TimeIsLeft ==
  records # <<>> =>
    /\ history.age \in 0..Idle
    /\ Len(recordsAccumulator) < PerTick * history.age + tick
    /\ calc = "asleep" => history.age + sleep <= Idle
    /\ calc = "Return" => history.age = 0
    /\ calc = "End" /\ begin # start => history.age = 0

\* The calculator clears a full vector, or one it found between the writes of a swap; what
\* it then leaves apart has been a test's between two writes turned round.
Bounds ==
  /\ main # "StartWritten" => start = history.swaps
  /\ main = "StartWritten" => start = history.swaps + 1
  /\ calc \in {"Begin", "End"} => records # <<>> \/ MidSwap
  /\ calc \in {"Begin", "End"} /\ main = "FinishWritten" => history.met
  /\ calc = "End" /\ main = "StartWritten" => begin = start
  /\ calc = "End" /\ main # "FinishWritten" /\ ~history.met => begin = start
  /\ main = "FinishWritten" /\ ~history.met => finish = history.swaps + 1
  /\ ~MidSwap /\ ~history.met => start = finish
  /\ ~MidSwap /\ start # finish => records # <<>>

\* The records are in their places.
InPlace ==
  /\ Len(records) \in {0, Window}
  /\ history.came = history.taken + Len(records) + Len(recordsAccumulator)
  /\ \A i \in 1..Len(records) : records[i] = history.taken + i
  /\ \A i \in 1..Len(recordsAccumulator) :
       recordsAccumulator[i] = history.taken + Len(records) + i

WindowInv == Types /\ SwapIsDue /\ TimeIsLeft /\ Bounds /\ InPlace

USE MagsWindowAssumption

\* What came is what was taken and what is still here.
LEMMA Counting ==
  ASSUME NEW c \in Nat, NEW t \in Nat, NEW r \in Nat, NEW a \in Nat, c = t + r + a
  PROVE c - t \in Nat /\ c - t = r + a /\ c + 1 = t + r + (a + 1)
  OBVIOUS

\* In the ticks of the longest sleep there is no room for a whole window.
LEMMA NoSecondWindow ==
  ASSUME NEW age \in 0..Idle, NEW t \in 0..PerTick
  PROVE PerTick * age + t <= Window
<1>1. PerTick * age <= PerTick * Idle
  BY SMT
<1>2. PerTick * (Idle + 1) = PerTick * Idle + PerTick
  BY SMT
<1> QED BY <1>1, <1>2, RateAssumption

\* What a step records stays in range, and it changes no more than it names.
LEMMA TakenUpdate ==
  ASSUME NEW h \in Histories, NEW t \in Nat
  PROVE LET u == [h EXCEPT !.taken = t]
        IN /\ u \in Histories /\ u.taken = t
           /\ u.came = h.came /\ u.swaps = h.swaps /\ u.age = h.age /\ u.met = h.met
  BY DEF Histories

LEMMA AgeUpdate ==
  ASSUME NEW h \in Histories, NEW a \in Nat
  PROVE LET u == [h EXCEPT !.age = a]
        IN /\ u \in Histories /\ u.age = a
           /\ u.came = h.came /\ u.taken = h.taken /\ u.swaps = h.swaps /\ u.met = h.met
  BY DEF Histories

LEMMA MetUpdate ==
  ASSUME NEW h \in Histories, NEW b \in BOOLEAN
  PROVE LET u == [h EXCEPT !.met = b]
        IN /\ u \in Histories /\ u.met = b
           /\ u.came = h.came /\ u.taken = h.taken /\ u.swaps = h.swaps /\ u.age = h.age
  BY DEF Histories

LEMMA SwapUpdate ==
  ASSUME NEW h \in Histories, NEW w \in Nat
  PROVE LET u == [h EXCEPT !.swaps = w, !.age = 0]
        IN /\ u \in Histories /\ u.swaps = w /\ u.age = 0
           /\ u.came = h.came /\ u.taken = h.taken /\ u.met = h.met
  BY DEF Histories

\* Nothing has come.
LEMMA WindowInvInit == Init => WindowInv
<1> SUFFICES ASSUME Init PROVE WindowInv
  OBVIOUS
<1>1. Types
  <2>1. <<>> \in Seq(Nat) /\ 0 \in 0..Idle /\ 0 \in 0..PerTick
    BY EmptySeq
  <2>2. history \in Histories
    BY DEF Init, Histories
  <2> QED BY <2>1, <2>2 DEF Init, Types, CalcPcs, MainPcs
<1>2. SwapIsDue /\ TimeIsLeft /\ InPlace
  BY EmptySeq DEF Init, SwapIsDue, TimeIsLeft, InPlace, MidSwap
<1>3. Bounds
  BY DEF Init, Bounds, MidSwap
<1> QED BY <1>1, <1>2, <1>3 DEF WindowInv

\* Each step of the two threads and of the clock keeps the places and the time left.
LEMMA WindowInvStep == WindowInv /\ [Next]_vars => WindowInv'
<1> SUFFICES ASSUME WindowInv, [Next]_vars PROVE WindowInv'
  OBVIOUS
<1>1. /\ Types /\ SwapIsDue /\ TimeIsLeft /\ Bounds /\ InPlace
  BY DEF WindowInv
<1>2. CASE PushBack
  <2> DEFINE n == history.came + 1
  <2>0. /\ history.came \in Nat /\ n \in Nat
        /\ history' = [history EXCEPT !.came = n]
        /\ recordsAccumulator' = Append(recordsAccumulator, n)
    <3>1. history \in Histories
      BY <1>1 DEF Types
    <3>2. /\ history' = [history EXCEPT !.came = n]
          /\ recordsAccumulator' = Append(recordsAccumulator, history'.came)
      BY <1>2 DEF PushBack
    <3>3. history.came \in Nat /\ history'.came = n
      BY <3>1, <3>2 DEF Histories
    <3> QED BY <3>2, <3>3
  <2>a. /\ history'.came = n /\ history'.taken = history.taken
        /\ history'.swaps = history.swaps /\ history'.age = history.age
        /\ history'.met = history.met
    BY <1>1, <2>0 DEF Types, Histories
  <2>e. UNCHANGED <<records, calc, sleep, start, finish, begin>>
    BY <1>2 DEF PushBack
  <2>d. ~MidSwap /\ ~MidSwap' /\ main = "idle" /\ main' \in {"idle", "Swap"}
    BY <1>2 DEF PushBack, MidSwap
  <2>b. /\ recordsAccumulator' \in Seq(Nat)
        /\ Len(recordsAccumulator') = Len(recordsAccumulator) + 1
        /\ \A i \in 1..Len(recordsAccumulator') :
             recordsAccumulator'[i] =
               IF i <= Len(recordsAccumulator) THEN recordsAccumulator[i] ELSE n
    <3> DEFINE l == recordsAccumulator
    <3>1. l \in Seq(Nat) /\ n \in Nat /\ recordsAccumulator' = Append(l, n)
      BY <1>1, <2>0 DEF Types
    <3> HIDE DEF n
    <3>2. /\ Append(l, n) \in Seq(Nat) /\ Len(Append(l, n)) = Len(l) + 1
          /\ \A i \in 1..Len(l) : Append(l, n)[i] = l[i]
          /\ Append(l, n)[Len(l) + 1] = n
      BY <3>1, AppendProperties
    <3>3. Len(l) \in Nat
      BY <3>1
    <3> QED BY <3>1, <3>2, <3>3
  <2>c. tick \in 0..PerTick /\ tick < PerTick /\ tick' = tick + 1
    BY <1>1, <1>2 DEF PushBack, Types
  <2>1. Types'
    <3>1. history' \in Histories
      BY <1>1, <2>0 DEF Types, Histories
    <3>2. tick' \in 0..PerTick
      BY <2>c
    <3> QED BY <1>1, <2>b, <2>d, <2>e, <3>1, <3>2 DEF Types, MainPcs
  <2>2. SwapIsDue'
    <3>1. Len(recordsAccumulator) \in Nat /\ Len(recordsAccumulator) < Window
      BY <1>1, <1>2 DEF PushBack, Types, SwapIsDue
    <3>2. main' = IF Len(recordsAccumulator') >= Window THEN "Swap" ELSE "idle"
      BY <1>2 DEF PushBack
    <3> QED BY <2>b, <2>c, <2>d, <3>1, <3>2 DEF SwapIsDue
  <2>3. TimeIsLeft'
    <3>1. /\ records' = records /\ calc' = calc /\ sleep' = sleep /\ begin' = begin
          /\ start' = start
      BY <2>e
    <3>2. ASSUME records # <<>> PROVE PerTick * history.age \in Nat
      BY <1>1, SMT DEF Types, Histories
    <3>3. Len(recordsAccumulator) \in Nat
      BY <1>1 DEF Types
    <3> HIDE DEF n
    <3> QED BY <1>1, <2>a, <2>b, <2>c, <3>1, <3>2, <3>3, SMTT(30) DEF TimeIsLeft
  <2>4. InPlace'
    <3>1. records' = records
      BY <1>2 DEF PushBack
    <3>2. /\ Len(recordsAccumulator) \in Nat /\ Len(records) \in Nat
          /\ history.taken \in Nat
      BY <1>1 DEF Types, Histories
    <3>3. n = history.taken + Len(records) + (Len(recordsAccumulator) + 1)
      <4>1. history.came = history.taken + Len(records) + Len(recordsAccumulator)
        BY <1>1 DEF InPlace
      <4>2. history.came \in Nat
        BY <2>0
      <4> QED BY <3>2, <4>1, <4>2, Counting, SMTT(30)
    <3> HIDE DEF n
    <3>4. \A i \in 1..Len(recordsAccumulator') :
            recordsAccumulator'[i] = history.taken + Len(records) + i
      <4> SUFFICES ASSUME NEW i \in 1..Len(recordsAccumulator')
                   PROVE recordsAccumulator'[i] = history.taken + Len(records) + i
        OBVIOUS
      <4>1. CASE i <= Len(recordsAccumulator)
        BY <1>1, <2>b, <3>2, <4>1, SMTT(30) DEF InPlace
      <4>2. CASE i = Len(recordsAccumulator) + 1
        <5>1. recordsAccumulator'[i] = n
          BY <2>b, <3>2, <4>2
        <5> QED BY <3>3, <4>2, <5>1
      <4> QED BY <2>b, <3>2, <4>1, <4>2
    <3>5. history'.came = history'.taken + Len(records') + Len(recordsAccumulator')
      BY <2>a, <2>b, <3>1, <3>3
    <3>6. /\ Len(records') \in {0, Window}
          /\ \A i \in 1..Len(records') : records'[i] = history'.taken + i
      BY <1>1, <2>a, <3>1 DEF InPlace
    <3> QED BY <2>a, <3>1, <3>4, <3>5, <3>6 DEF InPlace
  <2>5. Bounds'
    BY <1>1, <2>a, <2>d, <2>e DEF Bounds
  <2> QED BY <2>1, <2>2, <2>3, <2>4, <2>5 DEF WindowInv
<1>3. CASE SwapBegins
  <2>1. Len(recordsAccumulator) = Window /\ tick > 0 /\ tick <= PerTick /\ main = "Swap"
    BY <1>1, <1>3 DEF SwapBegins, SwapIsDue, Types
  <2>2. records = <<>>
    <3> SUFFICES ASSUME records # <<>> PROVE FALSE
      OBVIOUS
    <3>1. history.age \in 0..Idle /\ Len(recordsAccumulator) < PerTick * history.age + tick
      BY <1>1 DEF TimeIsLeft
    <3>2. PerTick * history.age + tick <= Window
      BY <1>1, <3>1, NoSecondWindow DEF Types
    <3> QED BY <1>1, <2>1, <3>1, <3>2 DEF Types
  <2>3. /\ history' \in Histories /\ ~history'.met
        /\ history'.age = history.age /\ history'.swaps = history.swaps
        /\ history'.came = history.came /\ history'.taken = history.taken
    <3>1. history \in Histories /\ FALSE \in BOOLEAN
      BY <1>1 DEF Types
    <3>2. history' = [history EXCEPT !.met = FALSE]
      BY <1>3 DEF SwapBegins
    <3> QED BY <3>1, <3>2, MetUpdate
  <2>4. UNCHANGED <<recordsAccumulator, records, calc, sleep, begin, tick>>
    BY <1>3 DEF SwapBegins
  <2>5. \/ start' = history.swaps + 1 /\ main' = "StartWritten" /\ finish' = finish
        \/ finish' = history.swaps + 1 /\ main' = "FinishWritten" /\ start' = start
    BY <1>3 DEF SwapBegins
  <2>6. start = history.swaps /\ calc \notin {"Begin", "End"} /\ MidSwap'
    BY <1>1, <2>1, <2>2, <2>5 DEF Bounds, MidSwap
  <2>7. Types'
    <3>1. history.swaps + 1 \in Nat
      BY <1>1 DEF Types, Histories
    <3> QED BY <1>1, <2>3, <2>4, <2>5, <3>1 DEF Types, MainPcs
  <2>8. SwapIsDue' /\ TimeIsLeft'
    BY <2>1, <2>2, <2>4, <2>5 DEF SwapIsDue, TimeIsLeft
  <2>9. Bounds'
    BY <2>3, <2>4, <2>5, <2>6 DEF Bounds
  <2>10. InPlace'
    BY <1>1, <2>3, <2>4 DEF InPlace
  <2> QED BY <2>7, <2>8, <2>9, <2>10 DEF WindowInv
<1>11. CASE SwapEnds
  <2>1. /\ Len(recordsAccumulator) = Window /\ tick > 0 /\ tick <= PerTick
        /\ main \in {"StartWritten", "FinishWritten"} /\ records = <<>>
    BY <1>1, <1>11 DEF SwapEnds, SwapIsDue, Types, MidSwap
  <2>3. /\ history' \in Histories
        /\ history'.age = 0 /\ history'.swaps = history.swaps + 1
        /\ history'.came = history.came /\ history'.taken = history.taken
        /\ history'.met = history.met
    <3>1. history \in Histories /\ history.swaps + 1 \in Nat
      BY <1>1 DEF Types, Histories
    <3>2. history' = [history EXCEPT !.swaps = history.swaps + 1, !.age = 0]
      BY <1>11 DEF SwapEnds
    <3> QED BY <3>1, <3>2, SwapUpdate
  <2>4. /\ records' = recordsAccumulator /\ Len(records') = Window
        /\ recordsAccumulator' = <<>> /\ Len(recordsAccumulator') = 0
        /\ main' = "idle" /\ tick' = tick /\ calc' = calc /\ sleep' = sleep
        /\ begin' = begin
    BY <1>11, <2>1, EmptySeq DEF SwapEnds
  <2>5. IF main = "StartWritten" THEN finish' = history.swaps + 1 /\ start' = start
        ELSE start' = history.swaps + 1 /\ finish' = finish
    BY <1>11 DEF SwapEnds
  <2>6. history.swaps + 1 \in Nat
    BY <1>1 DEF Types, Histories
  <2>7. Types'
    BY <1>1, <2>3, <2>4, <2>5, <2>6 DEF Types, MainPcs
  <2>8. SwapIsDue'
    BY <2>3, <2>4 DEF SwapIsDue, MidSwap
  <2>9. TimeIsLeft'
    <3>1. PerTick * 0 = 0 /\ 0 \in 0..Idle /\ sleep <= Idle
      BY <1>1 DEF Types
    <3> QED BY <2>1, <2>3, <2>4, <3>1, <1>1 DEF TimeIsLeft, Types
  <2>10. Bounds'
    <3>1. records' # <<>> /\ ~MidSwap' /\ main' = "idle"
      BY <2>4, EmptySeq DEF MidSwap
    <3>2. start' = history'.swaps
      BY <1>1, <2>1, <2>3, <2>5 DEF Bounds
    <3>3. ~history'.met => start' = finish'
      BY <1>1, <2>1, <2>3, <2>5, <3>2 DEF Bounds
    <3>4. calc' = "End" /\ ~history'.met => begin' = start'
      BY <1>1, <2>1, <2>3, <2>4, <2>5 DEF Bounds
    <3> QED BY <3>1, <3>2, <3>3, <3>4 DEF Bounds
  <2>11. InPlace'
    <3>1. Len(records) = 0 /\ history.taken \in Nat
      BY <1>1, <2>1, EmptySeq DEF Types, Histories
    <3>2. \A i \in 1..Window : recordsAccumulator[i] = history.taken + i
      BY <1>1, <2>1, <3>1 DEF InPlace
    <3> QED BY <1>1, <2>1, <2>3, <2>4, <3>1, <3>2 DEF InPlace
  <2> QED BY <2>7, <2>8, <2>9, <2>10, <2>11 DEF WindowInv
<1>4. CASE FindsWindow
  <2>1. /\ history' \in Histories /\ history'.met = (history.met \/ main = "FinishWritten")
        /\ history'.age = history.age /\ history'.swaps = history.swaps
        /\ history'.came = history.came /\ history'.taken = history.taken
    <3>1. PICK b \in BOOLEAN : b = (history.met \/ main = "FinishWritten")
      OBVIOUS
    <3>2. history \in Histories /\ history' = [history EXCEPT !.met = b]
      BY <1>1, <1>4, <3>1, Zenon DEF FindsWindow, Types
    <3>3. /\ history' \in Histories /\ history'.met = b
          /\ history'.age = history.age /\ history'.swaps = history.swaps
          /\ history'.came = history.came /\ history'.taken = history.taken
      BY <3>2, MetUpdate
    <3> QED BY <3>1, <3>3, Zenon
  <2>2. /\ UNCHANGED <<recordsAccumulator, records, main, sleep, start, finish, begin, tick>>
        /\ calc = "Empty" /\ calc' \in {"Begin", "Return"}
        /\ calc' = "Begin" <=> start # finish \/ records # <<>>
    BY <1>4 DEF FindsWindow
  <2>3. Types' /\ SwapIsDue' /\ InPlace'
    BY <1>1, <2>1, <2>2 DEF Types, SwapIsDue, InPlace, CalcPcs, MidSwap
  <2>4. TimeIsLeft'
    BY <1>1, <2>1, <2>2 DEF TimeIsLeft
  <2>5. MidSwap' = MidSwap
    BY <2>2 DEF MidSwap
  <2>6. calc' = "Begin" => records # <<>> \/ MidSwap
    BY <1>1, <2>2 DEF Bounds
  <2>7. Bounds'
    BY <1>1, <2>1, <2>2, <2>5, <2>6 DEF Bounds
  <2> QED BY <2>3, <2>4, <2>7 DEF WindowInv
<1>5. CASE ClearBegins
  <2>1. /\ UNCHANGED <<recordsAccumulator, records, main, sleep, start, finish, tick, history>>
        /\ calc = "Begin" /\ calc' = "End" /\ begin' = start
    BY <1>5 DEF ClearBegins
  <2>2. Types' /\ SwapIsDue' /\ InPlace'
    BY <1>1, <2>1 DEF Types, SwapIsDue, InPlace, CalcPcs, MidSwap
  <2>3. TimeIsLeft' /\ Bounds'
    BY <1>1, <2>1 DEF TimeIsLeft, Bounds, MidSwap
  <2> QED BY <2>2, <2>3 DEF WindowInv
<1>6. CASE ClearEnds
  <2>1. /\ UNCHANGED <<recordsAccumulator, main, sleep, start, begin, tick>>
        /\ calc = "End" /\ calc' = "Return" /\ finish' = begin /\ MidSwap' = MidSwap
    BY <1>6 DEF ClearEnds, MidSwap
  <2>2. CASE begin = start /\ ~MidSwap
    <3>1. /\ Len(records) \in Nat /\ Len(recordsAccumulator) \in Nat
          /\ history.taken \in Nat /\ records' = <<>> /\ Len(<<>>) = 0
      <4>1. records \in Seq(Nat) /\ recordsAccumulator \in Seq(Nat) /\ history \in Histories
        BY <1>1 DEF Types
      <4>2. Len(records) \in Nat /\ Len(recordsAccumulator) \in Nat
        BY <4>1
      <4>3. history.taken \in Nat
        BY <4>1 DEF Histories
      <4>4. records' = <<>>
        BY <1>6, <2>2 DEF ClearEnds
      <4> QED BY <4>2, <4>3, <4>4
    <3>2. /\ history' \in Histories /\ history'.came = history.came
          /\ history'.taken = history.taken + Len(records)
          /\ history'.swaps = history.swaps /\ history'.age = history.age
          /\ history'.met = history.met
      <4> DEFINE t == history.taken + Len(records)
      <4>1. history \in Histories /\ t \in Nat
        BY <1>1, <3>1 DEF Types
      <4>2. history' = [history EXCEPT !.taken = t]
        BY <1>6, <2>2 DEF ClearEnds
      <4> HIDE DEF t
      <4>3. /\ history' \in Histories /\ history'.came = history.came /\ history'.taken = t
            /\ history'.swaps = history.swaps /\ history'.age = history.age
            /\ history'.met = history.met
        BY <4>1, <4>2, TakenUpdate
      <4> QED BY <4>3 DEF t
    <3>3. Types'
      BY <1>1, <2>1, <3>1, <3>2, EmptySeq DEF Types, CalcPcs
    <3>4. SwapIsDue' /\ TimeIsLeft'
      BY <1>1, <2>1, <2>2, <3>1 DEF SwapIsDue, TimeIsLeft
    <3>5. Bounds'
      BY <1>1, <2>1, <2>2, <3>2 DEF Bounds
    <3>6. InPlace'
      BY <1>1, <2>1, <3>1, <3>2 DEF InPlace
    <3> QED BY <3>3, <3>4, <3>5, <3>6 DEF WindowInv
  <2>3. CASE ~(begin = start /\ ~MidSwap)
    <3>1. UNCHANGED <<records, history>>
      BY <1>6, <2>3 DEF ClearEnds
    <3>2. Types' /\ SwapIsDue' /\ InPlace'
      BY <1>1, <2>1, <3>1 DEF Types, SwapIsDue, InPlace, CalcPcs
    <3>3. TimeIsLeft'
      BY <1>1, <2>1, <2>3, <3>1 DEF TimeIsLeft, SwapIsDue
    <3>4. Bounds'
      BY <1>1, <2>1, <2>3, <3>1 DEF Bounds, MidSwap
    <3> QED BY <3>2, <3>3, <3>4 DEF WindowInv
  <2> QED BY <2>2, <2>3
<1>7. CASE Returns
  <2>1. sleep' \in 0..Idle
    BY <1>7 DEF Returns
  <2>2. Types'
    BY <1>1, <1>7, <2>1 DEF Returns, Types, CalcPcs
  <2>3. SwapIsDue' /\ InPlace' /\ Bounds'
    BY <1>1, <1>7 DEF Returns, SwapIsDue, InPlace, Bounds, MidSwap
  <2>4. TimeIsLeft'
    BY <1>1, <1>7, <2>1 DEF Returns, TimeIsLeft
  <2> QED BY <2>2, <2>3, <2>4 DEF WindowInv
<1>8. CASE Wakes
  BY <1>1, <1>8 DEF Wakes, WindowInv, Types, SwapIsDue, TimeIsLeft, Bounds, InPlace, CalcPcs,
                    MidSwap
<1>9. CASE Tick
  <2>1. /\ sleep' \in 0..Idle /\ sleep' = sleep - 1 /\ sleep \in 0..Idle
        /\ tick' = 0 /\ tick \in 0..PerTick /\ 0 \in 0..PerTick
    <3>1. sleep \in 0..Idle /\ tick \in 0..PerTick /\ Idle \in Nat /\ PerTick \in Nat \ {0}
      BY <1>1 DEF Types
    <3>2. sleep > 0 /\ sleep' = sleep - 1 /\ tick' = 0
      BY <1>9 DEF Tick
    <3> QED BY <3>1, <3>2
  <2>2. /\ history' \in Histories /\ history'.came = history.came
        /\ history'.taken = history.taken /\ history'.swaps = history.swaps
        /\ history'.age = IF records = <<>> THEN 0 ELSE history.age + 1
        /\ history.age \in Nat /\ history'.met = history.met
    <3> DEFINE a == IF records = <<>> THEN 0 ELSE history.age + 1
    <3>1. history \in Histories /\ history.age \in Nat /\ a \in Nat
      BY <1>1 DEF Types, Histories
    <3>2. history' = [history EXCEPT !.age = a]
      BY <1>9 DEF Tick
    <3> HIDE DEF a
    <3>3. /\ history' \in Histories /\ history'.came = history.came /\ history'.age = a
          /\ history'.taken = history.taken /\ history'.swaps = history.swaps
          /\ history'.met = history.met
      BY <3>1, <3>2, AgeUpdate
    <3> QED BY <3>1, <3>3 DEF a
  <2>3. Types'
    BY <1>1, <1>9, <2>1, <2>2 DEF Tick, Types
  <2>4. SwapIsDue' /\ InPlace' /\ Bounds'
    BY <1>1, <1>9, <2>2 DEF Tick, SwapIsDue, InPlace, Bounds, MidSwap
  <2>5. PerTick * history.age + tick <= PerTick * (history.age + 1)
    <3>1. PerTick * (history.age + 1) = PerTick * history.age + PerTick
      BY <2>2, SMT
    <3>2. PerTick * history.age \in Nat
      BY <2>2, SMT
    <3> QED BY <2>1, <3>1, <3>2
  <2>6. TimeIsLeft'
    <3>1. Len(recordsAccumulator) \in Nat
      BY <1>1 DEF Types
    <3>2. PerTick * history.age \in Nat /\ PerTick * (history.age + 1) \in Nat
      BY <2>2, SMT
    <3>3. CASE records = <<>>
      BY <1>1, <1>9, <2>2, <3>3 DEF Tick, TimeIsLeft
    <3>4. CASE records # <<>>
      <4>1. /\ history.age + sleep <= Idle /\ history.age \in 0..Idle
            /\ Len(recordsAccumulator) < PerTick * history.age + tick
        BY <1>1, <1>9, <3>4 DEF Tick, TimeIsLeft
      <4>2. Len(recordsAccumulator) < PerTick * (history.age + 1) + 0
        BY <2>1, <2>5, <3>1, <3>2, <4>1, SMTT(30)
      <4>3. history.age + 1 \in 0..Idle /\ history.age + 1 + sleep' <= Idle
        BY <1>9, <2>1, <2>2, <4>1, SMTT(30) DEF Tick
      <4> QED BY <1>9, <2>1, <2>2, <3>4, <4>2, <4>3 DEF Tick, TimeIsLeft
    <3> QED BY <3>3, <3>4
  <2> QED BY <2>3, <2>4, <2>6 DEF WindowInv
<1>10. CASE UNCHANGED vars
  BY <1>1, <1>10 DEF vars, WindowInv, Types, SwapIsDue, TimeIsLeft, Bounds, InPlace, MidSwap
<1> QED
  BY <1>2, <1>3, <1>4, <1>5, <1>6, <1>7, <1>8, <1>9, <1>10, <1>11 DEF Next

\* The invariant behind the theorems holds in every behaviour.
LEMMA Invariant == Spec => []WindowInv
  BY WindowInvInit, WindowInvStep, PTL DEF Spec

\* Whatever the window size, the rate and the sleeps, a clear without the lock may fall
\* into a swap under it, before, between and behind its writes (mags_calculator.cpp:30 and
\* :54): with the writes in the order of the source the vector keeps its bounds, and with
\* the other order it loses them only by a test between the two, until the next swap.
THEOREM ClearIsSafe == Spec => []NeverTorn
<1>1. WindowInv => NeverTorn
  BY DEF WindowInv, Bounds, NeverTorn
<1> QED BY <1>1, Invariant, PTL

\* Then every record is in its window, in the order of the board: none is lost,
\* repeated or given to two windows.
THEOREM RecordsKeepTheirPlaces == Spec => []WindowsInOrder
<1>1. WindowInv => WindowsInOrder
  <2> SUFFICES ASSUME WindowInv PROVE WindowsInOrder
    OBVIOUS
  <2> DEFINE r == records  a == recordsAccumulator
             n == history.came - history.taken
             s == [i \in 1..n |-> history.taken + i]
  <2>1. /\ r \in Seq(Nat) /\ a \in Seq(Nat) /\ Len(r) \in Nat /\ Len(a) \in Nat
        /\ history.taken \in Nat /\ history.came \in Nat
    BY DEF WindowInv, Types, Histories
  <2>2. n = Len(r) + Len(a) /\ n \in Nat
    <3>1. history.came = history.taken + Len(r) + Len(a)
      BY DEF WindowInv, InPlace
    <3> QED BY <2>1, <3>1, Counting
  <2>3. /\ r \o a \in Seq(Nat) /\ Len(r \o a) = n
        /\ \A i \in 1..n : (r \o a)[i] = IF i <= Len(r) THEN r[i] ELSE a[i - Len(r)]
    BY <2>1, <2>2, ConcatProperties
  <2>4. s \in Seq(Nat) /\ Len(s) = n /\ \A i \in 1..n : s[i] = history.taken + i
    <3> HIDE DEF n
    <3>1. s \in [1..n -> Nat]
      BY <2>1, <2>2
    <3> QED BY <2>2, <3>1
  <2>5. ASSUME NEW i \in 1..n PROVE (r \o a)[i] = s[i]
    <3>1. CASE i <= Len(r)
      BY <2>1, <2>2, <2>3, <2>4, <3>1 DEF WindowInv, InPlace
    <3>2. CASE ~(i <= Len(r))
      <4>1. i - Len(r) \in 1..Len(a)
        BY <2>1, <2>2, <3>2
      <4>2. a[i - Len(r)] = history.taken + Len(r) + (i - Len(r))
        BY <4>1 DEF WindowInv, InPlace
      <4>3. history.taken + Len(r) + (i - Len(r)) = history.taken + i
        BY <2>1, <2>2
      <4> QED BY <2>3, <2>4, <3>2, <4>2, <4>3
    <3> QED BY <3>1, <3>2
  <2>6. r \o a = s
    BY <2>3, <2>4, <2>5, SeqEqual
  <2>7. Len(records) \in {0, Window} /\ Len(recordsAccumulator) <= Window
    BY <2>1 DEF WindowInv, Types, SwapIsDue, InPlace, MainPcs
  <2> QED BY <2>6, <2>7 DEF WindowsInOrder
<1> QED BY <1>1, Invariant, PTL

\* And a full window waits no longer than the longest sleep.
THEOREM WindowIsPrompt == Spec => []WindowTakenInTime
<1>1. WindowInv => WindowTakenInTime
  BY DEF WindowInv, TimeIsLeft, WindowTakenInTime
<1> QED BY <1>1, Invariant, PTL

-----------------------------------------------------------------------------
\* Every record, window and swap is of one that came: a swap needs a record of its own.
WindowTypes ==
  /\ TypeOK
  /\ history.swaps + (IF main = "idle" THEN 0 ELSE 1) <= history.came

Bounded ==
  [came: 0..MaxRecords, taken: 0..MaxRecords, swaps: 0..MaxRecords, age: Nat, met: BOOLEAN]

LEMMA WindowTypesInit == Init => WindowTypes
<1> SUFFICES ASSUME Init PROVE WindowTypes
  OBVIOUS
<1>1. history \in Bounded /\ history.swaps = 0 /\ history.came = 0 /\ main = "idle"
  BY DEF Init, Bounded
<1>2. recordsAccumulator \in Seq(1..MaxRecords) /\ records \in Seq(1..MaxRecords)
  BY EmptySeq DEF Init
<1>3. main \in MainPcs /\ calc \in CalcPcs
  BY DEF Init, CalcPcs, MainPcs
<1>4. sleep = 0 /\ start = 0 /\ finish = 0 /\ begin = 0 /\ tick = 0
  BY DEF Init
<1>5. /\ sleep \in 0..Idle /\ tick \in 0..PerTick
      /\ start \in 0..MaxRecords /\ finish \in 0..MaxRecords /\ begin \in 0..MaxRecords
  BY <1>4, MagsWindowAssumption DEF MagsWindowAssumption
<1>6. history.swaps + (IF main = "idle" THEN 0 ELSE 1) <= history.came
  BY <1>1
<1>7. TypeOK
  BY <1>1, <1>2, <1>3, <1>5 DEF TypeOK, Bounded
<1> QED BY <1>6, <1>7 DEF WindowTypes

\* What the history holds after a step.
LEMMA HistoryTyped ==
  ASSUME WindowInv, WindowInv', WindowTypes, Next
  PROVE  /\ history' \in Bounded
         /\ history'.swaps + (IF main' = "idle" THEN 0 ELSE 1) <= history'.came
<1>1. /\ history \in Bounded /\ history \in Histories /\ history' \in Histories
      /\ history.swaps + (IF main = "idle" THEN 0 ELSE 1) <= history.came
  BY DEF WindowTypes, TypeOK, Bounded, WindowInv, Types
<1>2. history'.taken <= history'.came
  <2>1. PICK r, a \in Nat : history'.came = history'.taken + r + a
    <3>1. records' \in Seq(Nat) /\ recordsAccumulator' \in Seq(Nat)
      BY DEF WindowInv, Types
    <3>2. Len(records') \in Nat /\ Len(recordsAccumulator') \in Nat
      BY <3>1, LenProperties
    <3> QED BY <3>2 DEF WindowInv, InPlace
  <2> QED BY <1>1, <2>1 DEF Histories
<1>3. /\ history'.came <= MaxRecords
      /\ history'.swaps + (IF main' = "idle" THEN 0 ELSE 1) <= history'.came
  <2>1. CASE PushBack
    <3>1. PICK n \in Nat : n = history.came + 1
      BY <1>1 DEF Histories
    <3>2. history' = [history EXCEPT !.came = n] /\ main = "idle" /\ history.came < MaxRecords
      BY <2>1, <3>1 DEF PushBack
    <3>3. history'.came = n /\ history'.swaps = history.swaps
      BY <1>1, <3>2 DEF Histories
    <3> QED BY <1>1, <3>1, <3>2, <3>3 DEF Histories
  <2>2. CASE SwapEnds
    <3>1. PICK w \in Nat : w = history.swaps + 1
      BY <1>1 DEF Histories
    <3>2. history' = [history EXCEPT !.swaps = w, !.age = 0]
      BY <2>2, <3>1 DEF SwapEnds
    <3>3. history \in Histories
      BY <1>1
    <3>4. history'.swaps = w /\ history'.came = history.came
      BY <3>1, <3>2, <3>3, SwapUpdate, Zenon
    <3>5. main # "idle" /\ main' = "idle"
      BY <2>2 DEF SwapEnds, MidSwap
    <3> QED BY <1>1, <3>1, <3>4, <3>5 DEF Bounded, Histories
  <2>3. CASE ClearBegins \/ Returns \/ Wakes
    <3>1. UNCHANGED <<history, main>>
      BY <2>3 DEF ClearBegins, Returns, Wakes
    <3> QED BY <1>1, <3>1 DEF Bounded
  <2>4. CASE ClearEnds \/ Tick
    <3>1. UNCHANGED main /\ history'.came = history.came /\ history'.swaps = history.swaps
      BY <1>1, <2>4 DEF ClearEnds, Tick, Histories
    <3> QED BY <1>1, <3>1 DEF Bounded
  <2>5. CASE FindsWindow \/ SwapBegins
    <3>1. PICK b : history' = [history EXCEPT !.met = b]
      BY <2>5, Zenon DEF FindsWindow, SwapBegins
    <3>2. history'.came = history.came /\ history'.swaps = history.swaps
      BY <1>1, <3>1 DEF Histories
    <3>3. main' = "idle" <=> main = "idle"
      BY <2>5 DEF FindsWindow, SwapBegins
    <3> QED BY <1>1, <3>2, <3>3 DEF Bounded
  <2> QED BY <2>1, <2>2, <2>3, <2>4, <2>5 DEF Next
<1>4. history'.swaps <= MaxRecords /\ history'.taken <= MaxRecords
  BY <1>1, <1>2, <1>3 DEF Histories
<1> QED BY <1>1, <1>3, <1>4 DEF Histories, Bounded

LEMMA WindowTypesStep == WindowInv /\ WindowInv' /\ WindowTypes /\ [Next]_vars => WindowTypes'
<1> SUFFICES ASSUME WindowInv, WindowInv', WindowTypes, [Next]_vars PROVE WindowTypes'
  OBVIOUS
<1>1. CASE UNCHANGED vars
  BY <1>1 DEF vars, WindowTypes, TypeOK
<1>2. CASE Next
  <2>1. /\ history' \in Bounded
        /\ history'.swaps + (IF main' = "idle" THEN 0 ELSE 1) <= history'.came
    BY <1>2, HistoryTyped
  <2>2. /\ main' \in MainPcs /\ calc' \in CalcPcs
        /\ sleep' \in 0..Idle /\ tick' \in 0..PerTick
    BY DEF WindowInv, Types
  <2>3. /\ recordsAccumulator \in Seq(1..MaxRecords) /\ records \in Seq(1..MaxRecords)
        /\ start \in 0..MaxRecords /\ finish \in 0..MaxRecords /\ begin \in 0..MaxRecords
        /\ history \in Bounded
        /\ main # "idle" => history.swaps + 1 <= history.came
    BY DEF WindowTypes, TypeOK, Bounded
  <2>4. start' \in 0..MaxRecords /\ finish' \in 0..MaxRecords /\ begin' \in 0..MaxRecords
    <3>1. \/ start' \in {start, begin} /\ finish' \in {finish, begin} /\ begin' \in {begin, start}
          \/ /\ main # "idle" /\ begin' = begin
             /\ start' \in {start, history.swaps + 1} /\ finish' \in {finish, history.swaps + 1}
      BY <1>2 DEF Next, PushBack, SwapBegins, SwapEnds, FindsWindow, ClearBegins, ClearEnds,
                  Returns, Wakes, Tick, MidSwap
    <3>2. main # "idle" => history.swaps + 1 \in 0..MaxRecords
      BY <2>3 DEF Bounded
    <3> QED BY <2>3, <3>1, <3>2
  <2>5. recordsAccumulator' \in Seq(1..MaxRecords) /\ records' \in Seq(1..MaxRecords)
    <3>1. CASE PushBack
      <4>1. PICK n : n = history'.came
        OBVIOUS
      <4>2. n \in 1..MaxRecords
        <5>1. history' = [history EXCEPT !.came = history.came + 1] /\ history \in Histories
          BY <3>1 DEF PushBack, WindowInv, Types
        <5>2. history'.came = history.came + 1 /\ history.came \in Nat
          BY <5>1 DEF Histories
        <5>3. history'.came \in 0..MaxRecords
          BY <2>1 DEF Bounded
        <5> QED BY <4>1, <5>2, <5>3
      <4>3. recordsAccumulator' = Append(recordsAccumulator, n) /\ records' = records
        BY <3>1, <4>1 DEF PushBack
      <4> QED BY <2>3, <4>2, <4>3, AppendProperties
    <3>2. CASE ~PushBack
      <4>1. /\ recordsAccumulator' \in {recordsAccumulator, records}
            /\ records' \in {recordsAccumulator, records, <<>>}
        BY <1>2, <3>2 DEF Next, SwapBegins, SwapEnds, FindsWindow, ClearBegins, ClearEnds,
                          Returns, Wakes, Tick
      <4>2. <<>> \in Seq(1..MaxRecords)
        BY EmptySeq
      <4> QED BY <2>3, <4>1, <4>2
    <3> QED BY <3>1, <3>2
  <2> QED BY <2>1, <2>2, <2>4, <2>5 DEF WindowTypes, TypeOK, Bounded
<1> QED BY <1>1, <1>2

\* MagsCalculator: the vectors hold records that came and nothing else, and the threads stay
\* within a turn and a handler.
THEOREM TypeCorrect == Spec => []TypeOK
<1>1. WindowTypes => TypeOK
  BY DEF WindowTypes
<1> QED BY <1>1, WindowTypesInit, WindowTypesStep, Invariant, PTL DEF Spec

-----------------------------------------------------------------------------
Ages == [mags: Nat, restart: 0..Second]
Counters == [counter: BOOLEAN, count: BOOLEAN, restarting: BOOLEAN]

StatusInv ==
  /\ ages \in Ages /\ counter \in Counters
  /\ counter.restarting => ages.restart = 0
  /\ detected /\ counter.counter =>
       ages.mags < Second + (IF counter.restarting THEN Second ELSE ages.restart)
  /\ detected /\ counter.count => ages.mags < 2 * Second + ages.restart

USE MagsBoardAssumption

\* Each step of the board is one of the windows, or leaves them alone.
LEMMA BoardStep ==
  ASSUME [BoardNext]_allVars
  PROVE [Next]_vars
<1>1. CASE Receive
  BY <1>1 DEF Receive, vars
<1>2. CASE Detect
  BY <1>2 DEF Detect, vars
<1>3. CASE HandOver
  BY <1>3 DEF HandOver, Next
<1>4. CASE Others
  BY <1>4 DEF Others, Next
<1>5. CASE Restart
  BY <1>5 DEF Restart, vars
<1>6. CASE RestartEnds
  BY <1>6 DEF RestartEnds, vars
<1>7. CASE BoardTick
  BY <1>7 DEF BoardTick, Next
<1>8. CASE UNCHANGED allVars
  BY <1>8 DEF allVars
<1> QED BY <1>1, <1>2, <1>3, <1>4, <1>5, <1>6, <1>7, <1>8 DEF BoardNext

LEMMA StatusInit ==
  ASSUME BoardInit
  PROVE StatusInv
  BY DEF BoardInit, StatusInv, Ages, Counters, OldAge

\* The detection is renewed with the counter.
LEMMA DetectKeepsStatus ==
  ASSUME StatusInv, Detect
  PROVE StatusInv'
<1>1. ages' \in Ages /\ ages'.restart = ages.restart
  BY DEF Detect, StatusInv, Ages
<1>2. /\ counter' \in Counters /\ counter'.count = counter.count
      /\ counter'.restarting = counter.restarting
  BY DEF Detect, StatusInv, Counters
<1>3. detected' => ages'.mags < Second
  BY DEF Detect
<1>4. ages'.mags \in Nat /\ ages'.restart \in Nat
  BY <1>1 DEF Ages
<1>5. detected' /\ counter'.counter =>
        ages'.mags < Second + (IF counter'.restarting THEN Second ELSE ages'.restart)
  BY <1>3, <1>4
<1>6. detected' /\ counter'.count => ages'.mags < 2 * Second + ages'.restart
  BY <1>3, <1>4
<1>7. counter'.restarting => ages'.restart = 0
  BY <1>1, <1>2 DEF StatusInv
<1> QED BY <1>1, <1>2, <1>5, <1>6, <1>7 DEF StatusInv

\* What counted in the second that ends is shown in the next.
LEMMA RestartKeepsStatus ==
  ASSUME StatusInv, Restart
  PROVE StatusInv'
<1>1. ages' = [mags |-> ages.mags, restart |-> 0] /\ ages.restart = Second
  BY DEF Restart, StatusInv, Ages
<1>2. counter' = [counter |-> counter.counter, count |-> counter.counter, restarting |-> TRUE]
  BY DEF Restart, StatusInv, Counters
<1>3. detected' = detected /\ ~counter.restarting
  BY DEF Restart
<1>4. detected /\ counter.counter => ages.mags < 2 * Second
  BY <1>1, <1>3 DEF StatusInv
<1> QED BY <1>1, <1>2, <1>3, <1>4 DEF StatusInv, Ages, Counters

LEMMA RestartEndsKeepsStatus ==
  ASSUME StatusInv, RestartEnds
  PROVE StatusInv'
<1>1. counter' = [counter |-> FALSE, count |-> counter.count, restarting |-> FALSE]
  BY DEF RestartEnds, StatusInv, Counters
<1> QED BY <1>1 DEF RestartEnds, StatusInv, Counters

\* Both bounds move with the clock.
LEMMA TickKeepsStatus ==
  ASSUME StatusInv, BoardTick
  PROVE StatusInv'
<1>1. ages' = [mags |-> IF ages.mags < OldAge THEN ages.mags + 1 ELSE OldAge,
               restart |-> ages.restart + 1]
  BY DEF BoardTick
<1>2. ages.restart + 1 \in 0..Second /\ ages.mags \in Nat /\ ages.restart \in 0..Second
  BY DEF BoardTick, StatusInv, Ages
<1>3. ages' \in Ages
  BY <1>1, <1>2 DEF Ages, OldAge
<1>4. ages.mags < 2 * Second + ages.restart => ages'.mags < 2 * Second + ages'.restart
  BY <1>1, <1>2 DEF OldAge
<1>5. ages.mags < Second + ages.restart => ages'.mags < Second + ages'.restart
  BY <1>1, <1>2 DEF OldAge
<1>6. detected' = detected /\ counter' = counter /\ ~counter.restarting
  BY DEF BoardTick
<1> QED BY <1>3, <1>4, <1>5, <1>6 DEF StatusInv

LEMMA StatusStep ==
  ASSUME StatusInv, [BoardNext]_allVars
  PROVE StatusInv'
<1>1. CASE Receive
  BY <1>1 DEF Receive, StatusInv
<1>2. CASE Detect
  BY <1>2, DetectKeepsStatus
<1>3. CASE HandOver
  BY <1>3 DEF HandOver, StatusInv
<1>4. CASE Others
  BY <1>4 DEF Others, boardVars, StatusInv
<1>5. CASE Restart
  BY <1>5, RestartKeepsStatus
<1>6. CASE RestartEnds
  BY <1>6, RestartEndsKeepsStatus
<1>7. CASE BoardTick
  BY <1>7, TickKeepsStatus
<1>8. CASE UNCHANGED allVars
  BY <1>8 DEF allVars, boardVars, StatusInv
<1> QED BY <1>1, <1>2, <1>3, <1>4, <1>5, <1>6, <1>7, <1>8 DEF BoardNext

\* MagsLogger::onNmeaSentenceReceived and loop: for every length of a second, a board
\* shown online with its magnetometers detected has heard them within three.
THEOREM StatusIsAboutThreeSeconds == BoardSpec => []StatusIsRecent
<1>1. BoardInit => StatusInv
  BY StatusInit
<1>2. StatusInv /\ [BoardNext]_allVars => StatusInv'
  BY StatusStep
<1>3. StatusInv => StatusIsRecent
  BY DEF StatusInv, StatusIsRecent, Ages
<1> QED BY <1>1, <1>2, <1>3, PTL DEF BoardSpec

\* The handler hands its records over by the calculator's steps, at some of the times they
\* may come.
LEMMA BoardImplementsWindow == BoardSpec => Spec
<1>1. BoardInit => Init
  BY DEF BoardInit
<1>2. [BoardNext]_allVars => [Next]_vars
  BY BoardStep
<1> QED BY <1>1, <1>2, PTL DEF BoardSpec, Spec

\* So the calculator's theorems hold behind the handler.
COROLLARY WindowsHoldBehindTheBoard ==
  BoardSpec => [](NeverTorn /\ WindowsInOrder /\ WindowTakenInTime /\ TypeOK)
  BY BoardImplementsWindow, ClearIsSafe, RecordsKeepTheirPlaces, WindowIsPrompt, TypeCorrect, PTL

-----------------------------------------------------------------------------
\* What the handler reads of a sentence.
Handlers == [at: {"none", "count", "push", "null"}, time: Taken, axes: [Axes -> Taken]]
LineCounts == [damage: 0..MaxDamage, silent: 0..MaxSilent, ended: BOOLEAN, whole: BOOLEAN]

LEMMA FieldTyped ==
  ASSUME NEW parts \in Seq(Part), NEW i \in Nat \ {0}, NEW d \in Taken
  PROVE  Field(parts, i, d) \in Taken
<1>1. CASE i <= Len(parts) /\ parts[i].part \in Numbers
  <2>1. i \in 1..Len(parts)
    BY <1>1, LenProperties
  <2>2. parts[i] \in Part
    BY <2>1, ElementOfSeq
  <2>3. parts[i] \in Readings
    BY <1>1, <2>2 DEF Part, Readings
  <2> QED BY <1>1, <2>3 DEF Field, Taken
<1>2. CASE ~(i <= Len(parts) /\ parts[i].part \in Numbers)
  BY <1>2 DEF Field
<1> QED BY <1>1, <1>2

LEMMA ReadTyped ==
  ASSUME NEW parts \in Seq(Part), NEW h \in Handled(parts)
  PROVE  h \in Handlers
<1>1. None \in Taken
  BY DEF Taken
<1>2. PICK t \in Taken : t = Field(parts, 1, None)
  BY <1>1, FieldTyped
<1>3. ASSUME NEW a \in Axes PROVE Axis(parts, a) \in Taken
  <2>1. PICK d : d = IF a <= 3 THEN None ELSE Field(parts, a - 2, None)
    OBVIOUS
  <2>2. d \in Taken
    <3>1. a <= 3 \/ a - 2 \in Nat \ {0}
      BY DEF Axes
    <3> QED BY <1>1, <2>1, <3>1, FieldTyped
  <2>3. a + 1 \in Nat \ {0}
    BY DEF Axes
  <2>4. Axis(parts, a) = Field(parts, a + 1, d)
    BY <2>1 DEF Axis
  <2> QED BY <2>2, <2>3, <2>4, FieldTyped
<1>4. PICK x \in [Axes -> Taken] : x = [a \in Axes |-> Axis(parts, a)]
  BY <1>3
<1>5. Read(parts) = [at |-> "count", time |-> t, axes |-> x]
  BY <1>2, <1>4, Zenon DEF Read
<1>6. h = Read(parts) \/ h = [Read(parts) EXCEPT !.at = "null"]
  BY DEF Handled
<1>7. h = [at |-> "count", time |-> t, axes |-> x] \/ h = [at |-> "null", time |-> t, axes |-> x]
  BY <1>5, <1>6
<1> QED BY <1>2, <1>4, <1>7 DEF Handlers

\* A sentence from the line leaves the reader with a sequence of parts.
LEMMA ReceiveTyped ==
  ASSUME ReaderInv, BoardTypeOK, Receive
  PROVE  /\ reader' \in [on: BOOLEAN, parts: Seq(Part)]
         /\ handler' \in Handlers /\ line' \in LineCounts
<1>1. PICK mags \in BOOLEAN : \E s \in OnTheLine(mags) :
        LET before == [reader EXCEPT !.parts =
                         [i \in DOMAIN @ |-> [@[i] EXCEPT !.new = FALSE]]]
            after == FoldLeft(ReceivePart, before, s.parts)
            ends == Last(s.parts).part = "end"
        IN /\ line.damage + (IF s.damaged THEN 1 ELSE 0) <= MaxDamage
           /\ line.silent + (IF mags THEN 0 ELSE 1) <= MaxSilent
           /\ line' = [damage |-> line.damage + (IF s.damaged THEN 1 ELSE 0),
                       silent |-> line.silent + (IF mags THEN 0 ELSE 1),
                       ended |-> ends, whole |-> line.ended /\ ~s.damaged /\ mags]
           /\ IF ends /\ (reader.on \/ s.parts[1].part = "M")
              THEN handler' \in Handled(after.parts) /\ reader' = Emptied(after)
              ELSE reader' = after /\ UNCHANGED handler
  BY DEF Receive
<1>2. PICK s \in OnTheLine(mags) :
        LET before == [reader EXCEPT !.parts =
                         [i \in DOMAIN @ |-> [@[i] EXCEPT !.new = FALSE]]]
            after == FoldLeft(ReceivePart, before, s.parts)
            ends == Last(s.parts).part = "end"
        IN /\ line.damage + (IF s.damaged THEN 1 ELSE 0) <= MaxDamage
           /\ line.silent + (IF mags THEN 0 ELSE 1) <= MaxSilent
           /\ line' = [damage |-> line.damage + (IF s.damaged THEN 1 ELSE 0),
                       silent |-> line.silent + (IF mags THEN 0 ELSE 1),
                       ended |-> ends, whole |-> line.ended /\ ~s.damaged /\ mags]
           /\ IF ends /\ (reader.on \/ s.parts[1].part = "M")
              THEN handler' \in Handled(after.parts) /\ reader' = Emptied(after)
              ELSE reader' = after /\ UNCHANGED handler
  BY <1>1
<1> DEFINE before == [reader EXCEPT !.parts =
                        [i \in DOMAIN @ |-> [@[i] EXCEPT !.new = FALSE]]]
           after == FoldLeft(ReceivePart, before, s.parts)
<1>3. IsReader(before)
  BY BeforeIs DEF ReaderInv
<1>4. s.parts \in Seq(Part) /\ s.parts # <<>>
  BY LineIs
<1>5. \/ handler' \in Handled(after.parts) /\ reader' = Emptied(after)
      \/ reader' = after /\ UNCHANGED handler
  BY <1>2
<1> HIDE DEF before
<1>6. IsReader(after)
  BY <1>3, <1>4, EndTurnsOff
<1> HIDE DEF after
<1>7. after \in [on: BOOLEAN, parts: Seq(Part)] /\ after.parts \in Seq(Part)
  BY <1>6 DEF IsReader
<1>8. Emptied(after) \in [on: BOOLEAN, parts: Seq(Part)]
  <2>1. Emptied(after) = [on |-> after.on, parts |-> <<>>]
    BY <1>7 DEF Emptied
  <2> QED BY <1>7, <2>1
<1>9. handler \in Handlers
  BY DEF BoardTypeOK, Handlers
<1>10. line' \in LineCounts
  <2>1. PICK e \in BOOLEAN : e = (Last(s.parts).part = "end")
    OBVIOUS
  <2>2. PICK b \in BOOLEAN : b = (line.ended /\ ~s.damaged /\ mags)
    OBVIOUS
  <2>3. PICK d : d = line.damage + (IF s.damaged THEN 1 ELSE 0)
    OBVIOUS
  <2>4. PICK n : n = line.silent + (IF mags THEN 0 ELSE 1)
    OBVIOUS
  <2>5. line' = [damage |-> d, silent |-> n, ended |-> e, whole |-> b] /\ d <= MaxDamage /\ n <= MaxSilent
    BY <1>2, <2>1, <2>2, <2>3, <2>4, Zenon
  <2>6. d \in Nat /\ n \in Nat
    BY <2>3, <2>4 DEF BoardTypeOK
  <2> QED BY <2>5, <2>6 DEF LineCounts
<1> QED BY <1>5, <1>7, <1>8, <1>9, <1>10, ReadTyped

\* The record is read until it is handed over.
LEMMA HandlerTyped ==
  ASSUME NEW h \in Handlers
  PROVE  [h EXCEPT !.at = "push"] \in Handlers /\ Outside \in Handlers
  BY DEF Handlers, Outside, Taken

LEMMA BoardTypesInit == BoardInit => BoardTypeOK
<1> SUFFICES ASSUME BoardInit PROVE BoardTypeOK
  OBVIOUS
<1>1. <<>> \in Seq(Part) /\ None \in Taken
  BY EmptySeq DEF Taken
<1>2. reader \in [on: BOOLEAN, parts: Seq(Part)] /\ handler \in Handlers
  BY <1>1 DEF BoardInit, Handlers, Outside
<1>3. detected \in BOOLEAN /\ counter \in Counters
  BY DEF BoardInit, Counters
<1>4. ages \in [mags: 0..OldAge, restart: 0..Second]
  BY DEF BoardInit, OldAge
<1>5. line \in LineCounts
  BY DEF BoardInit, LineCounts
<1> QED BY <1>2, <1>3, <1>4, <1>5 DEF BoardTypeOK, Handlers, Counters, LineCounts

LEMMA BoardTypesStep ==
  ASSUME ReaderInv, StatusInv', BoardTypeOK, [BoardNext]_allVars
  PROVE  BoardTypeOK'
<1>1. /\ reader \in [on: BOOLEAN, parts: Seq(Part)] /\ handler \in Handlers
      /\ detected \in BOOLEAN /\ line \in LineCounts
      /\ ages \in [mags: 0..OldAge, restart: 0..Second]
  BY DEF BoardTypeOK, Handlers, LineCounts
<1>2. counter' \in [counter: BOOLEAN, count: BOOLEAN, restarting: BOOLEAN] /\ ages' \in Ages
  BY DEF StatusInv, Counters
<1>3. OldAge \in Nat
  BY DEF OldAge
<1>4. CASE UNCHANGED boardVars
  BY <1>4 DEF boardVars, BoardTypeOK
<1>5. CASE Receive
  <2>1. UNCHANGED <<detected, ages>>
    BY <1>5 DEF Receive
  <2> QED BY <1>1, <1>2, <1>5, <2>1, ReceiveTyped DEF BoardTypeOK, Handlers, LineCounts
<1>6. CASE Detect
  <2>1. handler' \in Handlers
    <3>1. handler' = [handler EXCEPT !.at = "push"] \/ handler' = Outside
      BY <1>6 DEF Detect
    <3> QED BY <1>1, <3>1, HandlerTyped
  <2>2. detected' \in BOOLEAN /\ UNCHANGED <<reader, line>>
    BY <1>6 DEF Detect
  <2>3. ages' \in [mags: 0..OldAge, restart: 0..Second]
    <3>1. PICK m \in 0..OldAge : ages' = [ages EXCEPT !.mags = m]
      <4>1. ages.mags \in 0..OldAge /\ 0 \in 0..OldAge
        BY <1>1, <1>3
      <4> QED BY <1>6, <4>1 DEF Detect
    <3> QED BY <1>1, <3>1
  <2> QED BY <1>1, <1>2, <2>1, <2>2, <2>3 DEF BoardTypeOK, Handlers, LineCounts
<1>7. CASE HandOver
  <2>1. handler' \in Handlers
    BY <1>1, <1>7, HandlerTyped DEF HandOver
  <2>2. UNCHANGED <<reader, detected, ages, line>>
    BY <1>7 DEF HandOver
  <2> QED BY <1>1, <1>2, <2>1, <2>2 DEF BoardTypeOK, Handlers, LineCounts
<1>8. CASE Restart \/ RestartEnds
  <2>1. UNCHANGED <<reader, handler, detected, line>>
    BY <1>8 DEF Restart, RestartEnds
  <2>2. ages' \in [mags: 0..OldAge, restart: 0..Second]
    BY <1>1, <1>8 DEF Restart, RestartEnds
  <2> QED BY <1>1, <1>2, <2>1, <2>2 DEF BoardTypeOK, Handlers, LineCounts
<1>9. CASE BoardTick
  <2>1. UNCHANGED <<reader, handler, detected, line>>
    BY <1>9 DEF BoardTick
  <2>2. PICK m \in 0..OldAge : m = IF ages.mags < OldAge THEN ages.mags + 1 ELSE OldAge
    BY <1>1, <1>3
  <2>3. ages' = [mags |-> m, restart |-> ages.restart + 1] /\ ages.restart < Second
    BY <1>9, <2>2 DEF BoardTick
  <2>4. ages.restart + 1 \in 0..Second
    BY <1>1, <2>3
  <2>5. ages' \in [mags: 0..OldAge, restart: 0..Second]
    BY <2>2, <2>3, <2>4
  <2> QED BY <1>1, <1>2, <2>1, <2>5 DEF BoardTypeOK, Handlers, LineCounts
<1> QED BY <1>4, <1>5, <1>6, <1>7, <1>8, <1>9 DEF BoardNext, Others, allVars

\* MagsLogger and NmeaSentenceReader: what the board's variables hold. A record is made of
\* numbers or of nothing, whatever text is in a sentence.
THEOREM BoardTypeCorrect == BoardSpec => []BoardTypeOK
<1>1. BoardInit => ReaderInv /\ StatusInv /\ BoardTypeOK
  BY ReaderInit, StatusInit, BoardTypesInit
<1>2. (ReaderInv /\ StatusInv /\ BoardTypeOK) /\ [BoardNext]_allVars
        => (ReaderInv /\ StatusInv /\ BoardTypeOK)'
  BY ReaderStep, StatusStep, BoardTypesStep
<1> QED BY <1>1, <1>2, PTL DEF BoardSpec
=============================================================================
