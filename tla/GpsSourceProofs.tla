-------------------------- MODULE GpsSourceProofs --------------------------
(***************************************************************************)
(* Theorems about GpsSource, for every number of tries, timeout and period, *)
(* any number of requests and of changes by others, and links of any length. *)
(* Two arguments, side by side: a try of the latest request is made or left, *)
(* and what confirms is an answer given since that request.                 *)
(***************************************************************************)
EXTENDS GpsSource, SequenceTheorems, TLAPS

Setters == [value: Values, age: 0..Timeout, left: 0..RepeatCount, confirmed: BOOLEAN]
Tallies == [requests: 0..MaxEvents, changes: 0..MaxEvents, source: Sources,
            cut: BOOLEAN, tries: [Params -> 0..RepeatCount + 1],
            held: [Params -> BOOLEAN], stale: BOOLEAN]

\* A turn of the loop is for a request, and a handler knows the source of its own.
Served ==
  /\ logger # "idle" => requested # "NONE"
  /\ main.pc # "idle" => tally.requests > 0 /\ (~tally.cut => main.source = tally.source)

\* The handler of the latest request has been at the setter of p.
IsArmed(p) == tally.requests > 0 /\ (main.pc = "idle" \/ (p = "AUTO" /\ main.pc = "PRIMARY"))

\* The handler of a request that no turn cut has the setters to itself, and from then on
\* a try is made or left; a request that is over has finished setters.
Exhausting ==
  /\ main.pc # "idle" => logger = "idle" /\ requested # "NONE"
  /\ \A p \in Params :
       IF IsArmed(p) THEN tally.tries[p] + setter[p].left = RepeatCount ELSE tally.tries[p] = 0
  /\ requested = "NONE" \/ logger = "Clear" => SettersFinished

\* An answer given since the request t is about says only what has been held since.
AnswersHeld(q, t) ==
  \A i \in 1..Len(q) :
    ~q[i].old /\ q[i].value = Wanted(q[i].param, t.source) => t.held[q[i].param]

\* So a setter, which asks for the value of the request, is confirmed by what was held.
Confirming ==
  \A p \in Params :
    IsArmed(p) =>
      /\ setter[p].value = Wanted(p, tally.source)
      /\ setter[p].confirmed /\ ~tally.stale => tally.held[p]

Held ==
  /\ \A p \in Params : plane[p] = Wanted(p, tally.source) => tally.held[p]
  /\ AnswersHeld(answers, tally)
  /\ Confirming

SourceInv ==
  /\ TypeOK /\ Served
  /\ Asked => Exhausting /\ Held

USE GpsSourceAssumption
USE DEF Params, Values, Messages

-----------------------------------------------------------------------------
\* The link holds answers, or one more.
LEMMA AnsweringType ==
  ASSUME NEW q \in Seq(Messages), Len(q) <= MaxAnswers, NEW p \in Params,
         NEW v \in [Params -> Values], NEW r \in Answering(q, p, v)
  PROVE  /\ r \in Seq(Messages) /\ Len(r) <= MaxAnswers
         /\ r = q \/ r = Append(q, Answer(p, v))
<1>1. Answer(p, v) \in Messages
  BY DEF Answer
<1>2. r = q \/ (Len(q) < MaxAnswers /\ r = Append(q, Answer(p, v)))
  BY DEF Answering
<1>3. CASE Len(q) < MaxAnswers /\ r = Append(q, Answer(p, v))
  BY <1>1, <1>3
<1> QED
  BY <1>2, <1>3

\* An answer given now says what is held now.
LEMMA AnsweringHeld ==
  ASSUME NEW q \in Seq(Messages), Len(q) <= MaxAnswers, NEW p \in Params,
         NEW v \in [Params -> Values], NEW r \in Answering(q, p, v),
         NEW t, AnswersHeld(q, t), v[p] = Wanted(p, t.source) => t.held[p]
  PROVE  AnswersHeld(r, t)
<1>1. CASE r = q
  BY <1>1
<1>2. CASE r = Append(q, Answer(p, v))
  <2>1. Answer(p, v) \in Messages /\ Answer(p, v).param = p /\ Answer(p, v).value = v[p]
    BY DEF Answer
  <2> SUFFICES ASSUME NEW i \in 1..Len(r), ~r[i].old, r[i].value = Wanted(r[i].param, t.source)
               PROVE t.held[r[i].param]
    BY DEF AnswersHeld
  <2>2. CASE i \in 1..Len(q)
    <3>1. r[i] = q[i]
      BY <1>2, <2>1, <2>2
    <3> QED
      BY <2>2, <3>1 DEF AnswersHeld
  <2>3. CASE i = Len(q) + 1
    <3>1. r[i] = Answer(p, v)
      BY <1>2, <2>1, <2>3
    <3> QED
      BY <2>1, <3>1
  <2>4. Len(r) = Len(q) + 1 /\ Len(q) \in Nat
    BY <1>2, <2>1
  <2> QED
    BY <2>2, <2>3, <2>4
<1> QED
  BY <1>1, <1>2, AnsweringType

\* What was held stays so for the same request.
LEMMA HeldGrows ==
  ASSUME NEW q \in Seq(Messages), NEW t, NEW u, AnswersHeld(q, t), u.source = t.source,
         \A p \in Params : t.held[p] => u.held[p]
  PROVE  AnswersHeld(q, u)
<1>1. \A i \in 1..Len(q) : q[i] \in Messages
  BY ElementOfSeq
<1> QED
  BY <1>1 DEF AnswersHeld

\* doNow keeps the types, counts a try, and what the autopilot was told is held.
LEMMA DoNow ==
  ASSUME TypeOK, NEW p \in Params, NEW v \in Values, Told(p, v), tally' = Tallied(tally, p)
  PROVE  /\ plane' \in [Params -> Values] /\ answers' \in Seq(Messages) /\ Len(answers') <= MaxAnswers
         /\ tally' \in Tallies
         /\ UNCHANGED <<tally.requests, tally.source, tally.cut, tally.stale>>
         /\ ~tally.cut /\ tally.tries[p] < RepeatCount => tally'.tries = [tally.tries EXCEPT ![p] = @ + 1]
         /\ ~tally.cut /\ (\A x \in Params : plane[x] = Wanted(x, tally.source) => tally.held[x]) =>
              \A x \in Params : /\ tally.held[x] => tally'.held[x]
                                /\ plane'[x] = Wanted(x, tally'.source) => tally'.held[x]
<1> USE DEF TypeOK
<1>1. plane' \in [Params -> Values] /\ \A x \in Params \ {p} : plane'[x] = plane[x]
  BY SMTT(30) DEF Told
<1>2. answers' \in Seq(Messages) /\ Len(answers') <= MaxAnswers
  BY <1>1, AnsweringType, SMTT(30) DEF Told
<1> DEFINE n == IF tally.tries[p] <= RepeatCount THEN tally.tries[p] + 1 ELSE tally.tries[p]
           h == tally.held[p] \/ plane'[p] = Wanted(p, tally.source)
<1> SUFFICES ASSUME ~tally.cut
             PROVE  /\ tally' \in Tallies
                    /\ UNCHANGED <<tally.requests, tally.source, tally.cut, tally.stale>>
                    /\ tally.tries[p] < RepeatCount => tally'.tries = [tally.tries EXCEPT ![p] = @ + 1]
                    /\ (\A x \in Params : plane[x] = Wanted(x, tally.source) => tally.held[x]) =>
                         \A x \in Params : /\ tally.held[x] => tally'.held[x]
                                           /\ plane'[x] = Wanted(x, tally'.source) => tally'.held[x]
  <2>1. tally.cut => tally' = tally
    BY DEF Tallied
  <2>2. tally \in Tallies
    BY DEF Tallies
  <2> QED
    BY <1>1, <1>2, <2>1, <2>2
<1>3. tally' = [tally EXCEPT !.tries = [@ EXCEPT ![p] = n], !.held = [@ EXCEPT ![p] = h]]
  BY DEF Tallied
<1>4. n \in 0..RepeatCount + 1 /\ (tally.tries[p] < RepeatCount => n = tally.tries[p] + 1)
  BY SMTT(30)
<1>5. h \in BOOLEAN /\ (h <=> tally.held[p] \/ plane'[p] = Wanted(p, tally.source))
  OBVIOUS
<1> HIDE DEF n, h
<1>6. tally' \in Tallies
  <2>1. [tally.tries EXCEPT ![p] = n] \in [Params -> 0..RepeatCount + 1]
    BY <1>4
  <2>2. [tally.held EXCEPT ![p] = h] \in [Params -> BOOLEAN]
    <3>1. tally.held \in [Params -> BOOLEAN]
      OBVIOUS
    <3> QED
      BY <1>5, <3>1, Zenon
  <2>3. tally \in Tallies
    BY DEF Tallies
  <2> QED
    BY <1>3, <2>1, <2>2, <2>3 DEF Tallies
<1>7. UNCHANGED <<tally.requests, tally.source, tally.cut, tally.stale>>
  BY <1>3
<1>8. tally.tries[p] < RepeatCount => tally'.tries = [tally.tries EXCEPT ![p] = @ + 1]
  BY <1>3, <1>4
<1>9. tally'.held = [tally.held EXCEPT ![p] = h]
  BY <1>3
<1>10. ASSUME \A x \in Params : plane[x] = Wanted(x, tally.source) => tally.held[x], NEW x \in Params
       PROVE  /\ tally.held[x] => tally'.held[x]
              /\ plane'[x] = Wanted(x, tally'.source) => tally'.held[x]
  <2>1. tally.held \in [Params -> BOOLEAN]
    OBVIOUS
  <2>2. CASE x = p
    BY <1>5, <1>7, <1>9, <2>1, <2>2
  <2>3. CASE x # p
    BY <1>1, <1>7, <1>9, <1>10, <2>1, <2>3
  <2> QED
    BY <2>2, <2>3
<1> QED
  BY <1>1, <1>2, <1>6, <1>7, <1>8, <1>10

\* and so the answers on their way say only what was held.
LEMMA DoNowHeld ==
  ASSUME TypeOK, ~tally.cut, Held, NEW p \in Params, NEW v \in Values, Told(p, v),
         tally' = Tallied(tally, p)
  PROVE  /\ \A x \in Params : plane'[x] = Wanted(x, tally'.source) => tally'.held[x]
         /\ \A x \in Params : tally.held[x] => tally'.held[x]
         /\ AnswersHeld(answers', tally')
<1>1. /\ \A x \in Params : plane'[x] = Wanted(x, tally'.source) => tally'.held[x]
      /\ \A x \in Params : tally.held[x] => tally'.held[x]
      /\ tally'.source = tally.source /\ plane' \in [Params -> Values]
  BY DoNow DEF Held
<1>2. AnswersHeld(answers, tally')
  BY <1>1, HeldGrows, SMTT(30) DEF Held, TypeOK
<1>3. \A x \in Params : plane[x] = Wanted(x, tally'.source) => tally'.held[x]
  BY <1>1 DEF Held
<1>4. answers \in Seq(Messages) /\ Len(answers) <= MaxAnswers /\ plane \in [Params -> Values]
  BY DEF TypeOK
<1>5. CASE answers' \in Answering(answers, p, plane')
  BY <1>1, <1>2, <1>4, <1>5, AnsweringHeld
<1>6. CASE answers' \in Answering(answers, p, plane)
  BY <1>1, <1>2, <1>3, <1>4, <1>6, AnsweringHeld
<1>7. CASE answers' = answers
  BY <1>1, <1>2, <1>7
<1>8. \/ answers' \in Answering(answers, p, plane')
      \/ answers' \in Answering(answers, p, plane)
      \/ answers' = answers
  BY DEF Told
<1> QED
  BY <1>1, <1>5, <1>6, <1>7, <1>8

-----------------------------------------------------------------------------
\* Nothing is asked for, held or on its way at the start.
LEMMA SourceInit == Init => SourceInv
<1> SUFFICES ASSUME Init PROVE SourceInv
  OBVIOUS
<1>1. TypeOK
  <2>1. setter \in [Params -> Setters] /\ main \in [pc: Params \cup {"idle"}, source: Sources]
    BY DEF Init, Setters, Sources
  <2>2. answers \in Seq(Messages) /\ Len(answers) <= MaxAnswers
    BY EmptySeq DEF Init
  <2>3. tally \in Tallies
    <3>1. /\ [p \in Params |-> FALSE] \in [Params -> BOOLEAN]
          /\ [p \in Params |-> 0] \in [Params -> 0..RepeatCount + 1]
      OBVIOUS
    <3> QED
      BY <3>1 DEF Init, Tallies, Sources
  <2>4. reported \in [Params -> Values \cup {Unknown}] /\ plane \in [Params -> Values]
    BY DEF Init
  <2>5. /\ requested = "NONE" /\ refreshAge \in 0..RefreshPeriod /\ rawInt = FALSE
        /\ planeReady = FALSE /\ logger = "idle"
    BY DEF Init
  <2> QED
    BY <2>1, <2>2, <2>3, <2>4, <2>5 DEF TypeOK, Setters, Tallies, LoggerPcs
<1>2. Served /\ ~Asked /\ tally.requests = 0
  BY DEF Init, Served, Asked
<1> QED
  BY <1>1, <1>2 DEF SourceInv

\* requestGpsFc, requestGpsExternal: the history begins anew.
LEMMA RequestTally ==
  ASSUME TypeOK, NEW s \in Sources, Request(s)
  PROVE  /\ tally' \in Tallies /\ tally'.requests > 0 /\ tally'.cut = ~Followed
         /\ \A p \in Params : tally'.tries[p] = 0
         /\ Followed => tally'.source = s /\ \A p \in Params : tally'.held[p] = (plane[p] = Wanted(p, s))
<1> DEFINE c == ~Followed
           src == IF Followed THEN s ELSE tally.source
           z == [p \in Params |-> 0]
           h == [p \in Params |-> Followed /\ plane[p] = Wanted(p, s)]
<1>1. tally \in Tallies
  BY DEF TypeOK, Tallies
<1>2. PICK n \in 0..MaxEvents : n = tally.requests + 1 /\ n > 0
  <2>1. tally.requests + 1 \in 0..MaxEvents
    BY <1>1 DEF Request, Events, Tallies
  <2> QED BY <1>1, <2>1 DEF Tallies
<1>3. c \in BOOLEAN /\ src \in Sources
  BY <1>1 DEF Followed, Tallies
<1>4. z \in [Params -> 0..RepeatCount + 1] /\ h \in [Params -> BOOLEAN]
  OBVIOUS
<1>5. tally' = [tally EXCEPT !.requests = n, !.cut = c, !.source = src, !.tries = z, !.held = h, !.stale = FALSE]
  BY <1>2 DEF Request
<1>6. c = ~Followed /\ (Followed => src = s) /\ \A p \in Params : z[p] = 0
  OBVIOUS
<1>7. Followed => \A p \in Params : h[p] = (plane[p] = Wanted(p, s))
  BY DEF Params
<1> HIDE DEF c, src, z, h
<1>8. /\ tally' \in Tallies
      /\ tally'.requests = n /\ tally'.cut = c /\ tally'.source = src /\ tally'.tries = z /\ tally'.held = h
  <2> DEFINE u == [tally EXCEPT !.requests = n, !.cut = c, !.source = src, !.tries = z, !.held = h, !.stale = FALSE]
  <2>1. u \in Tallies
    BY <1>1, <1>3, <1>4 DEF Tallies
  <2>2. u.requests = n /\ u.cut = c /\ u.source = src
    BY <1>1, <1>3, <1>4 DEF Tallies
  <2>3. u.tries = z /\ u.held = h
    BY <1>1, <1>3, <1>4 DEF Tallies
  <2> HIDE DEF u
  <2>4. tally' = u
    BY <1>5 DEF u
  <2> QED
    BY <2>1, <2>2, <2>3, <2>4
<1>9. tally'.requests > 0 /\ tally'.cut = ~Followed
  BY <1>2, <1>6, <1>8
<1>10. \A p \in Params : tally'.tries[p] = 0
  BY <1>6, <1>8
<1>11. ASSUME Followed PROVE tally'.source = s /\ \A p \in Params : tally'.held[p] = (plane[p] = Wanted(p, s))
  BY <1>6, <1>7, <1>8, <1>11
<1> QED
  BY <1>8, <1>9, <1>10, <1>11

\* requestGpsFc, requestGpsExternal: what is on its way is from before the request.
LEMMA RequestKeeps == ASSUME SourceInv, NEW s \in Sources, Request(s) PROVE SourceInv'
<1> USE DEF SourceInv, TypeOK
<1>0. Followed \in BOOLEAN
  BY DEF Followed
<1>1. answers' \in Seq(Messages) /\ Len(answers') = Len(answers)
  <2>1. DOMAIN answers = 1..Len(answers) /\ Len(answers) \in Nat
    BY LenProperties
  <2>2. ASSUME NEW i \in 1..Len(answers) PROVE [answers[i] EXCEPT !.old = Followed] \in Messages
    <3>1. answers[i] \in Messages
      BY ElementOfSeq
    <3> QED
      BY <1>0, <3>1
  <2>3. answers' = [i \in 1..Len(answers) |-> [answers[i] EXCEPT !.old = Followed]]
    BY <2>1 DEF Request
  <2> QED
    BY <2>1, <2>2, <2>3, SMTT(30)
<1>2. Followed => \A i \in 1..Len(answers') : answers'[i].old
  <2>1. ASSUME Followed, NEW i \in 1..Len(answers) PROVE answers'[i].old
    <3>1. answers[i] \in Messages /\ DOMAIN answers = 1..Len(answers)
      BY ElementOfSeq, LenProperties
    <3>2. answers'[i] = [answers[i] EXCEPT !.old = Followed]
      BY <3>1 DEF Request
    <3> QED
      BY <2>1, <3>1, <3>2
  <2> QED
    BY <1>1, <2>1
<1>3. /\ tally' \in Tallies /\ tally'.requests > 0 /\ tally'.cut = ~Followed
      /\ \A p \in Params : tally'.tries[p] = 0
      /\ Followed => tally'.source = s /\ \A p \in Params : tally'.held[p] = (plane[p] = Wanted(p, s))
  BY RequestTally
<1>4. main' = [pc |-> "AUTO", source |-> s] /\ requested' = s /\ s # "NONE"
  BY DEF Request, Sources
<1>5. UNCHANGED <<setter, reported, refreshAge, rawInt, planeReady, logger, plane>>
  BY DEF Request
<1>6. TypeOK'
  BY <1>1, <1>3, <1>4, <1>5 DEF Tallies
<1>7. Served'
  BY <1>3, <1>4 DEF Served, Followed
<1>8. Asked' => Exhausting'
  BY <1>3, <1>4, <1>5 DEF Asked, Exhausting, IsArmed, LoggerPcs, Followed
<1>9. ASSUME Asked' PROVE Held'
  <2>0. Followed
    BY <1>3, <1>9 DEF Asked
  <2>1. \A p \in Params : plane'[p] = Wanted(p, tally'.source) => tally'.held[p]
    BY <1>3, <1>5, <2>0
  <2>2. AnswersHeld(answers', tally')
    BY <1>2, <2>0 DEF AnswersHeld
  <2>3. Confirming'
    BY <1>4 DEF Confirming, IsArmed
  <2> QED
    BY <2>1, <2>2, <2>3 DEF Held
<1> QED
  BY <1>6, <1>7, <1>8, <1>9

\* requestGpsSource: the setter begins with all tries but the one it makes.
LEMMA SetParamKeeps == ASSUME SourceInv, NEW p \in Params, SetParam(p) PROVE SourceInv'
<1> USE DEF SourceInv
<1>1. /\ Told(p, Wanted(p, main.source)) /\ tally' = Tallied(tally, p) /\ Wanted(p, main.source) \in Values
      /\ tally.requests > 0 /\ (~tally.cut => main.source = tally.source) /\ main.pc = p
  BY DEF SetParam, Served, Wanted
<1>2. /\ tally' \in Tallies /\ plane' \in [Params -> Values]
      /\ answers' \in Seq(Messages) /\ Len(answers') <= MaxAnswers
      /\ UNCHANGED <<tally.requests, tally.source, tally.cut, tally.stale>>
      /\ ~tally.cut /\ tally.tries[p] < RepeatCount => tally'.tries = [tally.tries EXCEPT ![p] = @ + 1]
  BY <1>1, DoNow
<1>3. ASSUME ~tally.cut, Held
      PROVE  /\ \A x \in Params : plane'[x] = Wanted(x, tally'.source) => tally'.held[x]
             /\ \A x \in Params : tally.held[x] => tally'.held[x]
             /\ AnswersHeld(answers', tally')
  BY <1>1, <1>3, DoNowHeld
<1>4. /\ setter' = [setter EXCEPT ![p] = Armed(p)]
      /\ Armed(p) \in Setters /\ ~Armed(p).confirmed
      /\ ~tally.cut => Armed(p).value = Wanted(p, tally.source)
      /\ Armed(p).left = RepeatCount - 1
  BY <1>1 DEF SetParam, Armed, Setters
<1> HIDE DEF Armed
<1>5. /\ UNCHANGED <<requested, reported, refreshAge, rawInt, planeReady, logger>>
      /\ main' = IF p = "AUTO" THEN [main EXCEPT !.pc = "PRIMARY"] ELSE [pc |-> "idle", source |-> "FC"]
  BY DEF SetParam
<1>6. TypeOK'
  BY <1>2, <1>4, <1>5 DEF TypeOK, Tallies, Setters, Sources
<1>7. Served'
  BY <1>1, <1>2, <1>5 DEF Served, TypeOK
<1>8. ASSUME Asked' PROVE Exhausting'
  <2>1. Exhausting /\ logger = "idle" /\ requested # "NONE"
    BY <1>1, <1>2, <1>8 DEF Asked, Exhausting
  <2>2. tally.tries[p] = 0
    BY <1>1, <2>1 DEF Exhausting, IsArmed
  <2>3. tally'.tries = [tally.tries EXCEPT ![p] = 1]
    BY <1>2, <1>8, <2>2 DEF Asked
  <2>4. tally'.tries[p] + setter'[p].left = RepeatCount
    BY <1>4, <2>3, SMTT(30) DEF TypeOK
  <2>5. \A x \in Params \ {p} : tally'.tries[x] = tally.tries[x] /\ setter'[x] = setter[x]
    BY <1>4, <2>3 DEF TypeOK
  <2>6. IsArmed(p)' /\ \A x \in Params \ {p} : IsArmed(x)' <=> IsArmed(x)
    BY <1>1, <1>2, <1>5 DEF IsArmed, TypeOK
  <2> QED
    BY <1>5, <2>1, <2>4, <2>5, <2>6 DEF Exhausting
<1>9. ASSUME Asked' PROVE Held'
  <2>0. ~tally.cut /\ Held
    BY <1>1, <1>2, <1>9 DEF Asked
  <2>3. /\ \A x \in Params : plane'[x] = Wanted(x, tally'.source) => tally'.held[x]
        /\ \A x \in Params : tally.held[x] => tally'.held[x]
        /\ AnswersHeld(answers', tally')
    BY <1>3, <2>0
  <2> SUFFICES ASSUME NEW x \in Params, IsArmed(x)'
               PROVE  /\ setter'[x].value = Wanted(x, tally'.source)
                      /\ setter'[x].confirmed /\ ~tally'.stale => tally'.held[x]
    BY <2>3 DEF Held, Confirming
  <2>1. CASE x = p
    BY <1>2, <1>4, <2>0, <2>1 DEF TypeOK
  <2>2. CASE x # p
    <3>1. IsArmed(x) /\ setter'[x] = setter[x]
      BY <1>1, <1>2, <1>4, <1>5, <2>2 DEF IsArmed, TypeOK
    <3> QED
      BY <1>1, <1>2, <2>0, <2>3, <3>1 DEF Held, Confirming
  <2> QED
    BY <2>1, <2>2
<1> QED
  BY <1>6, <1>7, <1>8, <1>9

\* onMessageReceived: an answer that confirms is from before the request, which the
\* history notes, or says what was held.
LEMMA AnswerKeeps == ASSUME SourceInv, ParamValueReceived PROVE SourceInv'
<1> DEFINE a == Head(answers)
<1>1. /\ a \in Messages /\ answers' = Tail(answers) /\ answers' \in Seq(Messages)
      /\ Len(answers') = Len(answers) - 1 /\ Len(answers) \in Nat \ {0} /\ a = answers[1]
      /\ \A i \in 1..Len(answers') : answers'[i] = answers[i + 1]
  <2>1. answers \in Seq(Messages) /\ answers # <<>> /\ answers' = Tail(answers)
    BY DEF ParamValueReceived, SourceInv, TypeOK
  <2>2. Len(answers) \in Nat \ {0} /\ a = answers[1]
    BY <2>1, EmptySeq
  <2> QED
    BY <2>1, <2>2, HeadTailProperties
<1>2. /\ setter' = [setter EXCEPT ![a.param] = Answered(setter[a.param], a.value)]
      /\ reported' = [reported EXCEPT ![a.param] = a.value]
      /\ tally' = [tally EXCEPT !.stale = tally.stale \/ (~tally.cut /\ a.old /\ setter' # setter)]
      /\ UNCHANGED <<requested, refreshAge, rawInt, planeReady, main, logger, plane>>
      /\ main.pc = "idle"
  BY DEF ParamValueReceived
<1> HIDE DEF a
<1>3. setter \in [Params -> Setters] /\ tally \in Tallies
  BY DEF SourceInv, TypeOK, Setters, Tallies
<1>4. /\ setter' \in [Params -> Setters]
      /\ \A p \in Params : /\ setter'[p].left = setter[p].left /\ setter'[p].value = setter[p].value
                           /\ setter[p].confirmed => setter'[p].confirmed
                           /\ setter'[p] # setter[p] => p = a.param /\ a.value = setter[p].value
  <2>1. setter[a.param] \in Setters /\ a.param \in Params /\ a.value \in Values
    BY <1>1, <1>3
  <2> DEFINE r == Answered(setter[a.param], a.value)
  <2>2. /\ r \in Setters /\ r.left = setter[a.param].left /\ r.value = setter[a.param].value
        /\ setter[a.param].confirmed => r.confirmed
        /\ r # setter[a.param] => a.value = setter[a.param].value
    BY <2>1 DEF Answered, Setters
  <2> HIDE DEF r
  <2>3. setter' = [setter EXCEPT ![a.param] = r]
    BY <1>2 DEF r
  <2> QED
    BY <1>3, <2>1, <2>2, <2>3
<1>5. /\ tally' \in Tallies /\ tally'.stale = (tally.stale \/ (~tally.cut /\ a.old /\ setter' # setter))
      /\ UNCHANGED <<tally.requests, tally.source, tally.cut, tally.tries, tally.held>>
  <2>1. (tally.stale \/ (~tally.cut /\ a.old /\ setter' # setter)) \in BOOLEAN
    OBVIOUS
  <2> QED
    BY <1>2, <1>3, <2>1 DEF Tallies
<1>6. TypeOK'
  <2>1. reported' \in [Params -> Values \cup {Unknown}]
    BY <1>1, <1>2 DEF SourceInv, TypeOK
  <2>2. Len(answers') <= MaxAnswers
    BY <1>1 DEF SourceInv, TypeOK
  <2> QED
    BY <1>1, <1>2, <1>4, <1>5, <2>1, <2>2 DEF SourceInv, TypeOK, Setters, Tallies
<1>7. Served' /\ (Asked' => Exhausting')
  BY <1>2, <1>4, <1>5 DEF SourceInv, Served, Asked, Exhausting, IsArmed, SettersFinished, IsFinished
<1>8. ASSUME Asked' PROVE Held'
  <2>1. Held /\ ~tally.cut
    BY <1>5, <1>8 DEF SourceInv, Asked
  <2>2. AnswersHeld(answers', tally')
    <3> SUFFICES ASSUME NEW i \in 1..Len(answers'), ~answers'[i].old,
                        answers'[i].value = Wanted(answers'[i].param, tally'.source)
                 PROVE tally'.held[answers'[i].param]
      BY DEF AnswersHeld
    <3>1. i + 1 \in 1..Len(answers) /\ answers'[i] = answers[i + 1]
      BY <1>1
    <3> QED
      BY <1>5, <2>1, <3>1 DEF Held, AnswersHeld
  <2>3. Confirming'
    <3> SUFFICES ASSUME NEW p \in Params, IsArmed(p)'
                 PROVE  /\ setter'[p].value = Wanted(p, tally'.source)
                        /\ setter'[p].confirmed /\ ~tally'.stale => tally'.held[p]
      BY DEF Confirming
    <3>1. IsArmed(p) /\ setter[p].value = Wanted(p, tally.source)
      BY <1>2, <1>5, <2>1 DEF IsArmed, Held, Confirming
    <3>2. CASE setter'[p] = setter[p]
      BY <1>4, <1>5, <2>1, <3>1, <3>2 DEF Held, Confirming
    <3>3. CASE setter'[p] # setter[p]
      <4>1. p = a.param /\ a.value = Wanted(p, tally.source)
        BY <1>4, <3>1, <3>3
      <4>2. ~a.old => tally.held[p]
        BY <1>1, <2>1, <4>1 DEF Held, AnswersHeld
      <4>3. setter' # setter
        BY <3>3
      <4>4. a.old => tally'.stale
        BY <1>5, <2>1, <4>3
      <4> QED
        BY <1>4, <1>5, <3>1, <4>2, <4>4
    <3> QED
      BY <3>2, <3>3
  <2> QED
    BY <1>2, <1>5, <2>1, <2>2, <2>3 DEF Held
<1> QED
  BY <1>6, <1>7, <1>8 DEF SourceInv

\* ParamSetter::loop: a try is made while one is left, with the value of the request.
LEMMA SetterTurnKeeps == ASSUME SourceInv, NEW p \in Params, SetterTurn(p) PROVE SourceInv'
<1>1. /\ logger = p /\ logger' = (IF p = "AUTO" THEN "PRIMARY" ELSE "Done")
      /\ UNCHANGED <<requested, reported, refreshAge, rawInt, planeReady, main>>
  BY DEF SetterTurn
<1>2. requested # "NONE" /\ setter \in [Params -> Setters]
  BY <1>1 DEF SourceInv, Served, TypeOK, Setters
<1>3. CASE ~IsDue(setter[p], Timeout)
  <2>1. UNCHANGED <<setter, plane, answers, tally>>
    BY <1>3 DEF SetterTurn
  <2>2. TypeOK' /\ Served'
    BY <1>1, <1>2, <2>1 DEF SourceInv, TypeOK, Served, LoggerPcs
  <2>3. Asked' => Exhausting'
    BY <1>1, <1>2, <2>1 DEF SourceInv, Asked, Exhausting, IsArmed
  <2>4. Asked' => Held'
    BY <1>1, <2>1 DEF SourceInv, Asked, Held, AnswersHeld, Confirming, IsArmed
  <2> QED
    BY <2>2, <2>3, <2>4 DEF SourceInv
<1>4. CASE IsDue(setter[p], Timeout)
  <2>1. Told(p, setter[p].value) /\ tally' = Tallied(tally, p) /\ setter[p].value \in Values
    BY <1>2, <1>4 DEF SetterTurn, Setters
  <2>2. /\ tally' \in Tallies /\ plane' \in [Params -> Values]
        /\ answers' \in Seq(Messages) /\ Len(answers') <= MaxAnswers
        /\ UNCHANGED <<tally.requests, tally.source, tally.cut, tally.stale>>
        /\ ~tally.cut /\ tally.tries[p] < RepeatCount => tally'.tries = [tally.tries EXCEPT ![p] = @ + 1]
    BY <2>1, DoNow DEF SourceInv
  <2>3. ~setter[p].confirmed /\ setter[p].left \in 1..RepeatCount
    BY <1>2, <1>4 DEF IsDue, IsFinished, Setters
  <2>4. /\ setter' \in [Params -> Setters]
        /\ setter'[p].left = setter[p].left - 1
        /\ \A x \in Params : /\ setter'[x].value = setter[x].value /\ setter'[x].confirmed = setter[x].confirmed
                             /\ x # p => setter'[x] = setter[x]
    BY <1>2, <1>4, <2>3 DEF SetterTurn, Setters, Stored
  <2>5. TypeOK' /\ Served'
    BY <1>1, <1>2, <2>2, <2>4 DEF SourceInv, TypeOK, Served, LoggerPcs, Setters, Tallies
  <2>6. ASSUME Asked' PROVE Exhausting'
    <3>1. Exhausting /\ main.pc = "idle" /\ main' = main
      BY <1>1, <2>2, <2>6 DEF SourceInv, Asked, Exhausting
    <3>2. \A x \in Params : IsArmed(x) /\ IsArmed(x)'
      BY <2>2, <2>6, <3>1 DEF Asked, IsArmed
    <3>3. tally.tries[p] + setter[p].left = RepeatCount /\ tally.tries[p] \in Nat
      BY <3>1, <3>2, SMTT(30) DEF Exhausting, SourceInv, TypeOK
    <3>4. tally'.tries = [tally.tries EXCEPT ![p] = @ + 1] /\ tally.tries \in [Params -> Nat]
      BY <2>2, <2>3, <2>6, <3>3, SMTT(30) DEF SourceInv, TypeOK, Asked
    <3>5. \A x \in Params : tally'.tries[x] + setter'[x].left = RepeatCount
      BY <1>2, <2>3, <2>4, <3>1, <3>2, <3>3, <3>4 DEF Exhausting, Setters
    <3>6. requested' # "NONE" /\ logger' # "Clear" /\ main'.pc = "idle"
      BY <1>1, <1>2, <3>1
    <3> QED
      BY <3>2, <3>5, <3>6 DEF Exhausting
  <2>7. ASSUME Asked' PROVE Held'
    <3>1. TypeOK /\ ~tally.cut /\ tally.requests > 0 /\ Held
      BY <2>2, <2>7 DEF SourceInv, Asked
    <3>2. /\ \A x \in Params : plane'[x] = Wanted(x, tally'.source) => tally'.held[x]
          /\ \A x \in Params : tally.held[x] => tally'.held[x]
          /\ AnswersHeld(answers', tally')
      BY <2>1, <3>1, DoNowHeld
    <3>3. Confirming'
      BY <1>1, <2>2, <2>4, <3>1, <3>2 DEF Held, Confirming, IsArmed
    <3> QED
      BY <3>2, <3>3 DEF Held
  <2> QED
    BY <2>5, <2>6, <2>7 DEF SourceInv
<1> QED
  BY <1>3, <1>4

\* Whose step touches neither a setter's value, count and confirmation nor the history
\* of the request, nor what the autopilot and the link hold of it.
LEMMA StillHeld ==
  ASSUME SourceInv, main'.pc = main.pc, AnswersHeld(answers', tally'),
         \A p \in Params : setter'[p].value = setter[p].value /\ setter'[p].confirmed = setter[p].confirmed,
         UNCHANGED <<tally.requests, tally.source, tally.held, tally.stale, plane>>, Asked
  PROVE  Held'
  BY DEF SourceInv, Held, Confirming, IsArmed

\* A turn of the loop begins, with or without the read-back.
LEMMA TurnBeginsKeeps == ASSUME SourceInv, LoopStarts \/ LoopRefreshes PROVE SourceInv'
<1>1. TurnBegins /\ refreshAge' \in 0..RefreshPeriod
  BY SMTT(30) DEF LoopStarts, LoopRefreshes, SourceInv, TypeOK
<1>2. /\ answers' \in Seq(Messages) /\ Len(answers') <= MaxAnswers
      /\ Asked => AnswersHeld(answers', tally)
  <2>1. CASE LoopStarts
    BY <2>1 DEF LoopStarts, SourceInv, TypeOK, Held
  <2>2. CASE LoopRefreshes
    <3>1. PICK q \in Answering(answers, "PRIMARY", plane) : answers' \in Answering(q, "AUTO", plane)
      BY <2>2 DEF LoopRefreshes
    <3>2. answers \in Seq(Messages) /\ Len(answers) <= MaxAnswers /\ plane \in [Params -> Values]
      BY DEF SourceInv, TypeOK
    <3>3. q \in Seq(Messages) /\ Len(q) <= MaxAnswers
      BY <3>2, AnsweringType
    <3>4. answers' \in Seq(Messages) /\ Len(answers') <= MaxAnswers
      BY <3>1, <3>2, <3>3, AnsweringType
    <3>5. ASSUME Asked PROVE AnswersHeld(answers', tally)
      <4>1. /\ AnswersHeld(answers, tally)
            /\ \A p \in Params : plane[p] = Wanted(p, tally.source) => tally.held[p]
        BY <3>5 DEF SourceInv, Held
      <4>2. AnswersHeld(q, tally)
        BY <3>2, <4>1, AnsweringHeld
      <4> QED
        BY <3>1, <3>2, <3>3, <4>1, <4>2, AnsweringHeld
    <3> QED
      BY <3>4, <3>5
  <2> QED
    BY <2>1, <2>2
<1>3. /\ logger = "idle" /\ logger' = (IF requested = "NONE" THEN "idle" ELSE "AUTO")
      /\ UNCHANGED <<requested, setter, reported, rawInt, planeReady, main, plane>>
      /\ tally' = [tally EXCEPT !.cut = tally.cut \/ (requested # "NONE" /\ main.pc # "idle")]
  BY <1>1 DEF TurnBegins
<1>4. /\ tally' \in Tallies
      /\ tally'.cut = (tally.cut \/ (requested # "NONE" /\ main.pc # "idle"))
      /\ UNCHANGED <<tally.requests, tally.source, tally.held, tally.stale, tally.tries>>
  <2>1. (tally.cut \/ (requested # "NONE" /\ main.pc # "idle")) \in BOOLEAN /\ tally \in Tallies
    BY DEF SourceInv, TypeOK, Tallies
  <2> QED
    BY <1>3, <2>1 DEF Tallies
<1>5. TypeOK'
  BY <1>1, <1>2, <1>3, <1>4 DEF SourceInv, TypeOK, LoggerPcs, Tallies
<1>6. Served'
  BY <1>3, <1>4 DEF SourceInv, Served
<1>7. ASSUME Asked' PROVE Exhausting'
  <2>1. Exhausting
    BY <1>4, <1>7 DEF SourceInv, Asked
  <2>2. main.pc # "idle" => logger' = "idle"
    BY <1>3, <1>4, <1>7 DEF Asked
  <2> QED
    BY <1>3, <1>4, <2>1, <2>2 DEF Exhausting, IsArmed, SettersFinished
<1>8. ASSUME Asked' PROVE Held'
  <2>0. Asked
    BY <1>4, <1>8 DEF Asked
  <2>1. AnswersHeld(answers', tally')
    BY <1>2, <1>4, <2>0, HeldGrows
  <2> QED
    BY <1>3, <1>4, <2>0, <2>1, StillHeld
<1> QED
  BY <1>5, <1>6, <1>7, <1>8 DEF SourceInv

\* and ends: behind finished setters the request is cleared.
LEMMA TurnEndsKeeps == ASSUME SourceInv, LoopDone \/ LoopClear PROVE SourceInv'
<1>1. /\ UNCHANGED <<setter, reported, refreshAge, planeReady, main, plane, answers, tally>>
      /\ logger \in {"Done", "Clear"} /\ rawInt' \in BOOLEAN
  BY DEF LoopDone, LoopClear, TurnEnds, SourceInv, TypeOK
<1>2. \/ logger' = "idle" /\ requested' = requested
      \/ logger' = "Clear" /\ SettersFinished /\ requested' = requested
      \/ logger' = "idle" /\ logger = "Clear" /\ requested' = "NONE"
  BY DEF LoopDone, LoopClear, TurnEnds
<1>3. TypeOK'
  BY <1>1, <1>2 DEF SourceInv, TypeOK, LoggerPcs
<1>4. Served'
  BY <1>1, <1>2 DEF SourceInv, Served
<1>5. Asked' => Exhausting'
  BY <1>1, <1>2 DEF SourceInv, Asked, Exhausting, IsArmed, SettersFinished
<1>6. ASSUME Asked' PROVE Held'
  BY <1>1, <1>6 DEF SourceInv, Asked, Held, AnswersHeld, Confirming, IsArmed
<1> QED
  BY <1>3, <1>4, <1>5, <1>6 DEF SourceInv

\* Time, and the plane's first heartbeat.
LEMMA TimeKeeps == ASSUME SourceInv, Tick \/ PlaneDetected PROVE SourceInv'
<1>1. /\ refreshAge' \in 0..RefreshPeriod /\ planeReady' \in BOOLEAN
      /\ UNCHANGED <<requested, reported, rawInt, main, logger, plane, answers, tally>>
  <2>1. refreshAge \in 0..RefreshPeriod /\ planeReady \in BOOLEAN
    BY DEF SourceInv, TypeOK
  <2>2. UNCHANGED <<requested, reported, rawInt, main, logger, plane, answers, tally>>
    BY DEF Tick, PlaneDetected
  <2>3. refreshAge' \in {refreshAge, Aged(refreshAge, RefreshPeriod)} /\ planeReady' \in {planeReady, TRUE}
    BY DEF Tick, PlaneDetected
  <2>4. Aged(refreshAge, RefreshPeriod) \in 0..RefreshPeriod
    BY <2>1 DEF Aged
  <2> QED
    BY <2>1, <2>2, <2>3, <2>4
<1>2. setter \in [Params -> Setters]
  BY DEF SourceInv, TypeOK, Setters
<1>3. /\ setter' \in [Params -> Setters]
      /\ \A p \in Params : /\ setter'[p].value = setter[p].value /\ setter'[p].confirmed = setter[p].confirmed
                           /\ setter'[p].left = setter[p].left
  BY <1>2 DEF Tick, PlaneDetected, Aged, Setters
<1>4. TypeOK' /\ Served'
  BY <1>1, <1>3 DEF SourceInv, TypeOK, Setters, Served
<1>5. Asked' => Exhausting'
  BY <1>1, <1>3 DEF SourceInv, Asked, Exhausting, IsArmed, SettersFinished, IsFinished
<1>6. ASSUME Asked' PROVE Held'
  BY <1>1, <1>3, <1>6 DEF SourceInv, Asked, Held, AnswersHeld, Confirming, IsArmed
<1> QED
  BY <1>4, <1>5, <1>6 DEF SourceInv

\* Somebody else's change is held when it is to the value of the request.
LEMMA ChangeKeeps == ASSUME SourceInv, NEW p \in Params, ChangedOutside(p) PROVE SourceInv'
<1> DEFINE h == tally.held[p] \/ (~tally.cut /\ plane'[p] = Wanted(p, tally.source))
<1>1. /\ plane' = [plane EXCEPT ![p] = 1 - plane[p]] /\ Events < MaxEvents
      /\ tally' = [tally EXCEPT !.changes = tally.changes + 1, !.held = [tally.held EXCEPT ![p] = h]]
      /\ UNCHANGED <<requested, setter, reported, refreshAge, rawInt, planeReady, main, logger, answers>>
  BY DEF ChangedOutside
<1>2. h \in BOOLEAN /\ (h <=> tally.held[p] \/ (~tally.cut /\ plane'[p] = Wanted(p, tally.source)))
  BY DEF SourceInv, TypeOK
<1> HIDE DEF h
<1>3. plane' \in [Params -> Values] /\ \A x \in Params : x # p => plane'[x] = plane[x]
  BY <1>1, SMTT(30) DEF SourceInv, TypeOK
<1>4. /\ tally' \in Tallies /\ tally'.held = [tally.held EXCEPT ![p] = h]
      /\ UNCHANGED <<tally.requests, tally.source, tally.cut, tally.tries, tally.stale>>
  <2>1. tally \in Tallies /\ tally.held \in [Params -> BOOLEAN]
    BY DEF SourceInv, TypeOK, Tallies
  <2>2. [tally.held EXCEPT ![p] = h] \in [Params -> BOOLEAN]
    BY <1>2, <2>1, Zenon
  <2>3. tally.changes + 1 \in 0..MaxEvents
    BY <1>1, <2>1 DEF Events, Tallies
  <2> QED
    BY <1>1, <2>1, <2>2, <2>3 DEF Tallies
<1>5. TypeOK' /\ Served'
  BY <1>1, <1>3, <1>4 DEF SourceInv, TypeOK, Served, Tallies
<1>6. Asked' => Exhausting'
  BY <1>1, <1>4 DEF SourceInv, Asked, Exhausting, IsArmed, SettersFinished
<1>7. ASSUME Asked' PROVE Held'
  <2>1. Held /\ ~tally.cut /\ tally.held \in [Params -> BOOLEAN] /\ answers \in Seq(Messages)
    BY <1>4, <1>7 DEF SourceInv, TypeOK, Asked
  <2>2. \A x \in Params : tally.held[x] => tally'.held[x]
    BY <1>2, <1>4, <2>1
  <2>3. ASSUME NEW x \in Params, plane'[x] = Wanted(x, tally'.source) PROVE tally'.held[x]
    <3>1. CASE x = p
      BY <1>2, <1>4, <2>1, <2>3, <3>1
    <3>2. CASE x # p
      BY <1>3, <1>4, <2>1, <2>2, <2>3, <3>2 DEF Held
    <3> QED
      BY <3>1, <3>2
  <2>4. AnswersHeld(answers', tally')
    <3>1. answers' = answers /\ tally'.source = tally.source /\ AnswersHeld(answers, tally)
      BY <1>1, <1>4, <2>1 DEF Held
    <3> QED
      BY <2>1, <2>2, <3>1, HeldGrows
  <2>5. Confirming'
    BY <1>1, <1>4, <2>1, <2>2 DEF Held, Confirming, IsArmed
  <2> QED
    BY <2>3, <2>4, <2>5 DEF Held
<1> QED
  BY <1>5, <1>6, <1>7 DEF SourceInv

\* Every action keeps both arguments.
LEMMA SourceStep == SourceInv /\ [Next]_vars => SourceInv'
<1>1. SourceInv /\ Next => SourceInv'
  BY RequestKeeps, SetParamKeeps, AnswerKeeps, SetterTurnKeeps, TurnBeginsKeeps, TurnEndsKeeps, TimeKeeps,
     ChangeKeeps DEF Next, Main, Loop
<1>2. SourceInv /\ UNCHANGED vars => SourceInv'
  BY DEF SourceInv, TypeOK, Served, Asked, Exhausting, IsArmed, SettersFinished, IsFinished, Held, AnswersHeld,
     Confirming, vars
<1> QED
  BY <1>1, <1>2

\* The invariant the theorems follow from.
LEMMA SourceHolds == Spec => []SourceInv
  BY SourceInit, SourceStep, PTL DEF Spec

-----------------------------------------------------------------------------
\* paramSet, loop and onMessageReceived: whatever of them is interleaved, no count of tries
\* and no stamp of the two setters leaves its range, and no setter asks for another value
\* than those of a source.
THEOREM TypeCorrect == Spec => []TypeOK
<1>1. SourceInv => TypeOK
  BY DEF SourceInv
<1> QED
  BY <1>1, SourceHolds, PTL

\* loop's end of a request: each of the two parameters has been confirmed or tried
\* RepeatCount times, whatever was lost on the link.
THEOREM GivenUpAtTheEnd == Spec => []AskedToTheEnd
<1>1. SourceInv => AskedToTheEnd
  BY SMTT(30) DEF SourceInv, TypeOK, Exhausting, SettersFinished, IsFinished, IsArmed, AskedToTheEnd, Asked, AtRest
<1> QED
  BY <1>1, SourceHolds, PTL

\* onMessageReceived: a confirmation by an answer given since the request means that the
\* autopilot has held the value since then.
THEOREM ConfirmedMeansHeld == Spec => []ConfirmedWasHeld
<1>1. SourceInv => ConfirmedWasHeld
  BY DEF SourceInv, Held, Confirming, IsArmed, ConfirmedWasHeld, Asked
<1> QED
  BY <1>1, SourceHolds, PTL
=============================================================================
