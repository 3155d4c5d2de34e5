--------------------------- MODULE CcrLinkProofs ---------------------------
(***************************************************************************)
(* A confirmed CCR, for any CCRs, tries, periods, requests and sentences    *)
(* under way.  The invariant speaks of a request that found nothing of an   *)
(* earlier one in the buffer or on the line: from then on only its own SET  *)
(* is there, so the board comes to its CCR once and keeps it, and the       *)
(* replies that name it are the last ones on the line.  A log then has its  *)
(* name, or the thread that is about to open it does, unless the reply came *)
(* in behind the logger thread's reading of the CCR.                        *)
(***************************************************************************)
EXTENDS CcrLink, SequenceTheorems, TLAPS

Requester == [value: Nat, age: Int, left: Int, confirmed: BOOLEAN]
Sentence == [cmd: {"none", "GET", "SET", "OTHER"}, ccr: Nat]

Types ==
  /\ set \in Requester /\ seen \in [requests: Nat, stale: BOOLEAN, cut: BOOLEAN]
  /\ start \in [Threads -> [at: {"no", "asked", "named", "open"}, ccr: Nat]]
  /\ slot \in Sentence /\ toBoard \in Seq(Sentence)
  /\ fromBoard \in Seq(Nat) /\ board \in Nat /\ ccrReceived \in Nat
  /\ logStarted \in BOOLEAN

\* The latest request was made when nothing of another was under way.
Alone == ~seen.stale /\ seen.requests > 0

OwnSet(s) == s.cmd = "SET" => s.ccr = set.value

OnlyItsOwn ==
  Alone => OwnSet(slot) /\ \A i \in 1..Len(toBoard) : OwnSet(toBoard[i])

\* A reply that names the CCR is about a board that has it, as are those behind it.
RepliesLast ==
  Alone =>
    /\ \A i \in 1..Len(fromBoard) : fromBoard[i] = set.value => board = set.value
    /\ \A i, j \in 1..Len(fromBoard) :
         i <= j /\ fromBoard[i] = set.value => fromBoard[j] = set.value

\* Behind the reply that confirmed there are only such replies.
Known ==
  Alone /\ set.confirmed =>
    /\ board = set.value /\ ccrReceived = set.value
    /\ \A i \in 1..Len(fromBoard) : fromBoard[i] = set.value

\* A name that was read is the CCR received last, on the logger thread if the CCR was confirmed
\* before the name was read.
NamesCurrent ==
  /\ start["main"].at = "named" => start["main"].ccr = ccrReceived
  /\ Alone /\ set.confirmed /\ start["logger"].at = "named" /\ ~seen.cut =>
       start["logger"].ccr = ccrReceived

\* The log is open, or about to be, and no thread is before its opening.
Opened ==
  /\ logStarted \/ \E t \in Threads : start[t].at = "open"
  /\ \A t \in Threads : start[t].at \notin {"asked", "named"}

FileNamed == Alone /\ set.confirmed /\ ~seen.cut /\ Opened => logCcr = set.value

Logs == NamesCurrent /\ FileNamed

CcrInv == Types /\ OnlyItsOwn /\ RepliesLast /\ Known /\ Logs

USE CcrAssumption
USE DEF NoCcr, Requester, Sentence, Alone

-----------------------------------------------------------------------------
LEMMA CcrInit ==
  ASSUME Init
  PROVE CcrInv
<1>1. seen = [requests |-> 0, stale |-> FALSE, cut |-> FALSE]
  BY DEF Init
<1>2. ~Alone
  BY <1>1
<1>3. set \in Requester
  BY DEF Init
<1>4. slot \in Sentence /\ toBoard \in Seq(Sentence) /\ fromBoard \in Seq(Nat) /\ board \in Nat
      /\ ccrReceived \in Nat
  BY EmptySeq DEF Init, Empty
<1>5. logStarted \in BOOLEAN
  BY DEF Init
<1>6. seen \in [requests: Nat, stale: BOOLEAN, cut: BOOLEAN]
  BY <1>1
<1>7. start = [t \in Threads |-> [at |-> "no", ccr |-> 0]]
  BY DEF Init, NotStarting
<1>8. start \in [Threads -> [at: {"no", "asked", "named", "open"}, ccr: Nat]]
  BY <1>7
<1>9. Logs
  BY <1>2, <1>7 DEF Logs, NamesCurrent, FileNamed, Threads
<1> QED BY <1>2, <1>3, <1>4, <1>5, <1>6, <1>8, <1>9 DEF CcrInv, Types, OnlyItsOwn, RepliesLast,
                                                        Known

\* A request is counted, with what it found under way.
LEMMA RequestSeen ==
  ASSUME NEW R, NEW s \in [requests: R, stale: BOOLEAN, cut: BOOLEAN], NEW b \in BOOLEAN,
         s.requests + 1 \in R,
         NEW n, n = [s EXCEPT !.requests = @ + 1, !.stale = b, !.cut = FALSE]
  PROVE n \in [requests: R, stale: BOOLEAN, cut: BOOLEAN] /\ n.stale = b
<1>1. PICK k \in R : k = s.requests + 1
  OBVIOUS
<1>2. PICK q : q = [s EXCEPT !.requests = k]
  OBVIOUS
<1>3. q \in [requests: R, stale: BOOLEAN, cut: BOOLEAN]
  BY <1>2
<1>4. n = [q EXCEPT !.stale = b, !.cut = FALSE]
  BY <1>1, <1>2, Zenon
<1> QED BY <1>3, <1>4

\* A try changes neither the CCR asked for nor whether it is confirmed.
LEMMA TriedKeeps ==
  ASSUME NEW r \in Requester
  PROVE /\ Tried(r) \in Requester
        /\ Tried(r).value = r.value /\ Tried(r).confirmed = r.confirmed
<1>1. PICK l \in Int : l = Stored(r.left, r.left)
  BY DEF Stored
<1>2. PICK a : a = [r EXCEPT !.age = 0]
  OBVIOUS
<1>3. a \in Requester /\ a.value = r.value /\ a.confirmed = r.confirmed /\ a.left = r.left
  BY <1>2
<1>4. /\ [a EXCEPT !.left = l] \in Requester
      /\ [a EXCEPT !.left = l].value = r.value /\ [a EXCEPT !.left = l].confirmed = r.confirmed
  BY <1>1, <1>3
<1>5. Tried(r) = [r EXCEPT !.age = 0, !.left = l]
  BY <1>1, Zenon DEF Tried
<1>6. [r EXCEPT !.age = 0, !.left = l] = [a EXCEPT !.left = l]
  BY <1>2, Zenon
<1> QED BY <1>4, <1>5, <1>6

-----------------------------------------------------------------------------
\* What the logger thread offers is its own SET, or none.
LEMMA TurnHolds ==
  ASSUME CcrInv, TurnStatus \/ TurnGet \/ TurnSet \/ TurnOut
  PROVE CcrInv'
<1>1. UNCHANGED <<toBoard, fromBoard, board, ccrReceived, start, logStarted, logCcr, seen>>
  BY DEF TurnStatus, TurnGet, TurnSet, TurnOut, line, log
<1>2. set' \in Requester /\ set'.value = set.value /\ set'.confirmed = set.confirmed
  <2>1. set' \in {set, Tried(set)}
    BY DEF TurnStatus, TurnGet, TurnSet, TurnOut
  <2>2. set \in Requester
    BY DEF CcrInv, Types
  <2> QED BY <2>1, <2>2, TriedKeeps
<1>3. slot' \in {slot, Other, Get, Set(set.value)}
  BY DEF TurnStatus, TurnGet, TurnSet, TurnOut, Offered
<1>4. slot' \in Sentence /\ (slot'.cmd = "SET" => slot' = slot \/ slot'.ccr = set.value)
  BY <1>3 DEF CcrInv, Types, Other, Get, Set
<1>5. Types'
  BY <1>1, <1>2, <1>4 DEF CcrInv, Types
<1>6. OnlyItsOwn'
  BY <1>1, <1>2, <1>4 DEF CcrInv, OnlyItsOwn, OwnSet
<1>7. RepliesLast' /\ Known'
  BY <1>1, <1>2 DEF CcrInv, RepliesLast, Known
<1>8. Logs'
  BY <1>1, <1>2 DEF CcrInv, Logs, NamesCurrent, FileNamed, Opened
<1> QED BY <1>5, <1>6, <1>7, <1>8 DEF CcrInv

LEMMA CcrSetHolds ==
  ASSUME CcrInv, NEW c \in Ccrs, CcrSet(c)
  PROVE CcrInv'
<1>1. /\ set' = Armed(c) /\ seen' = [seen EXCEPT !.requests = @ + 1, !.stale = ~Clean, !.cut = FALSE]
      /\ UNCHANGED <<slot, toBoard, fromBoard, board, ccrReceived, start, logStarted, logCcr>>
  BY DEF CcrSet, line, log
<1>2. set' \in Requester /\ ~set'.confirmed
  BY <1>1 DEF Armed
<1>3. seen' \in [requests: Nat, stale: BOOLEAN, cut: BOOLEAN] /\ (Alone' => Clean)
  <2>1. PICK b \in BOOLEAN : b = ~Clean
    BY Zenon DEF Clean
  <2>2. seen' = [seen EXCEPT !.requests = @ + 1, !.stale = b, !.cut = FALSE]
    BY <1>1, <2>1, Zenon
  <2>3. seen \in [requests: Nat, stale: BOOLEAN, cut: BOOLEAN] /\ seen.requests + 1 \in Nat
    BY DEF CcrInv, Types
  <2>4. seen' \in [requests: Nat, stale: BOOLEAN, cut: BOOLEAN] /\ seen'.stale = b
    BY <2>2, <2>3, RequestSeen
  <2> QED BY <2>1, <2>4
<1>4. Types'
  BY <1>1, <1>2, <1>3 DEF CcrInv, Types
<1>5. OnlyItsOwn' /\ RepliesLast'
  BY <1>1, <1>3 DEF OnlyItsOwn, OwnSet, RepliesLast, Clean, Empty, Other
<1>6. Known'
  BY <1>2 DEF Known
<1>7. Logs'
  BY <1>1, <1>2, <1>3 DEF CcrInv, Logs, NamesCurrent, FileNamed
<1> QED BY <1>4, <1>5, <1>6, <1>7 DEF CcrInv

LEMMA DrainHolds ==
  ASSUME CcrInv, NEW w \in BOOLEAN, Drain(w)
  PROVE CcrInv'
<1>1. /\ slot' = Empty /\ toBoard' \in {toBoard, Append(toBoard, slot)}
      /\ UNCHANGED <<set, fromBoard, board, ccrReceived, start, logStarted, logCcr, seen>>
  BY DEF Drain, log
<1>2. slot \in Sentence /\ toBoard \in Seq(Sentence) /\ slot' \in Sentence /\ slot'.cmd # "SET"
  BY <1>1 DEF CcrInv, Types, Empty
<1>3. /\ toBoard' \in Seq(Sentence)
      /\ \A i \in 1..Len(toBoard') : toBoard'[i] = slot \/ (i \in 1..Len(toBoard) /\ toBoard'[i] = toBoard[i])
  <2>1. CASE toBoard' = Append(toBoard, slot)
    BY <1>2, <2>1, AppendProperties
  <2>2. CASE toBoard' = toBoard
    BY <1>2, <2>2
  <2> QED BY <1>1, <2>1, <2>2
<1>4. Types'
  BY <1>1, <1>2, <1>3 DEF CcrInv, Types
<1>5. OnlyItsOwn'
  BY <1>1, <1>2, <1>3 DEF CcrInv, OnlyItsOwn, OwnSet
<1>6. RepliesLast' /\ Known' /\ Logs'
  BY <1>1 DEF CcrInv, RepliesLast, Known, Logs, NamesCurrent, FileNamed, Opened
<1> QED BY <1>4, <1>5, <1>6 DEF CcrInv

-----------------------------------------------------------------------------
\* One thread's place in startLogging is set, the other's is left.
LEMMA PlaceSet ==
  ASSUME NEW C, NEW s \in [Threads -> [at: {"no", "asked", "named", "open"}, ccr: C]],
         NEW t \in Threads, NEW a \in {"no", "asked", "named", "open"}, NEW c \in C,
         NEW n, n = [s EXCEPT ![t] = [at |-> a, ccr |-> c]]
  PROVE /\ n \in [Threads -> [at: {"no", "asked", "named", "open"}, ccr: C]]
        /\ n[t].at = a /\ n[t].ccr = c
        /\ \A u \in Threads \ {t} : n[u] = s[u]
<1>1. PICK r : r = [at |-> a, ccr |-> c]
  OBVIOUS
<1>2. r \in [at: {"no", "asked", "named", "open"}, ccr: C] /\ r.at = a /\ r.ccr = c
  BY <1>1
<1>3. n = [s EXCEPT ![t] = r]
  BY <1>1
<1> QED BY <1>2, <1>3

\* Only the note of a late reply changes.
LEMMA CutSet ==
  ASSUME NEW R, NEW s \in [requests: R, stale: BOOLEAN, cut: BOOLEAN], NEW b \in BOOLEAN,
         NEW n, n = [s EXCEPT !.cut = b]
  PROVE /\ n \in [requests: R, stale: BOOLEAN, cut: BOOLEAN]
        /\ n.requests = s.requests /\ n.stale = s.stale /\ n.cut = b
  OBVIOUS

\* What is left of a queue behind its head.
LEMMA TailLeaves ==
  ASSUME NEW S, NEW q \in Seq(S), q # <<>>
  PROVE /\ Head(q) = q[1] /\ 1 \in 1..Len(q) /\ Head(q) \in S
        /\ Tail(q) \in Seq(S)
        /\ \A i \in 1..Len(Tail(q)) : i + 1 \in 1..Len(q) /\ Tail(q)[i] = q[i + 1]
<1>1. Len(q) \in Nat \ {0}
  BY EmptySeq, LenProperties
<1> QED BY <1>1, HeadTailProperties

LEMMA CcrReplyHolds ==
  ASSUME CcrInv, CcrReply
  PROVE CcrInv'
<1> DEFINE ccr == Head(fromBoard)
<1>1. /\ fromBoard # <<>> /\ fromBoard' = Tail(fromBoard) /\ ccrReceived' = ccr
      /\ set' = Answered(set, ccr)
      /\ LogRestarted(~IsFinished(set) /\ logStarted, ccr) /\ start["main"].at = "no"
      /\ UNCHANGED <<slot, toBoard, board, logStarted, logCcr>>
  BY DEF CcrReply, Starting
<1>2. /\ ccr = fromBoard[1] /\ 1 \in 1..Len(fromBoard) /\ fromBoard' \in Seq(Nat)
      /\ \A i \in 1..Len(fromBoard') : i + 1 \in 1..Len(fromBoard) /\ fromBoard'[i] = fromBoard[i + 1]
  BY <1>1, TailLeaves DEF CcrInv, Types
<1>3. set \in Requester /\ set' \in Requester /\ set'.value = set.value
  BY <1>1 DEF CcrInv, Types, Answered
<1>4. set'.confirmed => set.confirmed \/ (~IsFinished(set) /\ ccr = set.value)
  BY <1>1 DEF Answered
<1>a. PICK b \in BOOLEAN : b = (IF set'.confirmed /\ ~set.confirmed THEN NameRead ELSE seen.cut)
  <2>1. NameRead \in BOOLEAN /\ seen.cut \in BOOLEAN
    BY DEF NameRead, CcrInv, Types
  <2> QED BY <2>1
<1>b. seen' = [seen EXCEPT !.cut = b]
  BY <1>1, <1>a, Zenon DEF CcrReply, Cut
<1>d. /\ seen' \in [requests: Nat, stale: BOOLEAN, cut: BOOLEAN]
      /\ seen'.requests = seen.requests /\ seen'.stale = seen.stale /\ seen'.cut = b
  <2>1. seen \in [requests: Nat, stale: BOOLEAN, cut: BOOLEAN]
    BY DEF CcrInv, Types
  <2> QED BY <1>b, <2>1, CutSet
<1>e. /\ start' \in [Threads -> [at: {"no", "asked", "named", "open"}, ccr: Nat]]
      /\ start'["logger"] = start["logger"]
      /\ \/ start'["main"].at = "named" /\ start'["main"].ccr = ccr
         \/ (IsFinished(set) \/ ~logStarted) /\ start' = start
  <2>1. start \in [Threads -> [at: {"no", "asked", "named", "open"}, ccr: Nat]]
    BY DEF CcrInv, Types
  <2>2. CASE (IsFinished(set) \/ ~logStarted) /\ start' = start
    BY <2>1, <2>2
  <2>3. CASE Named("main", ccr)
    <3>1. ccr \in Nat
      BY <1>2 DEF CcrInv, Types
    <3>2. start' = [start EXCEPT !["main"] = [at |-> "named", ccr |-> ccr]]
      BY <2>3 DEF Named
    <3> HIDE DEF ccr
    <3>3. /\ start' \in [Threads -> [at: {"no", "asked", "named", "open"}, ccr: Nat]]
          /\ start'["main"].at = "named" /\ start'["main"].ccr = ccr
          /\ \A u \in Threads \ {"main"} : start'[u] = start[u]
      BY <2>1, <3>1, <3>2, PlaceSet DEF Threads
    <3> QED BY <3>3 DEF Threads
  <2> QED BY <1>1, <2>2, <2>3 DEF LogRestarted
<1>5. Types'
  <2>1. /\ slot \in Sentence /\ toBoard \in Seq(Sentence) /\ board \in Nat /\ logStarted \in BOOLEAN
        /\ fromBoard \in Seq(Nat)
    BY DEF CcrInv, Types
  <2>2. ccr \in Nat
    BY <1>2, <2>1
  <2> HIDE DEF ccr, Sentence, Requester
  <2> QED BY <1>1, <1>2, <1>3, <1>d, <1>e, <2>1, <2>2 DEF Types
<1>6. OnlyItsOwn'
  BY <1>1, <1>3, <1>d DEF CcrInv, OnlyItsOwn, OwnSet
<1> HIDE DEF ccr
<1>7. RepliesLast'
  <2> SUFFICES ASSUME Alone
               PROVE RepliesLast'
    BY <1>d DEF RepliesLast
  <2>1. \A i \in 1..Len(fromBoard') : fromBoard'[i] = set.value => board = set.value
    BY <1>2 DEF CcrInv, RepliesLast
  <2>2. ASSUME NEW i \in 1..Len(fromBoard'), NEW j \in 1..Len(fromBoard'), i <= j,
               fromBoard'[i] = set.value
        PROVE fromBoard'[j] = set.value
    <3>1. i + 1 <= j + 1
      BY <2>2
    <3> QED BY <1>2, <2>2, <3>1 DEF CcrInv, RepliesLast
  <2> QED BY <1>1, <1>3, <2>1, <2>2 DEF RepliesLast
<1>8. Known'
  <2> SUFFICES ASSUME Alone, set'.confirmed
               PROVE /\ board = set.value /\ ccr = set.value
                     /\ \A i \in 1..Len(fromBoard') : fromBoard'[i] = set.value
    BY <1>1, <1>3, <1>d DEF Known
  <2>1. CASE set.confirmed
    BY <1>1, <1>2, <2>1 DEF CcrInv, Known, IsFinished
  <2>2. CASE ~IsFinished(set) /\ ccr = set.value
    <3>1. board = set.value
      BY <1>2, <2>2 DEF CcrInv, RepliesLast
    <3>2. ASSUME NEW i \in 1..Len(fromBoard')
          PROVE fromBoard'[i] = set.value
      <4>1. 1 <= i + 1
        BY <3>2
      <4> QED BY <1>2, <2>2, <4>1 DEF CcrInv, RepliesLast
    <3> QED BY <2>2, <3>1, <3>2
  <2> QED BY <1>4, <2>1, <2>2
<1>9. NamesCurrent'
  <2>1. start'["main"].at = "named" => start'["main"].ccr = ccr
    BY <1>1, <1>e
  <2>2. ASSUME Alone, set'.confirmed, start["logger"].at = "named", ~b
        PROVE start["logger"].ccr = ccr
    <3>1. set.confirmed /\ ~seen.cut
      BY <1>a, <2>2 DEF NameRead
    <3>2. ccr = ccrReceived
      BY <1>2, <2>2, <3>1 DEF CcrInv, Known
    <3> QED BY <2>2, <3>1, <3>2 DEF CcrInv, Logs, NamesCurrent
  <2> QED BY <1>1, <1>d, <1>e, <2>1, <2>2 DEF NamesCurrent
<1>10. FileNamed'
  <2> SUFFICES ASSUME Alone, set'.confirmed, ~seen'.cut, Opened'
               PROVE logCcr' = set.value
    BY <1>3, <1>d DEF FileNamed
  <2>1. start'["main"].at # "named"
    BY DEF Opened, Threads
  <2>2. (IsFinished(set) \/ ~logStarted) /\ start' = start
    BY <1>e, <2>1
  <2>3. Opened
    BY <1>1, <2>2 DEF Opened
  <2>4. CASE set.confirmed
    BY <1>1, <1>a, <1>d, <2>3, <2>4 DEF CcrInv, Logs, FileNamed
  <2>5. CASE ~set.confirmed
    <3>1. ~NameRead /\ ~logStarted
      BY <1>4, <1>a, <1>d, <2>2, <2>5
    <3> QED BY <1>1, <2>3, <3>1 DEF NameRead, Opened, Threads
  <2> QED BY <2>4, <2>5
<1> QED BY <1>5, <1>6, <1>7, <1>8, <1>9, <1>10 DEF CcrInv, Logs

\* The steps of a start, and what begins one, leave the line alone.
LEMMA StartHolds ==
  ASSUME CcrInv, UNCHANGED <<set, slot, toBoard, fromBoard, board, ccrReceived>>,
         start' \in [Threads -> [at: {"no", "asked", "named", "open"}, ccr: Nat]],
         seen' \in [requests: Nat, stale: BOOLEAN, cut: BOOLEAN],
         seen'.requests = seen.requests, seen'.stale = seen.stale,
         logStarted' \in BOOLEAN, Logs'
  PROVE CcrInv'
<1>1. Types'
  BY DEF CcrInv, Types
<1>2. OnlyItsOwn' /\ RepliesLast' /\ Known'
  BY DEF CcrInv, OnlyItsOwn, OwnSet, RepliesLast, Known
<1> QED BY <1>1, <1>2 DEF CcrInv

\* A start begins with the CCR received last.
LEMMA NamedHolds ==
  ASSUME CcrInv, NEW t \in Threads, NEW b \in BOOLEAN, Named(t, ccrReceived),
         seen' = [seen EXCEPT !.cut = b],
         \/ t = "logger" /\ ~b
         \/ t = "main" /\ (~b => ~seen.cut \/ start["logger"].at \notin {"named", "open"}),
         UNCHANGED <<set, slot, toBoard, fromBoard, board, ccrReceived, logStarted, logCcr>>,
         ccrReceived \in Nat
  PROVE CcrInv'
<1>1. /\ start \in [Threads -> [at: {"no", "asked", "named", "open"}, ccr: Nat]]
      /\ seen \in [requests: Nat, stale: BOOLEAN, cut: BOOLEAN] /\ logStarted \in BOOLEAN
  BY DEF CcrInv, Types
<1>2. start' = [start EXCEPT ![t] = [at |-> "named", ccr |-> ccrReceived]]
  BY DEF Named
<1>3. /\ start' \in [Threads -> [at: {"no", "asked", "named", "open"}, ccr: Nat]]
      /\ start'[t].at = "named" /\ start'[t].ccr = ccrReceived
      /\ \A u \in Threads \ {t} : start'[u] = start[u]
  BY <1>1, <1>2, PlaceSet
<1>4. /\ seen' \in [requests: Nat, stale: BOOLEAN, cut: BOOLEAN]
      /\ seen'.requests = seen.requests /\ seen'.stale = seen.stale /\ seen'.cut = b
  BY <1>1, CutSet
<1>5. NamesCurrent'
  BY <1>3, <1>4 DEF CcrInv, Logs, NamesCurrent, Threads
<1>6. FileNamed'
  BY <1>3 DEF FileNamed, Opened
<1> QED BY <1>1, <1>3, <1>4, <1>5, <1>6, StartHolds DEF Logs

LEMMA OpensHolds ==
  ASSUME CcrInv, Opens
  PROVE CcrInv'
<1>1. /\ start \in [Threads -> [at: {"no", "asked", "named", "open"}, ccr: Nat]]
      /\ seen \in [requests: Nat, stale: BOOLEAN, cut: BOOLEAN] /\ logStarted \in BOOLEAN
  BY DEF CcrInv, Types
<1>2. /\ start["logger"].at = "named"
      /\ start' = [start EXCEPT !["logger"] = [at |-> "open", ccr |-> 0]]
      /\ logCcr' = start["logger"].ccr
      /\ UNCHANGED <<set, slot, toBoard, fromBoard, board, ccrReceived, logStarted, seen>>
  BY DEF Opens, line
<1>3. /\ start' \in [Threads -> [at: {"no", "asked", "named", "open"}, ccr: Nat]]
      /\ start'["logger"].at = "open" /\ start'["main"] = start["main"]
  BY <1>1, <1>2, PlaceSet DEF Threads
<1>4. NamesCurrent'
  BY <1>2, <1>3 DEF CcrInv, Logs, NamesCurrent
<1>5. FileNamed'
  <2> SUFFICES ASSUME Alone, set.confirmed, ~seen.cut
               PROVE logCcr' = set.value
    BY <1>2 DEF FileNamed
  <2>1. logCcr' = ccrReceived
    BY <1>2 DEF CcrInv, Logs, NamesCurrent
  <2> QED BY <2>1 DEF CcrInv, Known
<1> QED BY <1>1, <1>2, <1>3, <1>4, <1>5, StartHolds DEF Logs

LEMMA StartsHolds ==
  ASSUME CcrInv, Starts
  PROVE CcrInv'
<1>1. /\ start \in [Threads -> [at: {"no", "asked", "named", "open"}, ccr: Nat]]
      /\ seen \in [requests: Nat, stale: BOOLEAN, cut: BOOLEAN]
  BY DEF CcrInv, Types
<1>2. /\ start["logger"].at = "open" /\ start' = [start EXCEPT !["logger"] = [at |-> "no", ccr |-> 0]]
      /\ logStarted' = TRUE
      /\ UNCHANGED <<set, slot, toBoard, fromBoard, board, ccrReceived, logCcr, seen>>
  BY DEF Starts, line, NotStarting
<1>3. /\ start' \in [Threads -> [at: {"no", "asked", "named", "open"}, ccr: Nat]]
      /\ start'["logger"].at = "no" /\ start'["main"] = start["main"]
  BY <1>1, <1>2, PlaceSet DEF Threads
<1>4. NamesCurrent'
  BY <1>2, <1>3 DEF CcrInv, Logs, NamesCurrent
<1>5. Opened' => Opened
  BY <1>2, <1>3 DEF Opened, Threads
<1>6. FileNamed'
  BY <1>2, <1>5 DEF CcrInv, Logs, FileNamed
<1> QED BY <1>1, <1>2, <1>3, <1>4, <1>6, StartHolds DEF Logs

LEMMA OpensAndStartsHolds ==
  ASSUME CcrInv, OpensAndStarts
  PROVE CcrInv'
<1>1. /\ start \in [Threads -> [at: {"no", "asked", "named", "open"}, ccr: Nat]]
      /\ seen \in [requests: Nat, stale: BOOLEAN, cut: BOOLEAN]
  BY DEF CcrInv, Types
<1>2. /\ start["main"].at = "named" /\ start' = [start EXCEPT !["main"] = [at |-> "no", ccr |-> 0]]
      /\ logCcr' = start["main"].ccr /\ logStarted' = TRUE
      /\ UNCHANGED <<set, slot, toBoard, fromBoard, board, ccrReceived, seen>>
  BY DEF OpensAndStarts, line, NotStarting
<1>3. /\ start' \in [Threads -> [at: {"no", "asked", "named", "open"}, ccr: Nat]]
      /\ start'["main"].at = "no" /\ start'["logger"] = start["logger"]
  BY <1>1, <1>2, PlaceSet DEF Threads
<1>4. NamesCurrent'
  BY <1>2, <1>3 DEF CcrInv, Logs, NamesCurrent
<1>5. FileNamed'
  BY <1>2 DEF CcrInv, Logs, NamesCurrent, Known, FileNamed
<1> QED BY <1>1, <1>2, <1>3, <1>4, <1>5, StartHolds DEF Logs

\* The logger thread asks for a start, or goes on without.
LEMMA TurnArmHolds ==
  ASSUME CcrInv, NEW a \in BOOLEAN, TurnArm(a)
  PROVE CcrInv'
<1>1. /\ start \in [Threads -> [at: {"no", "asked", "named", "open"}, ccr: Nat]]
      /\ seen \in [requests: Nat, stale: BOOLEAN, cut: BOOLEAN] /\ logStarted \in BOOLEAN
  BY DEF CcrInv, Types
<1>2. /\ UNCHANGED <<set, slot, toBoard, fromBoard, board, ccrReceived, logStarted, logCcr, seen>>
      /\ \/ start' = start
         \/ start' = [start EXCEPT !["logger"] = [at |-> "asked", ccr |-> 0]]
  BY DEF TurnArm, line
<1>3. CASE start' = start
  BY <1>1, <1>2, <1>3, StartHolds DEF CcrInv, Logs, NamesCurrent, FileNamed, Opened
<1>4. CASE start' = [start EXCEPT !["logger"] = [at |-> "asked", ccr |-> 0]]
  <2>1. /\ start' \in [Threads -> [at: {"no", "asked", "named", "open"}, ccr: Nat]]
        /\ start'["logger"].at = "asked"
        /\ \A u \in Threads \ {"logger"} : start'[u] = start[u]
    BY <1>1, <1>4, PlaceSet DEF Threads
  <2>2. NamesCurrent' /\ FileNamed'
    BY <1>2, <2>1 DEF CcrInv, Logs, NamesCurrent, FileNamed, Opened, Threads
  <2> QED BY <1>1, <1>2, <2>1, <2>2, StartHolds DEF Logs
<1> QED BY <1>2, <1>3, <1>4

LEMMA LoggingStopHolds ==
  ASSUME CcrInv, LoggingStop
  PROVE CcrInv'
<1>1. /\ logStarted' = FALSE
      /\ UNCHANGED <<set, slot, toBoard, fromBoard, board, ccrReceived, start, logCcr, seen>>
  BY DEF LoggingStop, line
<1>2. Logs'
  BY <1>1 DEF CcrInv, Logs, NamesCurrent, FileNamed, Opened
<1> QED BY <1>1, <1>2, StartHolds DEF CcrInv, Types

-----------------------------------------------------------------------------
\* The board takes its own SET, and answers with what it has then.
LEMMA BoardTakesHolds ==
  ASSUME CcrInv, BoardTakes
  PROVE CcrInv'
<1> DEFINE s == Head(toBoard)
<1>1. /\ toBoard # <<>> /\ toBoard' = Tail(toBoard)
      /\ board' = IF s.cmd = "SET" THEN s.ccr ELSE board
      /\ fromBoard' = fromBoard \/ (s.cmd = "GET" /\ fromBoard' = Append(fromBoard, board))
      /\ UNCHANGED <<set, slot, ccrReceived, start, logStarted, logCcr, seen>>
  BY DEF BoardTakes, log
<1>2. toBoard \in Seq(Sentence) /\ fromBoard \in Seq(Nat) /\ board \in Nat /\ Len(fromBoard) \in Nat
  BY LenProperties DEF CcrInv, Types
<1>3. /\ s = toBoard[1] /\ 1 \in 1..Len(toBoard) /\ s \in Sentence /\ toBoard' \in Seq(Sentence)
      /\ \A i \in 1..Len(toBoard') : i + 1 \in 1..Len(toBoard) /\ toBoard'[i] = toBoard[i + 1]
  <2> HIDE DEF Sentence
  <2> QED BY <1>1, <1>2, TailLeaves
<1>4. /\ fromBoard' \in Seq(Nat)
      /\ \A i \in 1..Len(fromBoard') :
           \/ i \in 1..Len(fromBoard) /\ fromBoard'[i] = fromBoard[i]
           \/ i > Len(fromBoard) /\ fromBoard'[i] = board /\ board' = board
  <2>1. CASE fromBoard' = fromBoard
    BY <1>2, <2>1
  <2>2. CASE s.cmd = "GET" /\ fromBoard' = Append(fromBoard, board)
    BY <1>1, <1>2, <2>2, AppendProperties
  <2> QED BY <1>1, <2>1, <2>2
<1>5. Types'
  <2>1. s.ccr \in Nat
    BY <1>3
  <2>2. board' \in Nat
    BY <1>1, <1>2, <2>1
  <2> QED BY <1>1, <1>3, <1>4, <2>2 DEF CcrInv, Types
<1>6. OnlyItsOwn'
  BY <1>1, <1>3 DEF CcrInv, OnlyItsOwn, OwnSet
<1>7. Alone => board' \in {board, set.value}
  BY <1>1, <1>3 DEF CcrInv, OnlyItsOwn, OwnSet
<1> HIDE DEF s
<1>8. RepliesLast'
  <2> SUFFICES ASSUME Alone
               PROVE RepliesLast'
    BY <1>1 DEF RepliesLast
  <2>1. \A i \in 1..Len(fromBoard') : fromBoard'[i] = set.value => board' = set.value
    BY <1>4, <1>7 DEF CcrInv, RepliesLast
  <2>2. ASSUME NEW i \in 1..Len(fromBoard'), NEW j \in 1..Len(fromBoard'), i <= j,
               fromBoard'[i] = set.value
        PROVE fromBoard'[j] = set.value
    <3>1. CASE j \in 1..Len(fromBoard)
      <4>1. i \in 1..Len(fromBoard)
        BY <1>2, <2>2, <3>1
      <4>2. fromBoard'[i] = fromBoard[i] /\ fromBoard'[j] = fromBoard[j]
        BY <1>2, <1>4, <3>1, <4>1
      <4> QED BY <2>2, <3>1, <4>1, <4>2 DEF CcrInv, RepliesLast
    <3>2. CASE fromBoard'[j] = board /\ board' = board
      BY <2>1, <2>2, <3>2
    <3> QED BY <1>4, <3>1, <3>2
  <2> QED BY <1>1, <2>1, <2>2 DEF RepliesLast
<1>9. Known'
  BY <1>1, <1>4, <1>7 DEF CcrInv, Known
<1>10. Logs'
  BY <1>1 DEF CcrInv, Logs, NamesCurrent, FileNamed, Opened
<1> QED BY <1>5, <1>6, <1>8, <1>9, <1>10 DEF CcrInv

LEMMA LineLosesHolds ==
  ASSUME CcrInv, LineLoses
  PROVE CcrInv'
<1>1. UNCHANGED <<set, slot, board, ccrReceived, start, logStarted, logCcr, seen>>
  BY DEF LineLoses, log
<1>0. Logs'
  BY <1>1 DEF CcrInv, Logs, NamesCurrent, FileNamed, Opened
<1>2. CASE toBoard # <<>> /\ toBoard' = Tail(toBoard) /\ UNCHANGED fromBoard
  <2>1. /\ toBoard' \in Seq(Sentence)
        /\ \A i \in 1..Len(toBoard') : i + 1 \in 1..Len(toBoard) /\ toBoard'[i] = toBoard[i + 1]
    BY <1>2, TailLeaves DEF CcrInv, Types
  <2>2. Types'
    BY <1>1, <1>2, <2>1 DEF CcrInv, Types
  <2>3. OnlyItsOwn' /\ RepliesLast' /\ Known'
    BY <1>1, <1>2, <2>1 DEF CcrInv, OnlyItsOwn, OwnSet, RepliesLast, Known
  <2> QED BY <1>0, <2>2, <2>3 DEF CcrInv
<1>3. CASE fromBoard # <<>> /\ fromBoard' = Tail(fromBoard) /\ UNCHANGED toBoard
  <2>1. /\ fromBoard' \in Seq(Nat)
        /\ \A i \in 1..Len(fromBoard') : i + 1 \in 1..Len(fromBoard) /\ fromBoard'[i] = fromBoard[i + 1]
    BY <1>3, TailLeaves DEF CcrInv, Types
  <2>2. Types'
    BY <1>1, <1>3, <2>1 DEF CcrInv, Types
  <2>3. OnlyItsOwn' /\ Known'
    BY <1>1, <1>3, <2>1 DEF CcrInv, OnlyItsOwn, OwnSet, Known
  <2>4. \A i, j \in 1..Len(fromBoard') : i <= j => i + 1 <= j + 1
    OBVIOUS
  <2>5. RepliesLast'
    BY <1>1, <2>1, <2>4 DEF CcrInv, RepliesLast
  <2> QED BY <1>0, <2>2, <2>3, <2>5 DEF CcrInv
<1> QED BY <1>2, <1>3 DEF LineLoses

LEMMA TickHolds ==
  ASSUME CcrInv, Tick
  PROVE CcrInv'
<1>1. /\ set' = [set EXCEPT !.age = Aged(@, Timeout)] /\ set \in Requester
      /\ UNCHANGED <<slot, toBoard, fromBoard, board, ccrReceived, start, logStarted, logCcr, seen>>
  BY DEF Tick, CcrInv, Types, line, log
<1>2. set' \in Requester /\ set'.value = set.value /\ set'.confirmed = set.confirmed
  BY <1>1 DEF Aged
<1>3. Types'
  BY <1>1, <1>2 DEF CcrInv, Types
<1>4. OnlyItsOwn' /\ RepliesLast' /\ Known' /\ Logs'
  BY <1>1, <1>2 DEF CcrInv, OnlyItsOwn, OwnSet, RepliesLast, Known, Logs, NamesCurrent, FileNamed,
                    Opened
<1> QED BY <1>3, <1>4 DEF CcrInv

LEMMA CcrStep ==
  ASSUME CcrInv, [Next]_vars
  PROVE CcrInv'
<1>1. CASE UNCHANGED vars
  BY <1>1 DEF vars, line, log, CcrInv, Types, OnlyItsOwn, OwnSet, RepliesLast, Known, Logs,
               NamesCurrent, FileNamed, Opened
<1>2. CASE Names \/ LoggingStart
  <2>1. seen.cut \in BOOLEAN /\ UNCHANGED <<set, slot, toBoard, fromBoard, board, ccrReceived, logStarted, logCcr>>
    BY <1>2 DEF Names, LoggingStart, line, CcrInv, Types
  <2>2. PICK b \in BOOLEAN : b = (seen.cut /\ NameRead)
    BY Zenon DEF NameRead
  <2>3. \/ Named("logger", ccrReceived) /\ seen' = [seen EXCEPT !.cut = FALSE]
        \/ Named("main", ccrReceived) /\ seen' = [seen EXCEPT !.cut = b]
    BY <1>2, <2>2, Zenon DEF Names, LoggingStart, Cut
  <2>4. ~b => ~seen.cut \/ start["logger"].at \notin {"named", "open"}
    BY <2>2 DEF NameRead
  <2> QED BY <2>1, <2>3, <2>4, NamedHolds DEF Threads, CcrInv, Types
<1>3. CASE (\E a \in BOOLEAN : TurnArm(a)) \/ Opens \/ Starts \/ OpensAndStarts \/ LoggingStop
  BY <1>3, TurnArmHolds, OpensHolds, StartsHolds, OpensAndStartsHolds, LoggingStopHolds
<1> QED BY <1>1, <1>2, <1>3, TurnHolds, CcrSetHolds, DrainHolds, CcrReplyHolds, BoardTakesHolds,
          LineLosesHolds, TickHolds DEF Next, Turn

LEMMA CcrHolds == Spec => []CcrInv
  BY CcrInit, CcrStep, PTL DEF Spec

-----------------------------------------------------------------------------
\* onNmeaSentenceReceived, $MAG,CCR: a CCR that was asked for with nothing of another
\* request under way, and was confirmed, is the one the board runs with.
THEOREM ConfirmedMeansSet == Spec => []ConfirmedIsSet
<1>1. CcrInv => ConfirmedIsSet
  BY DEF CcrInv, Known, ConfirmedIsSet
<1> QED BY <1>1, CcrHolds, PTL

\* startLogging: and a log that is open is named after it, unless the reply came while the
\* logger thread was at work on that log's start.
THEOREM LogHasConfirmedCcr == Spec => []LogNamedAfterCcr
<1>1. CcrInv => LogNamedAfterCcr
  BY DEF CcrInv, Logs, FileNamed, Opened, Starting, LogNamedAfterCcr
<1> QED BY <1>1, CcrHolds, PTL
-----------------------------------------------------------------------------
\* A sequence that is bounded, for any set and any bound.
LEMMA BoundedIsSeq ==
  ASSUME NEW S, NEW n \in Nat, NEW q
  PROVE q \in BoundedSeq(S, n) <=> q \in Seq(S) /\ Len(q) <= n
<1>1. ASSUME q \in BoundedSeq(S, n)
      PROVE q \in Seq(S) /\ Len(q) <= n
  <2>1. PICK m \in 0..n : q \in [1..m -> S]
    BY <1>1, Zenon DEF BoundedSeq, SeqOf
  <2>2. q \in Seq(S)
    BY <2>1, IsASeq
  <2>3. Len(q) = m
    BY <2>1, <2>2, LenProperties
  <2> QED BY <2>1, <2>2, <2>3
<1>2. ASSUME q \in Seq(S), Len(q) <= n
      PROVE q \in BoundedSeq(S, n)
  <2>1. q \in [1..Len(q) -> S] /\ Len(q) \in Nat
    BY <1>2, LenProperties
  <2>2. Len(q) \in 0..n
    BY <1>2, <2>1
  <2> QED BY <2>1, <2>2, Zenon DEF BoundedSeq, SeqOf
<1> QED BY <1>1, <1>2

\* A bounded queue that has room takes one more, and one that is taken from stays bounded.
LEMMA QueueBounded ==
  ASSUME NEW S, NEW n \in Nat, NEW q \in BoundedSeq(S, n)
  PROVE /\ \A x \in S : Len(q) < n => Append(q, x) \in BoundedSeq(S, n)
        /\ q # <<>> => Head(q) \in S /\ Tail(q) \in BoundedSeq(S, n)
<1>1. q \in Seq(S) /\ Len(q) <= n /\ Len(q) \in Nat
  BY BoundedIsSeq, LenProperties
<1>2. ASSUME NEW x \in S, Len(q) < n
      PROVE Append(q, x) \in BoundedSeq(S, n)
  <2>1. Append(q, x) \in Seq(S) /\ Len(Append(q, x)) = Len(q) + 1
    BY <1>1, AppendProperties
  <2>2. Len(Append(q, x)) <= n
    BY <1>1, <1>2, <2>1
  <2> QED BY <2>1, <2>2, BoundedIsSeq
<1>3. ASSUME q # <<>>
      PROVE Head(q) \in S /\ Tail(q) \in BoundedSeq(S, n)
  <2>1. Head(q) \in S /\ Tail(q) \in Seq(S) /\ Len(Tail(q)) = Len(q) - 1
    BY <1>1, <1>3, HeadTailProperties, TailLeaves
  <2>2. Len(Tail(q)) <= n
    BY <1>1, <2>1
  <2> QED BY <2>1, <2>2, BoundedIsSeq
<1> QED BY <1>2, <1>3

Counts == Ccrs \cup {NoCcr}
OnWire == Sentences \ {Empty, Other}
Places == [at: {"no", "asked", "named", "open"}, ccr: Counts]
USE DEF Counts, OnWire, Places

\* The requesters keep their counts of tries and their ages, whatever is done to them.
LEMMA RequesterKept ==
  ASSUME NEW r \in Requesters
  PROVE /\ \A c \in Counts : Armed(c) \in Requesters
        /\ Tried(r) \in Requesters
        /\ \A c \in Counts : Answered(r, c) \in Requesters
        /\ [r EXCEPT !.age = Aged(@, Timeout)] \in Requesters
<1>1. r.left \in 0..Tries /\ r.age \in 0..Timeout
  BY DEF Requesters
<1>2. \A c \in Counts : Armed(c) \in Requesters
  BY DEF Armed, Requesters
<1>3. Tried(r) \in Requesters
  <2>1. Stored(r.left, r.left) \in 0..Tries
    BY <1>1 DEF Stored
  <2>2. PICK l \in 0..Tries : l = Stored(r.left, r.left)
    BY <2>1
  <2>3. PICK a : a = [r EXCEPT !.age = 0]
    OBVIOUS
  <2>4. a \in Requesters /\ a.left = r.left
    BY <2>3 DEF Requesters
  <2>5. Tried(r) = [a EXCEPT !.left = l]
    BY <2>2, <2>3, Zenon DEF Tried
  <2>6. [a EXCEPT !.left = l] \in Requesters
    BY <2>4 DEF Requesters
  <2> QED BY <2>5, <2>6
<1>4. \A c \in Counts : Answered(r, c) \in Requesters
  BY DEF Answered, Requesters
<1>5. [r EXCEPT !.age = Aged(@, Timeout)] \in Requesters
  <2>1. Aged(r.age, Timeout) \in 0..Timeout
    BY <1>1 DEF Aged
  <2>2. PICK a \in 0..Timeout : a = Aged(r.age, Timeout)
    BY <2>1
  <2>3. [r EXCEPT !.age = Aged(@, Timeout)] = [r EXCEPT !.age = a]
    BY <2>2, Zenon
  <2>4. [r EXCEPT !.age = a] \in Requesters
    BY DEF Requesters
  <2> QED BY <2>3, <2>4
<1> QED BY <1>2, <1>3, <1>4, <1>5

\* Only a SET for a CCR that was asked for has tries left.
CcrTypes == TypeOK /\ (~IsFinished(set) => set.value \in Ccrs)

LEMMA CcrTypesInit == Init => CcrTypes
<1> SUFFICES ASSUME Init PROVE CcrTypes
  OBVIOUS
<1>1. get \in Requesters /\ set \in Requesters
  BY DEF Init, Requesters
<1>2. toBoard \in BoundedSeq(OnWire, MaxWire) /\ fromBoard \in BoundedSeq(Counts, MaxWire)
  <2>1. toBoard = <<>> /\ fromBoard = <<>> /\ Len(<<>>) = 0
    BY DEF Init
  <2>2. toBoard \in Seq(OnWire) /\ fromBoard \in Seq(Counts)
    BY <2>1, EmptySeq
  <2>3. Len(toBoard) <= MaxWire /\ Len(fromBoard) <= MaxWire
    BY <2>1
  <2> QED BY <2>2, <2>3, BoundedIsSeq
<1>3. seen \in [requests: 0..MaxRequests, stale: BOOLEAN, cut: BOOLEAN] /\ start \in [Threads -> Places]
  BY DEF Init, NotStarting
<1>4. set.left = 0 /\ IsFinished(set)
  BY DEF Init, IsFinished
<1>5. /\ slot \in Sentences /\ turn \in {"arm", "status", "get", "set", "out"}
      /\ board \in Counts /\ ccrReceived \in Counts /\ logStarted \in BOOLEAN /\ logCcr \in Counts
  <2>1. slot = Empty /\ turn = "arm" /\ ccrReceived = NoCcr /\ logCcr = NoCcr
    BY DEF Init
  <2>2. board \in Counts /\ logStarted \in BOOLEAN
    BY DEF Init
  <2> QED BY <2>1, <2>2 DEF Sentences
<1> QED BY <1>1, <1>2, <1>3, <1>4, <1>5 DEF CcrTypes, TypeOK

LEMMA CcrTypesStep == CcrTypes /\ [Next]_vars => CcrTypes'
<1> SUFFICES ASSUME CcrTypes, [Next]_vars PROVE CcrTypes'
  OBVIOUS
<1>0. /\ get \in Requesters /\ set \in Requesters /\ start \in [Threads -> Places]
      /\ seen \in [requests: 0..MaxRequests, stale: BOOLEAN, cut: BOOLEAN]
      /\ slot \in Sentences /\ board \in Counts /\ ccrReceived \in Counts /\ logCcr \in Counts
      /\ toBoard \in BoundedSeq(OnWire, MaxWire) /\ fromBoard \in BoundedSeq(Counts, MaxWire)
  BY DEF CcrTypes, TypeOK
<1>1. CASE TurnStatus \/ TurnGet \/ TurnSet \/ TurnOut
  <2>1. UNCHANGED <<toBoard, fromBoard, board, ccrReceived, start, logStarted, logCcr, seen>>
    BY <1>1 DEF TurnStatus, TurnGet, TurnSet, TurnOut, line, log
  <2>2. get' \in {get, Tried(get)} /\ set' \in {set, Tried(set)}
    BY <1>1 DEF TurnStatus, TurnGet, TurnSet, TurnOut
  <2>3. get' \in Requesters /\ set' \in Requesters
    BY <1>0, <2>2, RequesterKept
  <2>4. slot' \in {slot, Other, Get, Set(set.value)}
    BY <1>1 DEF TurnStatus, TurnGet, TurnSet, TurnOut, Offered
  <2>5. slot' = Set(set.value) /\ slot' \notin {slot, Other, Get} => ~IsFinished(set)
    BY <1>1 DEF TurnStatus, TurnGet, TurnSet, TurnOut, Offered, IsDue
  <2>6. slot' \in Sentences
    BY <1>0, <2>4, <2>5 DEF CcrTypes, Sentences
  <2>7. ~IsFinished(set') => set'.value \in Ccrs
    <3>1. set' = set \/ ~IsFinished(set)
      BY <1>1 DEF TurnStatus, TurnGet, TurnSet, TurnOut, IsDue
    <3>2. Tried(set).value = set.value
      BY <1>0 DEF Tried, Requesters
    <3> QED BY <2>2, <3>1, <3>2 DEF CcrTypes
  <2>8. turn' \in {"arm", "status", "get", "set", "out"}
    BY <1>0, <1>1 DEF TurnStatus, TurnGet, TurnSet, TurnOut
  <2> QED BY <2>1, <2>3, <2>6, <2>7, <2>8 DEF CcrTypes, TypeOK
<1>2. ASSUME NEW c \in Ccrs, CcrSet(c)
      PROVE CcrTypes'
  <2>1. get' \in Requesters /\ set' \in Requesters
    BY <1>0, <1>2, RequesterKept DEF CcrSet
  <2>2. seen' \in [requests: 0..MaxRequests, stale: BOOLEAN, cut: BOOLEAN]
    <3>1. PICK b \in BOOLEAN : b = ~Clean
      BY Zenon DEF Clean
    <3>2. seen' = [seen EXCEPT !.requests = @ + 1, !.stale = b, !.cut = FALSE]
      BY <1>2, <3>1, Zenon DEF CcrSet
    <3>3. seen.requests + 1 \in 0..MaxRequests
      BY <1>0, <1>2 DEF CcrSet
    <3> QED BY <1>0, <3>2, <3>3, RequestSeen
  <2>3. set'.value \in Ccrs
    BY <1>2 DEF CcrSet, Armed
  <2> QED BY <1>2, <2>1, <2>2, <2>3 DEF CcrSet, CcrTypes, TypeOK, line, log
<1>3. ASSUME NEW w \in BOOLEAN, Drain(w)
      PROVE CcrTypes'
  <2>1. slot' \in Sentences
    BY <1>3 DEF Drain, Sentences
  <2>2. toBoard' \in BoundedSeq(OnWire, MaxWire)
    <3>1. \/ UNCHANGED toBoard
          \/ slot \in OnWire /\ Len(toBoard) < MaxWire /\ toBoard' = Append(toBoard, slot)
      BY <1>0, <1>3 DEF Drain
    <3>2. \A s \in OnWire : Len(toBoard) < MaxWire => Append(toBoard, s) \in BoundedSeq(OnWire, MaxWire)
      <4>1. MaxWire \in Nat /\ toBoard \in BoundedSeq(OnWire, MaxWire)
        BY <1>0
      <4> HIDE DEF OnWire
      <4> QED BY <4>1, QueueBounded
    <3> QED BY <1>0, <3>1, <3>2
  <2> QED BY <1>3, <2>1, <2>2 DEF Drain, CcrTypes, TypeOK, log
<1>4. CASE CcrReply
  <2>1. PICK c : c = Head(fromBoard)
    OBVIOUS
  <2>2. c \in Counts /\ fromBoard' \in BoundedSeq(Counts, MaxWire)
    BY <1>0, <1>4, <2>1, QueueBounded DEF CcrReply
  <2>3. set' = Answered(set, c) /\ ccrReceived' = c /\ get' = GetAfterReply(set')
    BY <1>4, <2>1 DEF CcrReply
  <2>4. get' \in {Answered(get, NoCcr), Armed(NoCcr)}
    BY <2>3 DEF GetAfterReply
  <2>5. set' \in Requesters /\ get' \in Requesters
    <3>1. Answered(set, c) \in Requesters
      BY <1>0, <2>2, RequesterKept
    <3>2. Answered(get, NoCcr) \in Requesters /\ Armed(NoCcr) \in Requesters
      BY <1>0, RequesterKept
    <3> QED BY <2>3, <2>4, <3>1, <3>2
  <2>6. UNCHANGED <<turn, slot, toBoard, board, logStarted, logCcr>>
    BY <1>4 DEF CcrReply
  <2>7. ~IsFinished(set') => set'.value \in Ccrs
    BY <1>0, <2>3 DEF CcrTypes, Answered, IsFinished, Requesters
  <2>8. start' = start \/ start' = [start EXCEPT !["main"] = [at |-> "named", ccr |-> c]]
    BY <1>4, <2>1 DEF CcrReply, LogRestarted, Named
  <2>9. start' \in [Threads -> Places]
    BY <1>0, <2>2, <2>8, PlaceSet DEF Threads
  <2>10. seen' \in [requests: 0..MaxRequests, stale: BOOLEAN, cut: BOOLEAN]
    <3>1. seen' = [seen EXCEPT !.cut = NameRead] \/ seen' = [seen EXCEPT !.cut = seen.cut]
      BY <1>4, Zenon DEF CcrReply, Cut
    <3>2. NameRead \in BOOLEAN /\ seen.cut \in BOOLEAN
      BY <1>0 DEF NameRead
    <3>3. PICK b \in BOOLEAN : seen' = [seen EXCEPT !.cut = b]
      <4> HIDE DEF NameRead
      <4> QED BY <3>1, <3>2
    <3> QED BY <1>0, <3>3, CutSet
  <2> QED BY <1>0, <2>2, <2>3, <2>5, <2>6, <2>7, <2>9, <2>10 DEF CcrTypes, TypeOK
<1>5. CASE LoggingStop
  BY <1>5 DEF LoggingStop, CcrTypes, TypeOK, line
<1>10. CASE Names \/ LoggingStart
  <2>1. /\ start' = [start EXCEPT !["logger"] = [at |-> "named", ccr |-> ccrReceived]]
           \/ start' = [start EXCEPT !["main"] = [at |-> "named", ccr |-> ccrReceived]]
        /\ UNCHANGED <<get, set, turn, slot, toBoard, fromBoard, board, ccrReceived, logStarted, logCcr>>
    BY <1>10 DEF Names, LoggingStart, Named, line
  <2>2. start' \in [Threads -> Places]
    BY <1>0, <2>1, PlaceSet DEF Threads
  <2>3. seen' = [seen EXCEPT !.cut = FALSE] \/ seen' = [seen EXCEPT !.cut = seen.cut /\ NameRead]
    BY <1>10, Zenon DEF Names, LoggingStart, Cut
  <2>4. PICK b \in BOOLEAN : seen' = [seen EXCEPT !.cut = b]
    BY <2>3, Zenon DEF NameRead
  <2>5. seen' \in [requests: 0..MaxRequests, stale: BOOLEAN, cut: BOOLEAN]
    BY <1>0, <2>4, CutSet
  <2> QED BY <2>1, <2>2, <2>5 DEF CcrTypes, TypeOK
<1>11. CASE Opens \/ Starts \/ OpensAndStarts
  <2>1. PICK t \in Threads :
          /\ start' = [start EXCEPT ![t] = [at |-> "open", ccr |-> NoCcr]]
             \/ start' = [start EXCEPT ![t] = [at |-> "no", ccr |-> NoCcr]]
          /\ UNCHANGED <<get, set, turn, slot, toBoard, fromBoard, board, ccrReceived, seen>>
          /\ logCcr' = logCcr \/ logCcr' = start[t].ccr
          /\ logStarted' = logStarted \/ logStarted' = TRUE
    BY <1>11 DEF Opens, Starts, OpensAndStarts, NotStarting, line, Threads
  <2>2. start' \in [Threads -> Places]
    <3>1. NoCcr \in Counts /\ start \in [Threads -> Places]
      BY <1>0
    <3>2. PICK a \in {"no", "asked", "named", "open"} : start' = [start EXCEPT ![t] = [at |-> a, ccr |-> NoCcr]]
      BY <2>1
    <3> QED BY <3>1, <3>2, PlaceSet
  <2>3. logCcr' \in Counts
    BY <1>0, <2>1
  <2> QED BY <2>1, <2>2, <2>3 DEF CcrTypes, TypeOK
<1>12. ASSUME NEW a \in BOOLEAN, TurnArm(a)
       PROVE CcrTypes'
  <2>1. /\ start' = start \/ start' = [start EXCEPT !["logger"] = [at |-> "asked", ccr |-> NoCcr]]
        /\ UNCHANGED <<get, set, slot, toBoard, fromBoard, board, ccrReceived, logStarted, logCcr, seen>>
        /\ turn' = "status"
    BY <1>12 DEF TurnArm, line
  <2>2. start' \in [Threads -> Places]
    BY <1>0, <2>1, PlaceSet DEF Threads
  <2> QED BY <2>1, <2>2 DEF CcrTypes, TypeOK
<1>6. CASE BoardTakes
  <2>1. PICK s : s = Head(toBoard)
    OBVIOUS
  <2>2. s \in OnWire /\ toBoard' \in BoundedSeq(OnWire, MaxWire)
    BY <1>0, <1>6, <2>1, QueueBounded DEF BoardTakes
  <2>3. s.ccr \in Counts
    BY <2>2 DEF Sentences, Empty, Get, Other, Set
  <2>4. board' \in Counts
    BY <1>0, <1>6, <2>1, <2>3 DEF BoardTakes
  <2>5. fromBoard' \in BoundedSeq(Counts, MaxWire)
    <3> HIDE DEF Counts
    <3>1. \/ UNCHANGED fromBoard
          \/ Len(fromBoard) < MaxWire /\ fromBoard' = Append(fromBoard, board)
      BY <1>6 DEF BoardTakes
    <3>2. MaxWire \in Nat /\ fromBoard \in BoundedSeq(Counts, MaxWire) /\ board \in Counts
      BY <1>0
    <3>3. Len(fromBoard) < MaxWire => Append(fromBoard, board) \in BoundedSeq(Counts, MaxWire)
      BY <3>2, QueueBounded
    <3> QED BY <3>1, <3>2, <3>3
  <2> QED BY <1>6, <2>2, <2>4, <2>5 DEF BoardTakes, CcrTypes, TypeOK, log
<1>7. CASE LineLoses
  <2>1. toBoard' \in BoundedSeq(OnWire, MaxWire) /\ fromBoard' \in BoundedSeq(Counts, MaxWire)
    <3> HIDE DEF Counts, OnWire
    <3>1. MaxWire \in Nat /\ toBoard \in BoundedSeq(OnWire, MaxWire) /\ fromBoard \in BoundedSeq(Counts, MaxWire)
      BY <1>0
    <3>2. toBoard # <<>> => Tail(toBoard) \in BoundedSeq(OnWire, MaxWire)
      BY <3>1, QueueBounded
    <3>3. fromBoard # <<>> => Tail(fromBoard) \in BoundedSeq(Counts, MaxWire)
      BY <3>1, QueueBounded
    <3> QED BY <1>7, <3>1, <3>2, <3>3 DEF LineLoses
  <2> QED BY <1>7, <2>1 DEF LineLoses, CcrTypes, TypeOK, log
<1>8. CASE Tick
  <2>1. get' \in Requesters /\ set' \in Requesters
    BY <1>0, <1>8, RequesterKept DEF Tick
  <2>3. set'.value = set.value /\ set'.left = set.left /\ set'.confirmed = set.confirmed
    BY <1>0, <1>8 DEF Tick, Requesters
  <2> QED BY <1>8, <2>1, <2>3 DEF Tick, CcrTypes, TypeOK, IsFinished, line, log
<1>9. CASE UNCHANGED vars
  BY <1>9 DEF vars, CcrTypes, TypeOK, line, log
<1> QED BY <1>1, <1>2, <1>3, <1>4, <1>5, <1>6, <1>7, <1>8, <1>9, <1>10, <1>11, <1>12 DEF Next, Turn

\* CommandRequester and NmeaSentenceReader::send: no requester's count or stamp leaves its range,
\* and what waits in the buffer or is under way is one of the sentences the senders offer; no
\* SET is for a CCR that was not asked for.
THEOREM TypeCorrect == Spec => []TypeOK
<1>1. CcrTypes => TypeOK
  BY DEF CcrTypes
<1> QED BY <1>1, CcrTypesInit, CcrTypesStep, PTL DEF Spec
=============================================================================
