------------------------------ MODULE MavLink ------------------------------
(***************************************************************************)
(* MavlinkProvider (src/src/mav/mavlink_provider.cpp) over its connection:  *)
(* the logger's and the GPS thread's messages and the main thread's own     *)
(* answers go on one queue under sendMutex; a turn of the main thread       *)
(* serves the board, reads from the plane, and sends one message.           *)
(*                                                                          *)
(* The connection is a serial port (com_connection.cpp) or a socket         *)
(* (tcp_connection.cpp).  main.cpp connects once, before the first turn:    *)
(*   "down"     isConnected() is false, for good                            *)
(*   "up"       connected                                                   *)
(*   "refused"  TCP: the socket is there and connect() failed, which        *)
(*              isConnected() does not tell from "up"                       *)
(*   "closed"   TCP: the plane has closed it, which nobody notices, either  *)
(* A write to the last two raises SIGPIPE, and sigpipeHandler exits.        *)
(*                                                                          *)
(* What a message says is left out; what its bytes may do to the receiver's *)
(* parser is MavFrame.  They are fixed when it is sent, since nobody looks  *)
(* at them before; the receiver has taken them all before the next write.   *)
(***************************************************************************)
EXTENDS MavFrame, FiniteSets

CONSTANTS
  Senders,      \* the threads that send, but the main one
  Kinds,        \* "com", "tcp": mavlink/connection/type
  Lengths,      \* of payloads
  Cuts,         \* bytes of a struct that an incomplete write may have taken
  MaxMessages,  \* bound: messages given
  MaxFailures   \* bound: writes that take less than the struct

Main == "main"

ASSUME MavLinkAssumption ==
  /\ Kinds \subseteq {"com", "tcp"} /\ Main \notin Senders
  /\ Lengths \subseteq Byte /\ Cuts \subseteq 0..(StructSize - 1)
  /\ MaxMessages \in Nat /\ MaxFailures \in Nat

VARIABLES
  messagesToSend,  \* the queue; messages are numbered as they come
  mutex,           \* sendMutex: who holds it, or "free"
  waiting,         \* threads in send(), before the mutex
  pc,              \* main thread: serving the "board", in processRead, before or in processSend
  conn,            \* the connection
  inbox,           \* bytes of the plane wait to be read
  parser,          \* the receiver's parser
  exited,          \* exit(0)
  history          \* messages given and arrived; failed writes; the latest write: was it
                   \* whole, without a marker outside its magic, did its message arrive,
                   \* and was the one before it whole and without a marker?

vars == <<messagesToSend, mutex, waiting, pc, conn, inbox, parser, exited, history>>

Message == 1..MaxMessages
States == {"down", "up", "refused", "closed"}

TypeOK ==
  /\ messagesToSend \in Seq(Message)
  /\ mutex \in {"free", Main} /\ waiting \subseteq Senders
  /\ pc \in {"board", "read", "lock", "write"}
  /\ conn.kind \in Kinds /\ conn.state \in States
  /\ inbox \in BOOLEAN /\ exited \in BOOLEAN
  /\ parser \in Parsers
  /\ history.given \in 0..MaxMessages /\ history.failures \in 0..MaxFailures

\* createConnection: a serial port that does not open leaves no descriptor that
\* counts, a socket that does not connect does.
Connections ==
  [kind: Kinds, state: {"down", "up"}] \cup [kind: Kinds \cap {"tcp"}, state: {"refused"}]

Init ==
  /\ messagesToSend = <<>> /\ mutex = "free" /\ waiting = {}
  /\ pc = "board" /\ conn \in Connections /\ inbox = FALSE
  /\ parser = Idle /\ exited = FALSE
  /\ history = [given |-> 0, arrived |-> <<>>, failures |-> 0,
                clean |-> TRUE, hit |-> TRUE, before |-> TRUE]

IsConnected == conn.state # "down"
Up == conn.state = "up"

-----------------------------------------------------------------------------
(***************************************************************************)
(* send().                                                                  *)
(***************************************************************************)
Room == history.given + Cardinality(waiting) < MaxMessages

Push ==
  /\ history' = [history EXCEPT !.given = @ + 1]
  /\ messagesToSend' = Append(messagesToSend, history'.given)

\* A thread builds a message and calls send().
CallSend(t) ==
  /\ ~exited /\ t \notin waiting /\ Room
  /\ waiting' = waiting \cup {t}
  /\ UNCHANGED <<messagesToSend, mutex, pc, conn, inbox, parser, exited, history>>

PushBack(t) ==
  /\ ~exited /\ t \in waiting /\ mutex = "free"
  /\ Push
  /\ waiting' = waiting \ {t}
  /\ UNCHANGED <<mutex, pc, conn, inbox, parser, exited>>

-----------------------------------------------------------------------------
(***************************************************************************)
(* A turn of the main thread: nmeaSentenceReader.process, then process.     *)
(***************************************************************************)
\* Fault: the mutex is taken for the whole of process().
BoardUnderLock ==
  /\ ~exited /\ pc = "board" /\ IsConnected
  /\ mutex' = Main /\ pc' = "read"
  /\ UNCHANGED <<messagesToSend, waiting, conn, inbox, parser, exited, history>>
Board ==
  /\ ~exited /\ pc = "board"
  /\ pc' = IF IsConnected THEN "read" ELSE "board"
  /\ UNCHANGED <<messagesToSend, mutex, waiting, conn, inbox, parser, exited, history>>

\* Fault: the serial port, too, is read until something comes.
ReadWaits == inbox \/ conn.state \in {"refused", "closed"}
\* When connection->read returns: a serial port does in VTIME at the latest, a
\* socket when there is something to read, or nothing ever will be.
ReadReturns == conn.kind = "com" \/ inbox \/ conn.state \in {"refused", "closed"}

\* What was read is handled; a COMMAND_LONG is answered at once.
\* Fault: process() ends when there was nothing to read.
ProcessReadEnds ==
  /\ ~exited /\ pc = "read" /\ ReadReturns
  /\ inbox' = FALSE
  /\ \/ UNCHANGED <<messagesToSend, history>>
     \/ inbox /\ Room /\ Push
  /\ pc' = IF inbox THEN "lock" ELSE "board"
  /\ UNCHANGED <<mutex, waiting, conn, parser, exited>>
ProcessRead ==
  /\ ~exited /\ pc = "read" /\ ReadReturns
  /\ inbox' = FALSE
  /\ \/ UNCHANGED <<messagesToSend, history>>
     \/ inbox /\ Room /\ Push
  /\ pc' = "lock"
  /\ UNCHANGED <<mutex, waiting, conn, parser, exited>>

Lock ==
  /\ ~exited /\ pc = "lock" /\ mutex = "free"
  /\ IF messagesToSend = <<>>
     THEN pc' = "board" /\ UNCHANGED mutex
     ELSE pc' = "write" /\ mutex' = Main
  /\ UNCHANGED <<messagesToSend, waiting, conn, inbox, parser, exited, history>>

\* After the write, whatever it returned.
\* Fault: a message that was not sent whole is sent again.
PopSent(whole) ==
  /\ messagesToSend' = IF whole THEN Tail(messagesToSend) ELSE messagesToSend
  /\ mutex' = "free" /\ pc' = "board"
  /\ UNCHANGED <<waiting, conn, inbox>>
Pop(whole) ==
  /\ messagesToSend' = Tail(messagesToSend)
  /\ mutex' = "free" /\ pc' = "board"
  /\ UNCHANGED <<waiting, conn, inbox>>

\* How many bytes of the struct are written.
Written ==
  IF history.failures < MaxFailures THEN Cuts \cup {StructSize} ELSE {StructSize}

\* The structs there are: of any bytes, or without a marker outside their magic.
Contents == [len: Lengths, clean: BOOLEAN]
Possible(c) == c.clean => c.len \notin Markers
Bytes(c) == Struct(c.len, IF c.clean THEN Byte \ Markers ELSE Byte)

\* What the first n bytes of each may make of a parser.
Outcome(p) ==
  UNION {{[clean |-> c.clean /\ n = StructSize, n |-> n, to |-> o.parser, got |-> o.got] :
            o \in Outcomes(p, SubSeq(Bytes(c), 1, n))} :
         c \in {d \in Contents : Possible(d)}, n \in Cuts \cup {StructSize}}
Receipts == {[from |-> p, outcome |-> Outcome(p)] : p \in Parsers}

WriteUp ==
  /\ ~exited /\ pc = "write" /\ Up
  /\ \E t \in Receipts : t.from = parser /\ \E r \in t.outcome :
       /\ r.n \in Written
       /\ parser' = r.to
       /\ history' = [history EXCEPT
            !.arrived = IF r.got THEN Append(@, Head(messagesToSend)) ELSE @,
            !.failures = IF r.n < StructSize THEN @ + 1 ELSE @,
            !.clean = r.clean, !.hit = r.got, !.before = history.clean]
       /\ Pop(r.n = StructSize)
  /\ UNCHANGED exited

\* The plane's end is gone: the first write may still be taken.
WriteNowhere ==
  /\ ~exited /\ pc = "write" /\ conn.state \in {"refused", "closed"}
  /\ \/ exited' = TRUE /\ UNCHANGED <<messagesToSend, mutex, waiting, pc, conn, inbox>>
     \/ conn.state = "closed" /\ history.failures < MaxFailures
        /\ Pop(TRUE) /\ UNCHANGED exited
  /\ history' = [history EXCEPT !.failures = IF exited' THEN @ ELSE @ + 1]
  /\ UNCHANGED parser

MainThread == Board \/ ProcessRead \/ Lock \/ WriteUp \/ WriteNowhere

-----------------------------------------------------------------------------
PlaneTalks ==
  /\ Up /\ inbox' = TRUE
  /\ UNCHANGED <<messagesToSend, mutex, waiting, pc, conn, parser, exited, history>>

PlaneCloses ==
  /\ conn.kind = "tcp" /\ Up
  /\ conn' = [conn EXCEPT !.state = "closed"]
  /\ UNCHANGED <<messagesToSend, mutex, waiting, pc, inbox, parser, exited, history>>

Next ==
  \/ MainThread \/ PlaneTalks \/ PlaneCloses
  \/ \E t \in Senders : CallSend(t) \/ PushBack(t)

Spec == Init /\ [][Next]_vars

\* The main thread goes on, so the line takes what is written to it, and a thread
\* before a mutex that is free again and again gets it.  Nothing is owed by the
\* plane.
FairSpec ==
  Spec /\ WF_vars(MainThread) /\ \A t \in Senders : SF_vars(PushBack(t))

-----------------------------------------------------------------------------
\* To its callers the provider is a fifo that may lose messages: whatever the
\* connection does and whatever is written in part, none comes in twice or before
\* one that was given earlier.
Fifo == INSTANCE LossyFifo WITH waiting <- messagesToSend, arrived <- history.arrived
IsFifo == Fifo!Spec

\* A struct that looks like the beginning of a frame where there is none may cost
\* that message and the next, never one more: of two structs in a row that were
\* written whole and have no such byte, the second one's message arrives.
DamageIsLocal == history.clean /\ history.before => history.hit

\* No thread is kept in send(): the mutex is never held while the plane is
\* waited for.
SendersReturn == \A t \in Senders : (t \in waiting) ~> (t \notin waiting \/ exited)

\* Over TCP a plane that keeps the connection and says nothing holds the main
\* thread in recv().
Silent == conn.kind = "tcp" /\ Up /\ ~inbox

\* Unless the plane is silent like that for good, a message that waits on a
\* connection leaves, whatever others are given meanwhile ...
Waits(m) == m \in Range(messagesToSend)
QueueMoves ==
  <>[]Silent \/ \A m \in Message : (IsConnected /\ Waits(m)) ~> (~Waits(m) \/ exited)

\* ... and the board, which the same thread serves, has its turn again and again.
BoardServed == <>[]Silent \/ []<>(pc = "board" \/ exited)
=============================================================================
