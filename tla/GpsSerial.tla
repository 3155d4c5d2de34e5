----------------------------- MODULE GpsSerial -----------------------------
(***************************************************************************)
(* The serial line to the GPS module: ComConnection                         *)
(* (src/src/connection/com_connection.{h,cpp}) under GpsInputTask, which    *)
(* opens it at the module's first baud, moves the module and then the line  *)
(* to the operating baud, and sends the rest of the configuration           *)
(* (gps_input_task.cpp: loop, configureUblox).                              *)
(*                                                                          *)
(* One thread; system calls may fail and the module may lose its power at   *)
(* any step.  A frame is heard when line and module have the same baud; the *)
(* module answers nothing the code waits for.  The eight CFG-MSG frames are *)
(* one setting.  Reconnecting is throttled by the very time loop() sleeps,  *)
(* so the throttle is left out.                                             *)
(***************************************************************************)
EXTENDS Naturals, FiniteSets

CONSTANTS
  Initial,    \* gps/initialBaud: the port is opened at it, modules power up at it
  Target,     \* gps/connection/port: the operating baud
  Configure,  \* gps/configure
  GpsOnly,    \* gps/gpsOnly
  MaxFaults,  \* bound: system calls that fail
  MaxResets   \* bound: times the module loses its power

NoBaud == 0

ASSUME GpsSerialAssumption ==
  /\ Initial \in Nat \ {NoBaud} /\ Target \in Nat \ {NoBaud}
  /\ Configure \in BOOLEAN /\ GpsOnly \in BOOLEAN
  /\ MaxFaults \in Nat /\ MaxResets \in Nat

VARIABLES
  fd,           \* "none": negative; "open"; "closed": it names a closed descriptor
  descriptors,  \* descriptors the process holds
  attribsSet,   \* connectionResult == 0
  currentBaud,  \* currentBaud
  line,         \* the baud the tty is set to
  configured,   \* configured
  pc,           \* where configureUblox is; "loop": in loop()
  hears,        \* the last read of loop() had sentences
  module,       \* the module: its baud and the settings it was given
  faults,       \* system calls that have failed
  resets,       \* times the module has lost its power
  tally         \* history: failed setPorts; since the latest configuration began:
                \* a frame not written, the module reset

vars == <<fd, descriptors, attribsSet, currentBaud, line, configured, pc, hears,
          module, faults, resets, tally>>

Bauds == {Initial, Target}
Settings == {"MSG", "RATE"} \cup IF GpsOnly THEN {"GNSS"} ELSE {}
Steps == Settings \cup {"PRT", "PORT"}

TypeOK ==
  /\ fd \in {"none", "open", "closed"}
  /\ descriptors \in Nat
  /\ attribsSet \in BOOLEAN /\ configured \in BOOLEAN /\ hears \in BOOLEAN
  /\ currentBaud \in Bauds \cup {NoBaud} /\ line \in Bauds \cup {NoBaud}
  /\ pc \in Steps \cup {"loop"}
  /\ module \in [baud: Bauds, settings: SUBSET Settings]
  /\ faults \in 0..MaxFaults /\ resets \in 0..MaxResets
  /\ tally \in [ports: 0..MaxFaults, lost: BOOLEAN, reset: BOOLEAN]

Init ==
  /\ fd = "none" /\ descriptors = 0 /\ attribsSet = FALSE
  /\ currentBaud = NoBaud /\ line = NoBaud
  /\ configured = FALSE /\ pc = "loop" /\ hears = FALSE
  /\ module = [baud |-> Initial, settings |-> {}]
  /\ faults = 0 /\ resets = 0
  /\ tally = [ports |-> 0, lost |-> FALSE, reset |-> FALSE]

IsConnected == fd # "none" /\ attribsSet
\* getPort
Port == IF currentBaud # NoBaud THEN currentBaud ELSE Initial

\* A system call fails.
Fails == faults < MaxFaults /\ faults' = faults + 1

(***************************************************************************)
(* loop() without a connection: ComConnection::connect.                     *)
(***************************************************************************)
\* Fault: the configuration is sent on the first connection only.
ReconnectingKept == pc = "loop" /\ ~IsConnected /\ UNCHANGED configured
Reconnecting == pc = "loop" /\ ~IsConnected /\ configured' = FALSE

OpenFails ==
  /\ Reconnecting /\ Fails
  /\ fd' = "none"
  /\ UNCHANGED <<descriptors, attribsSet, currentBaud, line, pc, hears, module, resets, tally>>

\* Fault: the descriptor is not closed.
AttribsFailOpen ==
  /\ Reconnecting /\ Fails
  /\ fd' = "open" /\ descriptors' = descriptors + 1 /\ attribsSet' = FALSE
  /\ UNCHANGED <<currentBaud, line, pc, hears, module, resets, tally>>
\* The new descriptor is closed again, the one of before is not.
AttribsFail ==
  /\ Reconnecting /\ Fails
  /\ fd' = "closed" /\ attribsSet' = FALSE
  /\ UNCHANGED <<descriptors, currentBaud, line, pc, hears, module, resets, tally>>

Connect ==
  /\ Reconnecting
  /\ fd' = "open" /\ descriptors' = descriptors + 1 /\ attribsSet' = TRUE
  /\ currentBaud' = Initial /\ line' = Initial
  /\ UNCHANGED <<pc, hears, module, faults, resets, tally>>

(***************************************************************************)
(* configureUblox.                                                          *)
(***************************************************************************)
FirstSetting == IF GpsOnly THEN "GNSS" ELSE "MSG"

Begin ==
  /\ pc = "loop" /\ IsConnected /\ Configure /\ ~configured
  /\ pc' = IF Port # Target THEN "PRT" ELSE FirstSetting
  /\ tally' = [tally EXCEPT !.lost = FALSE, !.reset = FALSE]
  /\ UNCHANGED <<fd, descriptors, attribsSet, currentBaud, line, configured, hears, module, faults, resets>>

\* sendUbx: what the module makes of a frame, when it hears it.  A failed write
\* is not noticed.
SendUbx(heard) ==
  \/ /\ module' = IF module.baud = line THEN heard ELSE module
     /\ UNCHANGED <<faults, tally>>
  \/ /\ Fails
     /\ tally' = [tally EXCEPT !.lost = TRUE]
     /\ UNCHANGED module

SendPrt ==
  /\ pc = "PRT"
  /\ SendUbx([module EXCEPT !.baud = Target])
  /\ pc' = "PORT"
  /\ UNCHANGED <<fd, descriptors, attribsSet, currentBaud, line, configured, hears, resets>>

SetPort ==
  /\ pc = "PORT"
  /\ attribsSet' = TRUE /\ line' = Target /\ currentBaud' = Target
  /\ pc' = FirstSetting
  /\ UNCHANGED <<fd, descriptors, configured, hears, module, faults, resets, tally>>

\* Fault: the failure is not kept in connectionResult.
SetPortFailsUnnoticed ==
  /\ pc = "PORT" /\ Fails
  /\ pc' = "loop" /\ configured' = TRUE
  /\ tally' = [tally EXCEPT !.ports = @ + 1]
  /\ UNCHANGED <<fd, descriptors, attribsSet, currentBaud, line, hears, module, resets>>
\* configureUblox returns early and counts as done all the same; the port
\* counts as not connected from here on, but stays open.
SetPortFails ==
  /\ pc = "PORT" /\ Fails
  /\ attribsSet' = FALSE
  /\ pc' = "loop" /\ configured' = TRUE
  /\ tally' = [tally EXCEPT !.ports = @ + 1]
  /\ UNCHANGED <<fd, descriptors, currentBaud, line, hears, module, resets>>

SendSetting(s) ==
  /\ pc = s
  /\ SendUbx([module EXCEPT !.settings = @ \cup {s}])
  /\ pc' = CASE s = "GNSS" -> "MSG" [] s = "MSG" -> "RATE" [] s = "RATE" -> "loop"
  /\ configured' = (configured \/ s = "RATE")
  /\ UNCHANGED <<fd, descriptors, attribsSet, currentBaud, line, hears, resets>>

(***************************************************************************)
(* loop() with a connection; the module.                                    *)
(***************************************************************************)
Read ==
  /\ pc = "loop" /\ IsConnected /\ (configured \/ ~Configure)
  /\ hears' = (module.baud = line)
  /\ UNCHANGED <<fd, descriptors, attribsSet, currentBaud, line, configured, pc, module, faults, resets, tally>>

ModuleReset ==
  /\ resets < MaxResets
  /\ resets' = resets + 1
  /\ module' = [baud |-> Initial, settings |-> {}]
  /\ tally' = [tally EXCEPT !.reset = TRUE]
  /\ UNCHANGED <<fd, descriptors, attribsSet, currentBaud, line, configured, pc, hears, faults>>

Task ==
  \/ OpenFails \/ AttribsFail \/ Connect
  \/ Begin \/ SendPrt \/ SetPort \/ SetPortFails \/ (\E s \in Settings : SendSetting(s))
  \/ Read

Next == Task \/ ModuleReset

\* The task's thread goes on; only finitely many calls fail (MaxFaults).
Spec == Init /\ [][Next]_vars /\ WF_vars(Task)

-----------------------------------------------------------------------------
InTune == module.baud = line /\ module.settings = Settings

\* However often the port failed on the way, and whatever baud the module was
\* left at by an earlier attempt, a connection that counts as configured has the
\* module at the line's baud with every setting, unless a frame was not written
\* or the module lost its power since the configuration began.
ConfiguredIsInTune ==
  pc = "loop" /\ IsConnected /\ configured /\ ~tally.lost /\ ~tally.reset => InTune

\* Each failed setPort leaves one descriptor open when the port is opened
\* again, and nothing else does.
DescriptorsBounded == descriptors <= 1 + tally.ports

\* Once calls stop failing the module is heard for good, again unless a frame
\* was not written or the module lost its power.
ComesIntoTune ==
  <>[](tally.lost \/ tally.reset \/ (IsConnected /\ configured /\ hears))
=============================================================================
