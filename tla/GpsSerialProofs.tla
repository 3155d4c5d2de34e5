-------------------------- MODULE GpsSerialProofs --------------------------
(***************************************************************************)
(* The line and the module, for all bauds, settings and numbers of failing  *)
(* calls and resets.  The invariant follows one configuration: the line     *)
(* begins it at the first baud; a module that does not hear the PRT frame   *)
(* there is at the operating baud already; from setPort on both agree, and  *)
(* each setting is heard.                                                   *)
(***************************************************************************)
EXTENDS GpsSerial, TLAPS

Tallies == [ports: Nat, lost: BOOLEAN, reset: BOOLEAN]
Modules == [baud: Bauds, settings: SUBSET Settings]

Types ==
  /\ fd \in {"none", "open", "closed"} /\ descriptors \in Nat
  /\ attribsSet \in BOOLEAN /\ configured \in BOOLEAN
  /\ pc \in Steps \cup {"loop"}
  /\ module \in Modules /\ tally \in Tallies

\* Who holds descriptors; configureUblox runs on a connection only.
Held ==
  /\ descriptors <= tally.ports + (IF IsConnected THEN 1 ELSE 0)
  /\ pc # "loop" => IsConnected

\* Nothing of this configuration was lost.
Undamaged == ~tally.lost /\ ~tally.reset

\* The settings sent before the one at hand.
Before == CASE pc = "MSG" -> Settings \ {"MSG", "RATE"}
            [] pc = "RATE" -> Settings \ {"RATE"}
            [] OTHER -> {}

\* Where line and module are in the course of a configuration.
OnCourse ==
  /\ pc = "loop" /\ IsConnected /\ ~configured => line = Initial /\ currentBaud = Initial
  /\ pc = "PRT" => line = Initial
  /\ pc = "PORT" /\ Undamaged => module.baud = Target
  /\ pc \in Settings /\ Undamaged => module.baud = line /\ Before \subseteq module.settings

SerialInv == Types /\ Held /\ OnCourse /\ ConfiguredIsInTune

USE GpsSerialAssumption
USE DEF NoBaud, Bauds, Settings, Steps, Types, Tallies, Modules, IsConnected, Fails

LEMMA SerialInit ==
  ASSUME Init
  PROVE SerialInv
<1>1. module \in Modules
  BY DEF Init
<1>2. tally \in Tallies /\ tally.ports = 0
  BY DEF Init
<1>3. Types
  BY <1>1, <1>2 DEF Init
<1>4. Held
  BY <1>2 DEF Init, Held
<1>5. OnCourse /\ ConfiguredIsInTune
  BY DEF Init, OnCourse, ConfiguredIsInTune
<1> QED BY <1>3, <1>4, <1>5 DEF SerialInv

LEMMA ReconnectHolds ==
  ASSUME SerialInv, OpenFails \/ AttribsFail \/ Connect
  PROVE SerialInv'
<1>1. Types'
  <2>1. pc' = pc /\ module' = module /\ tally' = tally
    BY DEF OpenFails, AttribsFail, Connect
  <2>2. fd' \in {"none", "open", "closed"} /\ descriptors' \in Nat
    BY DEF SerialInv, OpenFails, AttribsFail, Connect
  <2>3. attribsSet' \in BOOLEAN
    BY DEF SerialInv, OpenFails, AttribsFail, Connect
  <2>4. configured' \in BOOLEAN
    BY DEF OpenFails, AttribsFail, Connect, Reconnecting
  <2> QED BY <2>1, <2>2, <2>3, <2>4 DEF SerialInv
<1>2. Held'
  BY DEF SerialInv, Held, OpenFails, AttribsFail, Connect, Reconnecting
<1>3. OnCourse' /\ ConfiguredIsInTune'
  BY DEF OnCourse, ConfiguredIsInTune, OpenFails, AttribsFail, Connect, Reconnecting
<1> QED BY <1>1, <1>2, <1>3 DEF SerialInv

LEMMA BeginHolds ==
  ASSUME SerialInv, Begin
  PROVE SerialInv'
<1>1. tally' = [ports |-> tally.ports, lost |-> FALSE, reset |-> FALSE]
  BY DEF SerialInv, Begin
<1>2. Types' /\ Held'
  BY <1>1 DEF SerialInv, Held, Begin, FirstSetting
<1>3. line = Initial /\ Port = Initial
  BY DEF SerialInv, OnCourse, Begin, Port
<1>4. Before' \subseteq {}
  BY DEF Begin, FirstSetting, Before
<1>5. pc' = "PRT" \/ (pc' \in Settings /\ Initial = Target)
  BY <1>3 DEF Begin, FirstSetting
<1>6. OnCourse'
  BY <1>3, <1>4, <1>5 DEF SerialInv, OnCourse, Begin
<1>7. ConfiguredIsInTune'
  BY <1>5 DEF ConfiguredIsInTune
<1> QED BY <1>2, <1>6, <1>7 DEF SerialInv

\* A frame is heard, not heard or not written.
LEMMA FrameHolds ==
  ASSUME SerialInv, NEW heard \in Modules, SendUbx(heard)
  PROVE /\ module' \in Modules /\ tally' \in Tallies /\ tally'.ports = tally.ports
        /\ Undamaged' => Undamaged /\ module' = IF module.baud = line THEN heard ELSE module
<1>1. CASE UNCHANGED tally /\ module' = IF module.baud = line THEN heard ELSE module
  BY <1>1 DEF SerialInv, Undamaged
<1>2. CASE tally' = [tally EXCEPT !.lost = TRUE] /\ UNCHANGED module
  BY <1>2 DEF SerialInv, Undamaged
<1> QED BY <1>1, <1>2 DEF SendUbx

LEMMA SendPrtHolds ==
  ASSUME SerialInv, SendPrt
  PROVE SerialInv'
<1> DEFINE heard == [module EXCEPT !.baud = Target]
<1>1. heard \in Modules /\ heard.baud = Target
  BY DEF SerialInv
<1>2. SendUbx(heard)
  BY DEF SendPrt
<1> HIDE DEF heard
<1>3. /\ module' \in Modules /\ tally' \in Tallies /\ tally'.ports = tally.ports
      /\ Undamaged' => Undamaged /\ module' = IF module.baud = line THEN heard ELSE module
  BY <1>1, <1>2, FrameHolds
<1>4. Types' /\ Held'
  BY <1>3 DEF SerialInv, Held, SendPrt
<1>5. line = Initial
  BY DEF SerialInv, OnCourse, SendPrt
<1>6. Undamaged' => module'.baud = Target
  BY <1>1, <1>3, <1>5 DEF SerialInv
<1>7. OnCourse' /\ ConfiguredIsInTune'
  BY <1>6 DEF OnCourse, ConfiguredIsInTune, SendPrt
<1> QED BY <1>4, <1>7 DEF SerialInv

LEMMA SetPortHolds ==
  ASSUME SerialInv, SetPort
  PROVE SerialInv'
<1>1. Types' /\ Held'
  BY DEF SerialInv, Held, SetPort, FirstSetting
<1>2. Before' \subseteq {}
  BY DEF SetPort, FirstSetting, Before
<1>3. Undamaged' => module'.baud = line'
  BY DEF SerialInv, OnCourse, SetPort, Undamaged
<1>4. OnCourse' /\ ConfiguredIsInTune'
  BY <1>2, <1>3 DEF OnCourse, ConfiguredIsInTune, SetPort, FirstSetting
<1> QED BY <1>1, <1>4 DEF SerialInv

LEMMA SetPortFailsHolds ==
  ASSUME SerialInv, SetPortFails
  PROVE SerialInv'
<1>1. tally' = [ports |-> tally.ports + 1, lost |-> tally.lost, reset |-> tally.reset]
  BY DEF SerialInv, SetPortFails
<1>2. Types'
  <2>1. tally' \in Tallies
    BY <1>1 DEF SerialInv
  <2> QED BY <2>1 DEF SerialInv, SetPortFails
<1>3. Held'
  <2>1. IsConnected /\ descriptors' = descriptors /\ tally'.ports = tally.ports + 1
    BY <1>1 DEF SerialInv, Held, SetPortFails
  <2>2. descriptors' <= tally'.ports /\ pc' = "loop"
    BY <2>1 DEF SerialInv, Held, SetPortFails
  <2> QED BY <1>2, <2>2 DEF Held
<1>4. OnCourse' /\ ConfiguredIsInTune'
  BY DEF OnCourse, ConfiguredIsInTune, SetPortFails
<1> QED BY <1>2, <1>3, <1>4 DEF SerialInv

LEMMA SendSettingHolds ==
  ASSUME SerialInv, NEW s \in Settings, SendSetting(s)
  PROVE SerialInv'
<1> DEFINE heard == [module EXCEPT !.settings = @ \cup {s}]
<1>1. heard \in Modules /\ heard.baud = module.baud /\ heard.settings = module.settings \cup {s}
  BY DEF SerialInv
<1>2. SendUbx(heard)
  BY DEF SendSetting
<1> HIDE DEF heard
<1>3. /\ module' \in Modules /\ tally' \in Tallies /\ tally'.ports = tally.ports
      /\ Undamaged' => Undamaged /\ module' = IF module.baud = line THEN heard ELSE module
  BY <1>1, <1>2, FrameHolds
<1>4. Undamaged' => module'.baud = line /\ Before \cup {s} \subseteq module'.settings
  BY <1>1, <1>3 DEF SerialInv, OnCourse, SendSetting
<1>5. pc' \in Settings \cup {"loop"} /\ (pc' = "loop" => s = "RATE")
  BY DEF SendSetting
<1>6. Types' /\ Held'
  BY <1>3, <1>5 DEF SerialInv, Held, SendSetting
<1>7. Before' \subseteq Before \cup {s}
  BY DEF SendSetting, Before
<1>8. OnCourse'
  BY <1>4, <1>5, <1>7 DEF OnCourse, SendSetting
<1>9. s = "RATE" => Before \cup {s} = Settings
  BY DEF SendSetting, Before
<1>10. ConfiguredIsInTune'
  BY <1>3, <1>4, <1>5, <1>9 DEF ConfiguredIsInTune, InTune, SendSetting, Undamaged
<1> QED BY <1>6, <1>8, <1>10 DEF SerialInv

LEMMA ModuleResetHolds ==
  ASSUME SerialInv, ModuleReset
  PROVE SerialInv'
<1>1. tally' = [ports |-> tally.ports, lost |-> tally.lost, reset |-> TRUE]
  BY DEF SerialInv, ModuleReset
<1>2. Types' /\ Held'
  BY <1>1 DEF SerialInv, Held, ModuleReset
<1>3. OnCourse' /\ ConfiguredIsInTune'
  BY <1>1 DEF SerialInv, OnCourse, ConfiguredIsInTune, Undamaged, ModuleReset
<1> QED BY <1>2, <1>3 DEF SerialInv

LEMMA SerialStep == SerialInv /\ [Next]_vars => SerialInv'
<1> SUFFICES ASSUME SerialInv, [Next]_vars PROVE SerialInv'
  OBVIOUS
<1>1. CASE OpenFails \/ AttribsFail \/ Connect
  BY <1>1, ReconnectHolds
<1>2. CASE Begin
  BY <1>2, BeginHolds
<1>3. CASE SendPrt
  BY <1>3, SendPrtHolds
<1>4. CASE SetPort
  BY <1>4, SetPortHolds
<1>5. CASE SetPortFails
  BY <1>5, SetPortFailsHolds
<1>6. CASE \E s \in Settings : SendSetting(s)
  BY <1>6, SendSettingHolds
<1>7. CASE Read \/ UNCHANGED vars
  BY <1>7 DEF Read, vars, SerialInv, Held, OnCourse, Before, Undamaged, ConfiguredIsInTune, InTune
<1>8. CASE ModuleReset
  BY <1>8, ModuleResetHolds
<1> QED BY <1>1, <1>2, <1>3, <1>4, <1>5, <1>6, <1>7, <1>8 DEF Next, Task

LEMMA SerialHolds == Spec => []SerialInv
  BY SerialInit, SerialStep, PTL DEF Spec

-----------------------------------------------------------------------------
\* Each failed setPort is one of the calls that failed.
SerialTypes == TypeOK /\ tally.ports <= faults

LEMMA SerialTypesInit == Init => SerialTypes
<1> SUFFICES ASSUME Init PROVE SerialTypes
  OBVIOUS
<1>1. module \in Modules /\ tally \in [ports: 0..MaxFaults, lost: BOOLEAN, reset: BOOLEAN] /\ tally.ports = 0
  BY DEF Init
<1>2. faults = 0 /\ resets = 0 /\ descriptors = 0 /\ currentBaud = NoBaud /\ line = NoBaud
  BY DEF Init
<1>3. fd = "none" /\ attribsSet = FALSE /\ configured = FALSE /\ hears = FALSE /\ pc = "loop"
  BY DEF Init
<1>4. /\ fd \in {"none", "open", "closed"} /\ pc \in Steps \cup {"loop"}
      /\ attribsSet \in BOOLEAN /\ configured \in BOOLEAN /\ hears \in BOOLEAN
  BY <1>3
<1>5. /\ faults \in 0..MaxFaults /\ resets \in 0..MaxResets /\ descriptors \in Nat
      /\ currentBaud \in Bauds \cup {NoBaud} /\ line \in Bauds \cup {NoBaud} /\ tally.ports <= faults
  BY <1>1, <1>2
<1> QED BY <1>1, <1>4, <1>5 DEF TypeOK, SerialTypes

\* What a frame leaves of the three it may change.
LEMMA FrameTypes ==
  ASSUME SerialTypes, NEW heard \in Modules, SendUbx(heard)
  PROVE /\ module' \in Modules /\ faults' \in 0..MaxFaults
        /\ tally' \in [ports: 0..MaxFaults, lost: BOOLEAN, reset: BOOLEAN]
        /\ tally'.ports <= faults'
<1>0. /\ module \in Modules /\ faults \in 0..MaxFaults /\ tally.ports <= faults
      /\ tally \in [ports: 0..MaxFaults, lost: BOOLEAN, reset: BOOLEAN]
  BY DEF SerialTypes, TypeOK
<1> HIDE DEF Modules
<1>1. CASE UNCHANGED <<faults, tally>> /\ module' \in {heard, module}
  BY <1>0, <1>1
<1>2. CASE Fails /\ tally' = [tally EXCEPT !.lost = TRUE] /\ UNCHANGED module
  <2>1. /\ tally' \in [ports: 0..MaxFaults, lost: BOOLEAN, reset: BOOLEAN]
        /\ tally'.ports = tally.ports
    BY <1>0, <1>2
  <2>2. tally.ports \in 0..MaxFaults /\ faults' \in 0..MaxFaults /\ tally.ports <= faults'
    BY <1>0, <1>2
  <2> QED BY <1>0, <1>2, <2>1, <2>2
<1> QED BY <1>1, <1>2 DEF SendUbx

LEMMA SerialTypesStep == SerialTypes /\ [Next]_vars => SerialTypes'
<1> SUFFICES ASSUME SerialTypes, [Next]_vars PROVE SerialTypes'
  OBVIOUS
<1>1. CASE OpenFails \/ AttribsFail \/ Connect
  <2>1. UNCHANGED <<pc, hears, module, resets, tally>>
    BY <1>1 DEF OpenFails, AttribsFail, Connect
  <2>2. fd' \in {"none", "open", "closed"} /\ descriptors' \in Nat
    <3>1. descriptors \in Nat
      BY DEF SerialTypes, TypeOK
    <3> QED BY <1>1, <3>1 DEF OpenFails, AttribsFail, Connect
  <2>5. attribsSet' \in BOOLEAN /\ configured' \in BOOLEAN
    <3>1. attribsSet \in BOOLEAN
      BY DEF SerialTypes, TypeOK
    <3> QED BY <1>1, <3>1 DEF OpenFails, AttribsFail, Connect, Reconnecting
  <2>3. currentBaud' \in Bauds \cup {NoBaud} /\ line' \in Bauds \cup {NoBaud}
    BY <1>1 DEF SerialTypes, TypeOK, OpenFails, AttribsFail, Connect
  <2>4. faults' \in 0..MaxFaults /\ faults <= faults'
    BY <1>1 DEF SerialTypes, TypeOK, OpenFails, AttribsFail, Connect
  <2> QED BY <2>1, <2>2, <2>3, <2>4, <2>5 DEF SerialTypes, TypeOK
<1>2. CASE Begin
  <2>1. /\ tally' \in [ports: 0..MaxFaults, lost: BOOLEAN, reset: BOOLEAN]
        /\ tally'.ports = tally.ports
    BY <1>2 DEF SerialTypes, TypeOK, Begin
  <2> QED BY <1>2, <2>1 DEF SerialTypes, TypeOK, Begin, FirstSetting
<1>3. CASE SendPrt
  <2>1. [module EXCEPT !.baud = Target] \in Modules
    BY DEF SerialTypes, TypeOK
  <2>2. /\ module' \in Modules /\ faults' \in 0..MaxFaults
        /\ tally' \in [ports: 0..MaxFaults, lost: BOOLEAN, reset: BOOLEAN]
        /\ tally'.ports <= faults'
    BY <1>3, <2>1, FrameTypes DEF SendPrt
  <2> QED BY <1>3, <2>2 DEF SerialTypes, TypeOK, SendPrt
<1>4. CASE SetPort
  BY <1>4 DEF SerialTypes, TypeOK, SetPort, FirstSetting
<1>5. CASE SetPortFails
  <2>1. tally' = [ports |-> tally.ports + 1, lost |-> tally.lost, reset |-> tally.reset]
    BY <1>5 DEF SerialTypes, TypeOK, SetPortFails
  <2>2. /\ tally.ports \in Nat /\ faults' = faults + 1 /\ faults' \in 0..MaxFaults
        /\ tally.lost \in BOOLEAN /\ tally.reset \in BOOLEAN
    BY <1>5 DEF SerialTypes, TypeOK, SetPortFails
  <2>3. tally.ports + 1 \in 0..MaxFaults /\ tally.ports + 1 <= faults'
    BY <2>2 DEF SerialTypes, TypeOK
  <2>4. /\ tally' \in [ports: 0..MaxFaults, lost: BOOLEAN, reset: BOOLEAN]
        /\ tally'.ports <= faults'
    BY <2>1, <2>2, <2>3
  <2> QED BY <1>5, <2>2, <2>4 DEF SerialTypes, TypeOK, SetPortFails
<1>6. ASSUME NEW s \in Settings, SendSetting(s)
      PROVE SerialTypes'
  <2>1. [module EXCEPT !.settings = @ \cup {s}] \in Modules
    BY DEF SerialTypes, TypeOK
  <2>2. /\ module' \in Modules /\ faults' \in 0..MaxFaults
        /\ tally' \in [ports: 0..MaxFaults, lost: BOOLEAN, reset: BOOLEAN]
        /\ tally'.ports <= faults'
    BY <1>6, <2>1, FrameTypes DEF SendSetting
  <2>3. pc' \in Steps \cup {"loop"} /\ configured' \in BOOLEAN
    BY <1>6 DEF SendSetting
  <2> QED BY <1>6, <2>2, <2>3 DEF SerialTypes, TypeOK, SendSetting
<1>7. CASE Read \/ UNCHANGED vars
  <2>1. hears' \in {hears, module.baud = line}
    BY <1>7 DEF Read, vars
  <2>2. hears' \in BOOLEAN
    BY <2>1 DEF SerialTypes, TypeOK
  <2> QED BY <1>7, <2>2 DEF SerialTypes, TypeOK, Read, vars
<1>8. CASE ModuleReset
  <2>1. tally' = [ports |-> tally.ports, lost |-> tally.lost, reset |-> TRUE]
    BY <1>8 DEF SerialTypes, TypeOK, ModuleReset
  <2>2. /\ tally' \in [ports: 0..MaxFaults, lost: BOOLEAN, reset: BOOLEAN]
        /\ tally'.ports = tally.ports
    BY <2>1 DEF SerialTypes, TypeOK
  <2> QED BY <1>8, <2>2 DEF SerialTypes, TypeOK, ModuleReset
<1> QED BY <1>1, <1>2, <1>3, <1>4, <1>5, <1>6, <1>7, <1>8 DEF Next, Task

\* ComConnection and configureUblox: the line is only ever at one of the two bauds, and every
\* descriptor that is lost stands for a call that failed.
THEOREM TypeCorrect == Spec => []TypeOK
<1>1. SerialTypes => TypeOK
  BY DEF SerialTypes
<1> QED BY <1>1, SerialTypesInit, SerialTypesStep, PTL DEF Spec

\* configureUblox: a line that counts as configured is at the module's baud and the
\* module has every setting, whatever failed and was reopened before, unless a frame of the
\* configuration was not written or the module restarted on its own.
THEOREM ConfiguredMeansInTune == Spec => []ConfiguredIsInTune
<1>1. SerialInv => ConfiguredIsInTune
  BY DEF SerialInv
<1> QED BY <1>1, SerialHolds, PTL

\* ComConnection::connect: only a failed setPort costs a descriptor.
THEOREM OneDescriptorForEachFailedPort == Spec => []DescriptorsBounded
<1>1. SerialInv => DescriptorsBounded
  BY DEF SerialInv, Held, DescriptorsBounded
<1> QED BY <1>1, SerialHolds, PTL
=============================================================================
