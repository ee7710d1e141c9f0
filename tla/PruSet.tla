------------------------------- MODULE PruSet -------------------------------
(***************************************************************************)
(* A SET command at work: gpio_output_set.c and PRU1 (motor_set.c has the  *)
(* same shape).  Linux ORs a mask of pins and their levels into the data   *)
(* word, raises the flag and polls the data word for the completion bit.   *)
(* PRU1 clears the flag, reads the data word, drives the pins and          *)
(* overwrites the data word with the completion bit alone.                 *)
(*                                                                         *)
(* Nothing but PRU1 ever removes a bit from the data word: what a command  *)
(* finds there is what the last completion left.                           *)
(***************************************************************************)
EXTENDS Naturals

CONSTANTS
  Pins,       \* the output pins
  SetPrompt   \* BOOLEAN: PRU1, when it runs, has served a command before the
              \* next command of the function starts

ASSUME PruSetAssumption == SetPrompt \in BOOLEAN

VARIABLES
  request,      \* the mode-0 bit, the only one of the flag word
  data,         \* data word: the set of bits that are 1
  setPc, todo,  \* function thread: step, bits still to be ORed into data
  cmd,          \* the command in progress, all low between commands
  setReg,       \* data word loaded for a store
  powered, drivePc, driveReg,   \* PRU1: power, step, data word it read
  level,        \* the levels of the pins
  asked,        \* history: the levels asked for last, forgotten with the
                \* next command if it was wiped
  wiped         \* history: pins whose last command a restart of PRU1 may
                \* have erased

setter  == <<setPc, todo, cmd, setReg>>
driver  == <<powered, drivePc, driveReg, level>>
hist    == <<asked, wiped>>
setVars == <<request, data, setter, driver, hist>>

Complete == <<"complete">>               \* bit 12
Mask(p)  == <<"mask", p>>                \* bits 0-3
High(p)  == <<"high", p>>                \* bits 4-7
Bits     == {Complete} \cup {Mask(p) : p \in Pins} \cup {High(p) : p \in Pins}

(* A command names some pins and the level of each.                        *)
Commands == UNION {[S -> BOOLEAN] : S \in (SUBSET Pins) \ {{}}}
Encode(c) == {Mask(p) : p \in DOMAIN c} \cup {High(p) : p \in {q \in DOMAIN c : c[q]}}

Low == [p \in Pins |-> FALSE]

SetInit ==
  /\ request = FALSE /\ data = {}
  /\ setPc = "idle" /\ todo = {} /\ cmd = Low /\ setReg = {}
  /\ powered = TRUE /\ drivePc = "loop" /\ driveReg = {}
  /\ level = Low
  /\ asked = Low /\ wiped = {}
-----------------------------------------------------------------------------
(***************************************************************************)
(* The function thread.                                                    *)
(***************************************************************************)

(* A command is dequeued.                                                  *)
Ask(c) ==
  /\ setPc = "idle" /\ setPc' = "load"
  /\ SetPrompt /\ powered => drivePc = "loop" /\ ~request
  /\ cmd' = c /\ todo' = Encode(c)
  /\ wiped' = wiped \ DOMAIN c
  /\ asked' = [p \in Pins |-> IF p \in DOMAIN c \cap wiped THEN level[p] ELSE asked[p]]
  /\ UNCHANGED <<request, data, setReg, driver>>

(* shared[data] |= ..., once for each bit: a load and a store.             *)
LoadData ==
  /\ setPc = "load" /\ todo # {} /\ setPc' = "store"
  /\ setReg' = data
  /\ UNCHANGED <<request, data, todo, cmd, driver, hist>>

StoreData ==
  /\ setPc = "store" /\ setPc' = "load"
  /\ \E b \in todo : data' = setReg \cup {b} /\ todo' = todo \ {b}
  /\ setReg' = {}
  /\ UNCHANGED <<request, cmd, driver, hist>>

(* shared[flag] |= (1 << trigger_flag); the word has no other bit.         *)
Raise ==
  /\ setPc = "load" /\ todo = {} /\ setPc' = "wait"
  /\ request' = TRUE
  /\ asked' = [p \in Pins |-> IF p \in DOMAIN cmd THEN cmd[p] ELSE asked[p]]
  /\ UNCHANGED <<data, todo, cmd, setReg, driver, wiped>>

(* The command is over and its data are erased.                            *)
Finish == setPc' = "idle" /\ cmd' = Low

(* The wait loop: the completion bit is set, and "done" is reported.       *)
Done ==
  /\ setPc = "wait" /\ Complete \in data
  /\ Finish
  /\ UNCHANGED <<request, data, todo, setReg, driver, hist>>

(* Mutant of GiveUp: the request is withdrawn.                             *)
GiveUpWithdraws ==
  /\ setPc = "wait"
  /\ Finish
  /\ request' = FALSE
  /\ UNCHANGED <<data, todo, setReg, driver, hist>>

(* The thread is stopped (module CommandTask), or 5 s of polls are over.   *)
GiveUp ==
  /\ setPc = "wait"
  /\ Finish
  /\ UNCHANGED <<request, data, todo, setReg, driver, hist>>

Setter ==
  (\E c \in Commands : Ask(c)) \/ LoadData \/ StoreData \/ Raise \/ Done \/ GiveUp
-----------------------------------------------------------------------------
(***************************************************************************)
(* PRU1: GPIO_OUTPUT_SET_MODE0.                                            *)
(***************************************************************************)
DriveStep(from, to) == powered /\ drivePc = from /\ drivePc' = to

PruTake ==
  /\ DriveStep("loop", "read") /\ request
  /\ request' = FALSE
  /\ UNCHANGED <<data, setter, powered, driveReg, level, hist>>

PruRead ==
  /\ DriveStep("read", "drive")
  /\ driveReg' = data
  /\ UNCHANGED <<request, data, setter, powered, level, hist>>

(* check_bits_w: every pin of the mask is set or cleared.                  *)
PruDrive ==
  /\ DriveStep("drive", "finish")
  /\ level' = [p \in Pins |->
                 IF Mask(p) \in driveReg THEN High(p) \in driveReg ELSE level[p]]
  /\ driveReg' = {}
  /\ UNCHANGED <<request, data, setter, powered, hist>>

(* Mutant of PruFinish: the completion bit is ORed in.                     *)
PruFinishKeeping ==
  /\ DriveStep("finish", "loop")
  /\ data' = data \cup {Complete}
  /\ UNCHANGED <<request, setter, powered, driveReg, level, hist>>

PruFinish ==
  /\ DriveStep("finish", "loop")
  /\ data' = {Complete}
  /\ UNCHANGED <<request, setter, powered, driveReg, level, hist>>

(* system.c stops and starts PRU1; SETUP erases the shared words, and with *)
(* them a command that was not served.                                     *)
PowerOff ==
  /\ powered /\ powered' = FALSE
  /\ UNCHANGED <<request, data, setter, drivePc, driveReg, level, hist>>

PowerOn ==
  /\ ~powered /\ powered' = TRUE /\ drivePc' = "loop" /\ driveReg' = {}
  /\ request' = FALSE /\ data' = {}
  /\ wiped' = IF setPc = "idle" /\ ~request /\ drivePc = "loop" THEN wiped ELSE Pins
  /\ UNCHANGED <<setter, level, asked>>

Driver == PruTake \/ PruRead \/ PruDrive \/ PruFinish

SetNext == Setter \/ Driver \/ PowerOff \/ PowerOn

SetSpec == SetInit /\ [][SetNext]_setVars

(* The thread runs its finite loops and PRU1 its endless one.              *)
FairSetSpec ==
  /\ SetSpec
  /\ WF_setVars(LoadData \/ StoreData \/ Raise \/ Done \/ GiveUp)
  /\ WF_setVars(Driver)
-----------------------------------------------------------------------------
(* With PRU1 prompt, the pins have the levels asked for last whenever no   *)
(* command is on its way, although commands are ORed over whatever the     *)
(* data word holds: no command inherits a bit of an earlier one, whether   *)
(* that one was reported done, stopped or timed out.                       *)
AppliedAsAsked ==
  SetPrompt /\ ~request /\ drivePc = "loop" =>
    \A p \in Pins \ wiped : level[p] = asked[p]

(* A command that was raised reaches the pins, even if the thread has been *)
(* stopped or has timed out meanwhile, unless PRU1 is turned off.          *)
RaisedIsApplied ==
  \A p \in Pins :
    (level[p] # asked[p]) ~> (level[p] = asked[p] \/ ~powered \/ p \in wiped)

(* "Done" is reported when PRU1 has done what was asked.  It does not      *)
(* hold: the completion bit of the command before is still there.          *)
DoneMeansApplied ==
  [][Done => \A p \in DOMAIN cmd \ wiped : level[p] = cmd[p]]_setVars
=============================================================================
