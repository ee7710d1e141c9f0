------------------------------ MODULE MotorGet ------------------------------
(***************************************************************************)
(* motor_get (motor_get.c) between its two rivals.                         *)
(*                                                                         *)
(* Its answer has two sources: enable and direction are sampled by PRU1    *)
(* from the motor pins, the speeds come from three arrays of Linux that    *)
(* motor_set (motor_set.c) writes before PRU1 has applied anything.  No    *)
(* lock spans both.                                                        *)
(*                                                                         *)
(* Its trigger input shares an interrupt status register with the triggers *)
(* of gpio_input.  PRU1 (pru1-digital.asm) reads the register once per     *)
(* loop into r23, and not at all in a loop that serves an on-demand        *)
(* gpio_input; it acknowledges by writing back what it reads, and a 1      *)
(* written clears.                                                         *)
(*                                                                         *)
(* One motor; a setting is a number, 0 what PRU1's start leaves.  That     *)
(* Linux and PRU1 race for the bits of one word is left to PruGet and      *)
(* PruSet: here a word changes in one step, and so does all that a level   *)
(* of PRU1's loop touches.                                                 *)
(***************************************************************************)
EXTENDS Naturals

CONSTANT MaxSets   \* bound: motor_set commands

ASSUME MotorGetAssumption == MaxSets \in Nat

Sources == {"gpio", "pins", "motor"}   \* pin 6, pins 22 to 25, pin 7 of GPIO2
OnDemand == 0
Trigger  == 1    \* for gpio_input, by "gpio" ...
PinsMode == 2    \* ... and by "pins"
NoMode   == 3

VARIABLES
  gpc, mode, gotEna, gotDir,  \* motor_get: step, mode, what it has read so far
  spc, sets, speeds,      \* motor_set: step, commands; rpm, step_per_rev, ...
  gflag, mflag, sflag,    \* flag words: gpio_input, motor_get, motor_set
  ready, sample,          \* data word of motor_get: data-ready bit, sample
  sdata,                  \* data word of motor_set; 0: it names no motor
  level, r23, motorPins,  \* PRU1: level or "off", register, pins of the motor
  irq,                    \* edges latched in the interrupt status register
  \* history: since the sample in the word, in the response, was taken a
  \* motor_set was at work; PRU1 restarted after the last setting; a response
  \* mixed two settings although none of this was so
  wordOld, respOld, undone, mixed,
  \* history of one source, chosen at the start: an edge is unanswered, it was
  \* acknowledged by another source; the loop has not read the register; an
  \* edge was answered twice in a loop that has
  watched, unanswered, wiped, skipped, twice

getter  == <<gpc, mode, gotEna, gotDir, respOld, mixed>>
setter  == <<spc, sets, speeds>>
data    == <<ready, sample, wordOld>>
motors  == <<sdata, motorPins, undone>>
edges   == <<irq, watched, unanswered, wiped, twice>>
cpu     == <<r23, skipped>>
getVars == <<getter, setter, gflag, mflag, sflag, data, motors, edges, cpu,
             level>>

GetInit ==
  /\ gpc = "idle" /\ mode = OnDemand /\ gotEna = 0 /\ gotDir = 0
  /\ spc = "idle" /\ sets = 0 /\ speeds = 0
  /\ gflag = NoMode /\ mflag = {} /\ sflag = FALSE
  /\ ready = FALSE /\ sample = 0 /\ sdata = 0
  /\ level = "gpio" /\ r23 \in SUBSET Sources /\ motorPins = 0
  /\ irq = {}
  /\ wordOld = FALSE /\ respOld = FALSE /\ undone = FALSE /\ mixed = FALSE
  /\ watched \in Sources /\ unanswered = FALSE /\ wiped = FALSE
  /\ skipped = TRUE /\ twice = FALSE
-----------------------------------------------------------------------------
(***************************************************************************)
(* motor_get.                                                              *)
(***************************************************************************)
Start(m) ==
  /\ gpc = "idle"
  /\ gpc' = "wait" /\ mode' = m /\ mflag' = mflag \cup {m}
  /\ UNCHANGED <<gotEna, gotDir, respOld, mixed, setter, gflag, sflag, data,
                 motors, edges, cpu, level>>

(* A wait ends by a stop or the time-out; a trigger mode clears its bit.   *)
(* With the command the thread clears its arguments, mode included.        *)
GiveUp ==
  /\ gpc = "wait"
  /\ gpc' = "idle" /\ mode' = OnDemand
  /\ mflag' = IF mode = Trigger THEN mflag \ {Trigger} ELSE mflag
  /\ UNCHANGED <<gotEna, gotDir, respOld, mixed, setter, gflag, sflag, data,
                 motors, edges, cpu, level>>

(* The data-ready bit is seen; the word is loaded for enable ...           *)
TakeEna ==
  /\ gpc = "wait" /\ ready
  /\ gpc' = "dir" /\ gotEna' = sample /\ respOld' = wordOld
  /\ UNCHANGED <<mode, gotDir, mixed, setter, gflag, mflag, sflag, data,
                 motors, edges, cpu, level>>

(* ... again for direction ...                                             *)
TakeDir ==
  /\ gpc = "dir"
  /\ gpc' = "speeds" /\ gotDir' = sample
  /\ UNCHANGED <<mode, gotEna, respOld, mixed, setter, gflag, mflag, sflag,
                 data, motors, edges, cpu, level>>

(* ... and the speeds are read.  On demand this ends the command; a        *)
(* trigger mode erases the word and, unless it is stopped or its bit is    *)
(* gone, waits again.  The response structure is gone with the wait.       *)
TakeSpeeds ==
  /\ gpc = "speeds"
  /\ mixed' = (mixed \/ (~respOld /\ ~(gotEna = gotDir /\ gotDir = speeds)))
  /\ gotEna' = 0 /\ gotDir' = 0 /\ respOld' = FALSE
  /\ IF mode = OnDemand
     THEN gpc' = "idle" /\ UNCHANGED <<mode, ready, sample, wordOld, mflag>>
     ELSE /\ ready' = FALSE /\ sample' = 0 /\ wordOld' = FALSE
          /\ \/ gpc' = "wait" /\ Trigger \in mflag /\ UNCHANGED <<mode, mflag>>
             \/ gpc' = "idle" /\ mode' = OnDemand /\ mflag' = mflag \ {Trigger}
  /\ UNCHANGED <<setter, gflag, sflag, motors, edges, cpu, level>>

MotorGetter ==
  (\E m \in {OnDemand, Trigger} : Start(m)) \/ GiveUp
    \/ TakeEna \/ TakeDir \/ TakeSpeeds
-----------------------------------------------------------------------------
(***************************************************************************)
(* motor_set, and the commands of gpio_input (module PruGet).              *)
(***************************************************************************)
(* What has been sampled is old from now on.                               *)
Outdate == wordOld' = ready /\ respOld' = (gpc \in {"dir", "speeds"})

(* The thread's word and speeds and then its flag; it leaves its wait on a *)
(* completion bit, an old one included, a stop or the time-out.            *)
SetData ==
  /\ spc = "idle" /\ sets < MaxSets
  /\ spc' = "speeds" /\ sets' = sets + 1 /\ sdata' = sets + 1
  /\ Outdate
  /\ UNCHANGED <<gpc, mode, gotEna, gotDir, mixed, speeds, gflag, mflag, sflag,
                 ready, sample, motorPins, undone, edges, cpu, level>>

SetSpeeds ==
  /\ spc = "speeds"
  /\ spc' = "raise" /\ speeds' = sets
  /\ UNCHANGED <<getter, sets, gflag, mflag, sflag, data, motors, edges, cpu,
                 level>>

SetRaise ==
  /\ spc = "raise"
  /\ spc' = "wait" /\ sflag' = TRUE
  /\ UNCHANGED <<getter, sets, speeds, gflag, mflag, data, motors, edges, cpu,
                 level>>

(* Mutant of SetEnd: a command that is given up takes its flag back.       *)
SetEndWithdraws ==
  /\ spc = "wait"
  /\ spc' = "idle" /\ sflag' = FALSE
  /\ UNCHANGED <<getter, sets, speeds, gflag, mflag, data, motors, edges, cpu,
                 level>>

SetEnd ==
  /\ spc = "wait"
  /\ spc' = "idle"
  /\ UNCHANGED <<getter, sets, speeds, gflag, mflag, sflag, data, motors, edges,
                 cpu, level>>

MotorSetter == SetData \/ SetSpeeds \/ SetRaise \/ SetEnd

(* A motor_set is at work: its thread writes, or PRU1 has yet to apply it, *)
(* or a restart has undone it.                                             *)
SetAtWork == spc # "idle" \/ sflag \/ undone

GpioInput ==
  /\ \/ gflag = NoMode /\ gflag' \in {OnDemand, Trigger, PinsMode}
     \/ gflag \in {Trigger, PinsMode} /\ gflag' = NoMode
  /\ UNCHANGED <<getter, setter, mflag, sflag, data, motors, edges, cpu, level>>
-----------------------------------------------------------------------------
(***************************************************************************)
(* PRU1, one loop from level to level.                                     *)
(***************************************************************************)
(* An on-demand gpio_input is served: the rest of the loop uses r23 as an  *)
(* earlier loop has left it.                                               *)
PruOnDemand ==
  /\ level = "gpio" /\ gflag = OnDemand
  /\ level' = "motor" /\ gflag' = NoMode /\ skipped' = TRUE
  /\ UNCHANGED <<getter, setter, mflag, sflag, data, motors, edges, r23>>

(* Mutant of PruStatus: the status is added to what r23 holds.             *)
PruStatusAdding ==
  /\ level = "gpio" /\ gflag # OnDemand
  /\ level' = "triggers" /\ r23' = r23 \cup irq /\ skipped' = FALSE
  /\ UNCHANGED <<getter, setter, gflag, mflag, sflag, data, motors, edges>>

PruStatus ==
  /\ level = "gpio" /\ gflag # OnDemand
  /\ level' = "triggers" /\ r23' = irq /\ skipped' = FALSE
  /\ UNCHANGED <<getter, setter, gflag, mflag, sflag, data, motors, edges>>

(* A trigger is served: the register is read, the bit of the source set    *)
(* and all written back, which clears every edge latched by now; then the  *)
(* sample is taken, which answers the source's own edges.                  *)
Serve(s) ==
  /\ irq' = {}
  /\ unanswered' = (unanswered /\ watched # s)
  /\ twice' = (twice \/ (watched = s /\ ~unanswered /\ ~skipped))
  /\ wiped' = (watched # s /\ (wiped \/ watched \in irq))
  /\ UNCHANGED watched

(* The triggers of gpio_input: the one whose mode is set, if r23 has it;   *)
(* an edge of another stays latched.                                       *)
GpioServed ==
  {s \in r23 : \/ s = "gpio" /\ gflag = Trigger
               \/ s = "pins" /\ gflag = PinsMode}

(* Mutant of PruTriggers: an edge whose mode is not set is acknowledged.   *)
PruTriggersClearing ==
  /\ level = "triggers"
  /\ level' = "motor"
  /\ \/ \E s \in GpioServed : Serve(s)
     \/ GpioServed = {} /\ irq' = irq \ (r23 \ {"motor"})
        /\ UNCHANGED <<watched, unanswered, wiped, twice>>
  /\ UNCHANGED <<getter, setter, gflag, mflag, sflag, data, motors, cpu>>

PruTriggers ==
  /\ level = "triggers"
  /\ level' = "motor"
  /\ \/ \E s \in GpioServed : Serve(s)
     \/ GpioServed = {} /\ UNCHANGED edges
  /\ UNCHANGED <<getter, setter, gflag, mflag, sflag, data, motors, cpu>>

(* level_motor_get: a request first, else the trigger, by r23.             *)
Sampled ==
  ready' = TRUE /\ sample' = motorPins /\ wordOld' = SetAtWork

MotorServed == "motor" \in r23 /\ Trigger \in mflag

PruMotor ==
  /\ level = "motor"
  /\ level' = "set"
  /\ \/ OnDemand \in mflag /\ mflag' = mflag \ {OnDemand}
        /\ Sampled /\ UNCHANGED edges
     \/ OnDemand \notin mflag /\ MotorServed /\ Serve("motor")
        /\ Sampled /\ UNCHANGED mflag
     \/ OnDemand \notin mflag /\ ~MotorServed /\ UNCHANGED <<mflag, data, edges>>
  /\ UNCHANGED <<getter, setter, gflag, sflag, motors, cpu>>

(* level_motor_set: the pins of the motor if the word names it, which it   *)
(* does not when a restart erased it before the flag was raised.           *)
PruSet ==
  /\ level = "set"
  /\ level' = "gpio"
  /\ IF sflag /\ sdata # 0
     THEN motorPins' = sdata /\ undone' = FALSE
     ELSE UNCHANGED <<motorPins, undone>>
  /\ sflag' = FALSE
  /\ sdata' = IF sflag THEN 0 ELSE sdata
  /\ UNCHANGED <<getter, setter, gflag, mflag, data, edges, cpu>>

(* An input rises; the register latches it, enabled or not, PRU on or off. *)
Edge(s) ==
  /\ irq' = irq \cup {s}
  /\ unanswered' = (unanswered \/ watched = s)
  /\ UNCHANGED <<getter, setter, gflag, mflag, sflag, data, motors, watched,
                 wiped, twice, cpu, level>>

PowerOff ==
  /\ level # "off" /\ level' = "off"
  /\ UNCHANGED <<getter, setter, gflag, mflag, sflag, data, motors, edges, cpu>>

(* SETUP erases the shared words and disables the motor; nothing sets r23. *)
PowerOn ==
  /\ level = "off" /\ level' = "gpio" /\ r23' \in SUBSET Sources /\ skipped' = TRUE
  /\ gflag' = NoMode /\ mflag' = {} /\ sflag' = FALSE
  /\ ready' = FALSE /\ sample' = 0 /\ sdata' = 0 /\ motorPins' = 0
  /\ undone' = (sets > 0)
  /\ wordOld' = FALSE /\ respOld' = (gpc \in {"dir", "speeds"})
  /\ UNCHANGED <<gpc, mode, gotEna, gotDir, mixed, setter, edges>>

GetNext ==
  \/ MotorGetter \/ MotorSetter \/ GpioInput
  \/ PruOnDemand \/ PruStatus \/ PruTriggers \/ PruMotor \/ PruSet
  \/ (\E s \in Sources : Edge(s)) \/ PowerOff \/ PowerOn

GetSpec == GetInit /\ [][GetNext]_getVars
-----------------------------------------------------------------------------
(* An answer of motor_get reports one setting, pins and speeds, unless a   *)
(* motor_set was at work at some time since its sample was taken, or PRU1  *)
(* has restarted since and disabled the motor.  Nothing in the answer      *)
(* tells: sample and speeds are read under different locks.                *)
Coherent == ~mixed

(* An edge stays in the register until it is answered: the one way to lose *)
(* it is the acknowledge of another trigger.                               *)
NoEdgeLost == unanswered => watched \in irq \/ wiped

(* A loop that has read the register answers no edge a second time: the    *)
(* bits that its levels test were latched, and not yet answered, when it   *)
(* read them.                                                              *)
OnceInFreshLoop == ~twice

(* Every edge is answered.  It does not hold: the edge of one trigger that *)
(* comes between the loop's read of the register and the acknowledge of    *)
(* another is cleared with it.                                             *)
NeverWiped == ~wiped
=============================================================================
