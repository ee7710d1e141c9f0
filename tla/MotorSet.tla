------------------------------ MODULE MotorSet ------------------------------
(***************************************************************************)
(* A motor_set command, from the parallel arrays of the message to the     *)
(* step counters of PRU1: validate_motor_set_message computes a step       *)
(* period for each motor named, motor_set.c copies enable, direction and   *)
(* period into shared memory, MOTOR_SET_MODE0 of pru1-digital.asm loads    *)
(* them, and STEP_PERIOD counts each motor's period down, once per pass of *)
(* its main loop.                                                          *)
(*                                                                         *)
(* The handshake itself (flag, completion bit, time-out, stop) is the one  *)
(* of module PruSet; here a command finds PRU1 waiting, or off.            *)
(***************************************************************************)
EXTENDS Naturals, Sequences

CONSTANTS
  Motors,      \* 0 .. MOTOR_CH_MAX
  MotorLists,  \* the "motor" arrays clients send
  Periods,     \* the step periods the validator computes
  Initial,     \* the step period PRU1 starts with
  Wrap,        \* counters are modulo Wrap, 2^32 in the PRU
  Junk         \* what malloc leaves in a block's unused entries

Counter == 0 .. Wrap - 1

ASSUME MotorAssumption ==
  /\ Motors \subseteq Nat
  /\ Wrap \in Nat \ {0}
  /\ Periods \subseteq Counter \ {0} /\ Initial \in Counter \ {0}
  /\ Junk \subseteq Counter
  /\ \A l \in MotorLists :
       /\ l \in Seq(Motors) /\ l # <<>>
       /\ \A i, j \in DOMAIN l : l[i] = l[j] => i = j

VARIABLES
  flag,                 \* the mode-0 bit of the flag word
  mask, ena, dir,       \* the data word: motors whose bit is 1 in each field
  period,               \* the four step period words
  named,                \* the motors of the last command
  pruOn, ppc,           \* PRU1: power, step
  reload, count,        \* r10/r12/r14/r16 and r11/r13/r15/r17
  enabled, direction,   \* the motors' pins
  asked                 \* history: what was asked of each motor since PRU1
                        \* started

word   == <<mask, ena, dir, period>>
pins   == <<enabled, direction>>
vars   == <<flag, word, named, pruOn, ppc, reload, count, pins, asked>>

Request == [named : BOOLEAN, ena : BOOLEAN, dir : BOOLEAN, period : Periods \cup {0}]
Nothing == [named |-> FALSE, ena |-> FALSE, dir |-> FALSE, period |-> 0]

(* Arrays of equal length; entry i is about motor[i].                      *)
Commands ==
  UNION {[motor : {l}, ena : [DOMAIN l -> BOOLEAN], dir : [DOMAIN l -> BOOLEAN],
          period : [DOMAIN l -> Periods]] : l \in MotorLists}

Named(c)  == {c.motor[i] : i \in DOMAIN c.motor}
About(c, m) == CHOOSE i \in DOMAIN c.motor : c.motor[i] = m
InPlace(c, m) == About(c, m) = m + 1

Init ==
  /\ flag = FALSE /\ mask = {} /\ ena = {} /\ dir = {}
  /\ period = [m \in Motors |-> 0]
  /\ named = {}
  /\ pruOn = TRUE /\ ppc = "loop"
  /\ reload = [m \in Motors |-> Initial] /\ count = [m \in Motors |-> Initial]
  /\ enabled = {} /\ direction = {}
  /\ asked = [m \in Motors |-> Nothing]
-----------------------------------------------------------------------------
(***************************************************************************)
(* The function thread.                                                    *)
(***************************************************************************)

(* The block's factor_step_time array: the validator fills it entry by     *)
(* entry as it goes through the message; the rest is what malloc left.     *)
Block(c, junk) ==
  [j \in Motors |-> IF j + 1 \in DOMAIN c.period THEN c.period[j + 1] ELSE junk]

(* process_motor_set_data_set and the flag, which PRU1 sees last: mask,    *)
(* enable and direction are taken from entry i, ORed into the data word;   *)
(* the period (and rpm, step_per_rev, micro_step, which motor_get will     *)
(* report) from entry motor[i].                                            *)
Command(c, junk) ==
  /\ pruOn => ppc = "loop" /\ ~flag
  /\ named' = Named(c)
  /\ mask' = mask \cup Named(c)
  /\ ena' = ena \cup {m \in Named(c) : c.ena[About(c, m)]}
  /\ dir' = dir \cup {m \in Named(c) : c.dir[About(c, m)]}
  /\ period' = [m \in Motors |->
       IF m \in Named(c) THEN Block(c, junk)[m] ELSE period[m]]
  /\ flag' = TRUE
  /\ asked' = [m \in Motors |->
       IF m \in Named(c)
       THEN [named |-> TRUE, ena |-> c.ena[About(c, m)], dir |-> c.dir[About(c, m)],
             period |-> IF InPlace(c, m) THEN c.period[m + 1] ELSE 0]
       ELSE asked[m]]
  /\ UNCHANGED <<pruOn, ppc, reload, count, pins>>
-----------------------------------------------------------------------------
(***************************************************************************)
(* PRU1.                                                                   *)
(***************************************************************************)
PruStep(from, to) == pruOn /\ ppc = from /\ ppc' = to

Less(n) == IF n = 0 THEN Wrap - 1 ELSE n - 1

(* STEP_PERIOD_A .. D: the counter is decremented, and loaded again when   *)
(* it reaches 0 (and the step pin toggled).                                *)
Tick ==
  count' = [m \in Motors |-> IF Less(count[m]) = 0 THEN reload[m] ELSE Less(count[m])]

PruPass ==
  /\ PruStep("loop", "loop") /\ ~flag
  /\ Tick
  /\ UNCHANGED <<flag, word, named, pruOn, reload, pins, asked>>

(* MOTOR_SET_MODE0 clears the flag and loads the periods of all motors.    *)
PruTake ==
  /\ PruStep("loop", "drive") /\ flag
  /\ flag' = FALSE
  /\ reload' = period
  /\ UNCHANGED <<word, named, pruOn, count, pins, asked>>

(* Mutant of PruDrive: the mask is not looked at.                          *)
PruDriveAll ==
  /\ PruStep("drive", "finish")
  /\ enabled' = ena /\ direction' = dir
  /\ UNCHANGED <<flag, word, named, pruOn, reload, count, asked>>

(* check_bits_m: the pins of the motors in the mask.                       *)
PruDrive ==
  /\ PruStep("drive", "finish")
  /\ enabled'   = (enabled \ mask) \cup (ena \cap mask)
  /\ direction' = (direction \ mask) \cup (dir \cap mask)
  /\ UNCHANGED <<flag, word, named, pruOn, reload, count, asked>>

(* Mutant of PruFinish: the data word is not erased.                       *)
PruFinishKeeping ==
  /\ PruStep("finish", "loop")
  /\ Tick
  /\ UNCHANGED <<flag, word, named, pruOn, reload, pins, asked>>

(* The data word is overwritten with the completion bit; the pass goes on  *)
(* with the step counters.                                                 *)
PruFinish ==
  /\ PruStep("finish", "loop")
  /\ mask' = {} /\ ena' = {} /\ dir' = {}
  /\ Tick
  /\ UNCHANGED <<flag, period, named, pruOn, reload, pins, asked>>

PruStop ==
  /\ pruOn /\ pruOn' = FALSE
  /\ UNCHANGED <<flag, word, named, ppc, reload, count, pins, asked>>

(* SETUP erases the shared words, loads the initial periods and disables   *)
(* the motors; the direction pins stay.                                    *)
PruStart ==
  /\ ~pruOn /\ pruOn' = TRUE /\ ppc' = "loop"
  /\ flag' = FALSE /\ mask' = {} /\ ena' = {} /\ dir' = {}
  /\ period' = [m \in Motors |-> 0]
  /\ reload' = [m \in Motors |-> Initial] /\ count' = [m \in Motors |-> Initial]
  /\ enabled' = {}
  /\ asked' = [m \in Motors |-> Nothing]
  /\ UNCHANGED <<named, direction>>

Next ==
  \/ \E c \in Commands, junk \in Junk : Command(c, junk)
  \/ PruPass \/ PruTake \/ PruDrive \/ PruFinish \/ PruStop \/ PruStart

Spec == Init /\ [][Next]_vars
-----------------------------------------------------------------------------
(* When PRU1 is through with the commands, every motor has the enable and  *)
(* the direction that the last command about it asked for, although        *)
(* commands name motors in arrays of their own order and are ORed over     *)
(* what the data word holds; and it has the step period asked for, if the  *)
(* message had it at the motor's own place (period 0 here: it had not).    *)
ServedAsAsked ==
  pruOn /\ ppc = "loop" /\ ~flag =>
    \A m \in Motors : asked[m].named =>
      /\ (m \in enabled) = asked[m].ena
      /\ (m \in direction) = asked[m].dir
      /\ asked[m].period # 0 => reload[m] = asked[m].period

(* PRU1 never changes the pins of a motor the command does not name.       *)
OthersKept ==
  [][ppc = "drive" /\ ppc' = "finish" =>
       \A m \in Motors \ named :
         /\ (m \in enabled') = (m \in enabled)
         /\ (m \in direction') = (m \in direction)]_vars

(* The counter of an enabled motor was loaded with a step period of its    *)
(* own, so its next step is no farther away than the longest of them.  It  *)
(* does not hold: a motor that no command named counts down from Wrap - 1. *)
CounterLoaded ==
  \A m \in enabled : \E p \in Periods \cup {Initial} : count[m] <= p
=============================================================================
