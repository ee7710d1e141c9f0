------------------------------- MODULE PruGet -------------------------------
(***************************************************************************)
(* A GET command at work: a function thread (gpio_input.c; gpio_output_get *)
(* and motor_get have the same shape) and PRU1 (pru1-digital.asm) exchange *)
(* two words of shared memory, a flag word and a data word.                *)
(*                                                                         *)
(* Linux sets the flag bit of a mode; PRU1, polling, answers with a sample *)
(* of the pins and the data-ready bit in the data word.  On demand         *)
(* (mode 0) PRU1 clears the flag bit and answers once; in a trigger mode   *)
(* (mode 1) it answers every trigger edge while the bit is set.            *)
(*                                                                         *)
(* The mutexes of shared_memory.h exclude Linux threads from each other,   *)
(* not the PRU: every load and every store of a shared word is a step of   *)
(* its own, on both sides.                                                 *)
(***************************************************************************)
EXTENDS Naturals

CONSTANT
  PruPrompt   \* BOOLEAN: PRU1, when it runs, serves a mode-0 request before
              \* the function thread's next access to the flag word

ASSUME PruGetAssumption == PruPrompt \in BOOLEAN

OnDemand == 0     \* the modes are also the bits of the flag word
Trigger  == 1
Modes    == {OnDemand, Trigger}

VARIABLES
  flag,       \* flag word: the set of mode bits that are 1
  ready,      \* data word: its data-ready bit ...
  fresh,      \* ... and, for the sample in it, whether it was taken since
              \* the command in progress started,
  reported,   \* and whether it has been published already
  running,    \* <function>_running
  wpc, mode, wreg,   \* function thread: step, mode, word loaded for a store
  answered,   \* the thread has published a response to this command
  stale,      \* a response to this command was sampled before it started
  leftover,   \* the data-ready bit was set already when it started
  torn,       \* a response took its pins from two values of the data word
  erased,     \* PRU1 restarted while a response was being copied
  twice,      \* ... or a sample was published twice during this command
  pruOn, ppc, preg, pfresh,   \* PRU1: power, step, register, sample's age
  edge        \* a trigger edge is latched in the interrupt status register

seen   == <<answered, stale, leftover, torn, erased, twice>>
linux  == <<running, wpc, mode, wreg, seen>>
pru    == <<pruOn, ppc, preg, pfresh, edge>>
word   == <<ready, fresh, reported>>
vars   == <<flag, word, linux, pru>>

Init ==
  /\ flag = {} /\ ready = FALSE /\ fresh = FALSE /\ reported = FALSE
  /\ running = FALSE
  /\ wpc = "idle" /\ mode = OnDemand /\ wreg = {} /\ answered = FALSE
  /\ stale = FALSE /\ leftover = FALSE /\ twice = FALSE
  /\ torn = FALSE /\ erased = FALSE
  /\ pruOn = TRUE /\ ppc = "loop" /\ preg = {} /\ pfresh = FALSE
  /\ edge = FALSE
-----------------------------------------------------------------------------
(***************************************************************************)
(* The function thread.                                                    *)
(***************************************************************************)
Step(from, to) == wpc = from /\ wpc' = to

(* With PruPrompt, PRU1 is done with mode 0 when Linux loads the flag word *)
(* to change it, and with its last answer when a command starts: a loop of *)
(* PRU1 takes a few microseconds, and the thread comes here with a new     *)
(* command or after polls of milliseconds.                                 *)
Served == PruPrompt /\ pruOn => ppc # "clear" /\ OnDemand \notin flag
Quiet  == PruPrompt /\ pruOn => ppc = "loop" /\ OnDemand \notin flag

(* A command is dequeued, its running flag set by the handler; samples     *)
(* taken so far are now older than the command.                            *)
Start(m) ==
  /\ Step("idle", "load") /\ Quiet
  /\ mode' = m /\ running' = TRUE
  /\ answered' = FALSE /\ stale' = FALSE /\ twice' = FALSE
  /\ leftover' = ready /\ torn' = FALSE /\ erased' = FALSE
  /\ fresh' = FALSE /\ pfresh' = FALSE
  /\ UNCHANGED <<flag, ready, reported, wreg, pruOn, ppc, preg, edge>>

(* shared[flag_index] |= (1 << trigger_flag): a load and a store.          *)
LoadFlag ==
  /\ Step("load", "store") /\ Served
  /\ wreg' = flag
  /\ UNCHANGED <<flag, word, running, mode, seen, pru>>

(* Mutant of StoreFlag: modes are counted from 1.                          *)
StoreFlagShifted ==
  /\ wpc = "store"
  /\ flag' = wreg \cup {mode + 1}
  /\ wpc' = IF mode = Trigger THEN "round" ELSE "wait"
  /\ UNCHANGED <<word, running, mode, wreg, seen, pru>>

StoreFlag ==
  /\ wpc = "store"
  /\ flag' = wreg \cup {mode}
  /\ wpc' = IF mode = Trigger THEN "round" ELSE "wait"
  /\ UNCHANGED <<word, running, mode, wreg, seen, pru>>

(* Mutant of Round: the running flag is not looked at.                     *)
RoundUnstoppable ==
  /\ wpc = "round"
  /\ wpc' = IF Trigger \in flag THEN "wait" ELSE "unload"
  /\ UNCHANGED <<flag, word, running, mode, wreg, seen, pru>>

(* Each round of a trigger mode looks at the running flag and at its own   *)
(* flag bit, in this order.                                                *)
Round ==
  /\ wpc = "round"
  /\ wpc' = IF running /\ Trigger \in flag THEN "wait" ELSE "unload"
  /\ UNCHANGED <<flag, word, running, mode, wreg, seen, pru>>

(* The wait loop reads the running flag, then the data-ready bit; the bit  *)
(* wins.                                                                   *)
Ready ==
  /\ wpc = "wait" /\ ready
  /\ wpc' = "copy"
  /\ UNCHANGED <<flag, word, running, mode, wreg, seen, pru>>

(* Mutant of AfterWait: the thread returns and leaves its flag bit set.    *)
AfterWaitReturns == "idle"

AfterWait == IF mode = Trigger THEN "unload" ELSE "idle"

Stopped ==
  /\ wpc = "wait" /\ ~ready /\ ~running
  /\ wpc' = AfterWait
  /\ UNCHANGED <<flag, word, running, mode, wreg, seen, pru>>

(* After 5 s of sleeps the loop gives up, without looking again.           *)
Timeout ==
  /\ wpc = "wait"
  /\ wpc' = AfterWait
  /\ running' = (mode = Trigger /\ running)
  /\ UNCHANGED <<flag, word, mode, wreg, seen, pru>>

(* The response takes each of its pins from the data word, one load per    *)
(* pin: the first, and the others.  Then it is published; the word is      *)
(* erased in trigger modes only (clear_after_read).                        *)
CopyFirst ==
  /\ Step("copy", "rest")
  /\ stale' = (stale \/ ~fresh)
  /\ UNCHANGED <<flag, word, running, mode, wreg, answered, leftover, torn,
                 erased, twice, pru>>

CopyRest ==
  /\ wpc = "rest"
  /\ stale' = (stale \/ ~fresh)
  /\ twice' = (twice \/ (answered /\ reported))
  /\ reported' = TRUE
  /\ answered' = TRUE
  /\ wpc' = IF mode = Trigger THEN "erase" ELSE "idle"
  /\ running' = (mode = Trigger /\ running)
  /\ UNCHANGED <<flag, ready, fresh, mode, wreg, leftover, torn, erased, pru>>

(* Mutant of Erase: the data word is not erased.                           *)
EraseNothing ==
  /\ Step("erase", "round")
  /\ UNCHANGED <<flag, word, running, mode, wreg, seen, pru>>

Erase ==
  /\ Step("erase", "round")
  /\ ready' = FALSE
  /\ UNCHANGED <<flag, fresh, reported, running, mode, wreg, seen, pru>>

(* shared[flag_index] &= ~(1 << trigger_flag) at the end of a trigger      *)
(* mode, again a load and a store; then the thread clears running.         *)
Unload ==
  /\ Step("unload", "unstore") /\ Served
  /\ wreg' = flag
  /\ UNCHANGED <<flag, word, running, mode, seen, pru>>

Unstore ==
  /\ Step("unstore", "idle")
  /\ flag' = wreg \ {Trigger}
  /\ running' = FALSE
  /\ UNCHANGED <<word, mode, wreg, seen, pru>>

(* A stop command, at any moment.                                          *)
Stop ==
  /\ running
  /\ running' = FALSE
  /\ UNCHANGED <<flag, word, wpc, mode, wreg, seen, pru>>

Linux ==
  \/ \E m \in Modes : Start(m)
  \/ LoadFlag \/ StoreFlag \/ Round \/ Ready \/ Stopped \/ Timeout
  \/ CopyFirst \/ CopyRest \/ Erase \/ Unload \/ Unstore \/ Stop
-----------------------------------------------------------------------------
(***************************************************************************)
(* PRU1.                                                                   *)
(***************************************************************************)
PruStep(from, to) == pruOn /\ ppc = from /\ ppc' = to

(* MAIN_LOOP sees the mode-0 bit; GPIO_INPUT_MODE0 then clears it with a   *)
(* load and a store of the whole word.                                     *)
PruLoad ==
  /\ PruStep("loop", "clear") /\ OnDemand \in flag
  /\ preg' = flag
  /\ UNCHANGED <<flag, word, linux, pruOn, pfresh, edge>>

PruClear ==
  /\ PruStep("clear", "sample")
  /\ flag' = preg \ {OnDemand}
  /\ UNCHANGED <<word, linux, pruOn, preg, pfresh, edge>>

(* Without a mode-0 request the interrupt status is read; an edge is       *)
(* served, and acknowledged, only when its mode is enabled.                *)
PruTrigger ==
  /\ PruStep("loop", "sample") /\ OnDemand \notin flag
  /\ edge /\ Trigger \in flag
  /\ edge' = FALSE
  /\ UNCHANGED <<flag, word, linux, pruOn, preg, pfresh>>

(* Mutant of PruSample: the pins are not loaded, the register still holds  *)
(* an earlier sample.                                                      *)
PruSampleKeeping ==
  /\ PruStep("sample", "write")
  /\ UNCHANGED <<flag, word, linux, pruOn, preg, pfresh, edge>>

PruSample ==
  /\ PruStep("sample", "write")
  /\ pfresh' = TRUE
  /\ UNCHANGED <<flag, word, linux, pruOn, preg, edge>>

PruWrite ==
  /\ PruStep("write", "loop")
  /\ ready' = TRUE /\ fresh' = pfresh /\ reported' = FALSE
  /\ torn' = (torn \/ wpc = "rest")
  /\ UNCHANGED <<flag, running, wpc, mode, wreg, answered, stale, leftover,
                 erased, twice, pruOn, preg, pfresh, edge>>

(* The trigger input rises; the controller latches the edge, enabled or    *)
(* not, PRU running or not.                                                *)
Edge ==
  /\ ~edge /\ edge' = TRUE
  /\ UNCHANGED <<flag, word, linux, pruOn, ppc, preg, pfresh>>

(* system.c stops and starts the PRU; SETUP erases the shared words.       *)
PruStop ==
  /\ pruOn /\ pruOn' = FALSE
  /\ UNCHANGED <<flag, word, linux, ppc, preg, pfresh, edge>>

PruStart ==
  /\ ~pruOn /\ pruOn' = TRUE
  /\ ppc' = "loop"
  /\ flag' = {} /\ ready' = FALSE /\ fresh' = FALSE /\ reported' = FALSE
  /\ torn' = (torn \/ wpc = "rest")
  /\ erased' = (erased \/ wpc \in {"copy", "rest"})
  /\ UNCHANGED <<running, wpc, mode, wreg, answered, stale, leftover, twice,
                 preg, pfresh, edge>>

Pru1 == PruLoad \/ PruClear \/ PruTrigger \/ PruSample \/ PruWrite

Next == Linux \/ Pru1 \/ Edge \/ PruStop \/ PruStart

Spec == Init /\ [][Next]_vars

(* The thread runs and its sleeps add up to the time-out; PRU1 runs its    *)
(* loop while it is on.  Commands, stops and edges are not forced.         *)
WorkerProgress ==
  LoadFlag \/ StoreFlag \/ Round \/ Ready \/ Stopped \/ Timeout
    \/ CopyFirst \/ CopyRest \/ Erase \/ Unload \/ Unstore

FairSpec == Spec /\ WF_vars(WorkerProgress) /\ WF_vars(Pru1)
-----------------------------------------------------------------------------
TypeOK ==
  /\ flag \subseteq Modes /\ wreg \subseteq Modes /\ preg \subseteq Modes
  /\ ready \in BOOLEAN /\ fresh \in BOOLEAN /\ reported \in BOOLEAN
  /\ running \in BOOLEAN /\ answered \in BOOLEAN
  /\ stale \in BOOLEAN /\ leftover \in BOOLEAN /\ twice \in BOOLEAN
  /\ torn \in BOOLEAN /\ erased \in BOOLEAN
  /\ wpc \in {"idle", "load", "store", "round", "wait", "copy", "rest", "erase",
              "unload", "unstore"}
  /\ mode \in Modes
  /\ pruOn \in BOOLEAN /\ pfresh \in BOOLEAN /\ edge \in BOOLEAN
  /\ ppc \in {"loop", "clear", "sample", "write"}

(* A trigger command publishes every sample of PRU1 at most once: after    *)
(* its first response the word it copies was written since it erased it.   *)
NoDuplicate == mode = Trigger => ~twice

(* With PRU1 prompt, no command leaves its trigger bit behind, whatever    *)
(* way it ended and whatever PRU1 did to the flag word meanwhile: PRU1     *)
(* answers edges for nobody else's sake.                                   *)
NoTriggerLeft == PruPrompt /\ wpc = "idle" => Trigger \notin flag

(* Every command ends: an on-demand one by itself, with PRU1 on or off, a  *)
(* trigger mode once the function's flag is cleared, even while PRU1       *)
(* floods it with samples.                                                 *)
CommandEnds ==
  (wpc # "idle" /\ (mode = OnDemand \/ ~running)) ~> wpc = "idle"

(* The pins in the answer to an on-demand command come from one sample,    *)
(* taken after it was asked, unless an earlier answer was still in the     *)
(* data word when the command came, or PRU1 restarted under the copy: no   *)
(* time-out, stop or trigger command before it gives it another old        *)
(* sample, or half of one.                                                 *)
FreshUnlessLeftover ==
  mode = OnDemand /\ (stale \/ torn) => leftover \/ erased

(* The answer to an on-demand command is a sample taken for it.  It does   *)
(* not hold: mode 0 never erases the data word, and its first poll finds   *)
(* the data-ready bit of the command before.                               *)
FreshAnswer == mode = OnDemand => ~stale
=============================================================================
