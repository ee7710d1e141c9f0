---------------------------- MODULE AdcPipeline ----------------------------
(***************************************************************************)
(* The ADC pipeline: PRU0 (pru0-analog.asm) fills the two halves of RAM0   *)
(* in turn and marks each full half in the data-ready word; the producer   *)
(* thread (adc.c) polls that word, copies the half and appends it to a     *)
(* FIFO; the consumer thread takes it out and publishes it.  The ADC       *)
(* thread creates both threads for each command and joins them.            *)
(*                                                                         *)
(* PRU0 waits for nobody.  The constants say how fast it is relative to    *)
(* Linux; its loads and stores of the shared word interleave freely with   *)
(* those of the producer.  It loads the sample period and the size once,   *)
(* as it begins an acquisition: a number stands for the pair of them.  The *)
(* system thread may switch PRU0 off and on again, and PRU1, whose         *)
(* firmware begins by clearing the shared words.                           *)
(***************************************************************************)
EXTENDS Naturals, Sequences

CONSTANTS
  Iterations,   \* the values of num_iteration, pairs of halves per command
  MaxQueue,     \* MAX_QUEUE_SIZE
  KeepsUp,      \* BOOLEAN: PRU0 fills a half only after the producer has
                \* copied the other (the validator's min_buffer_size)
  Settings,     \* pairs of a sample period and a size of the halves
  MaxCommands,  \* bound on the commands
  MaxBatches,   \* bound on the batches of one acquisition
  MaxRestarts   \* bound on the restarts of the PRUs

ASSUME AdcAssumption ==
  /\ Iterations \subseteq Nat
  /\ Settings \subseteq Nat \ {0}
  /\ MaxQueue \in Nat \ {0} /\ MaxCommands \in Nat /\ MaxBatches \in Nat
  /\ MaxRestarts \in Nat
  /\ KeepsUp \in BOOLEAN

VARIABLES
  running,    \* adc_running
  producing,  \* producer_running
  apc,        \* ADC thread: waiting for a command, or for both threads
  commands,   \* commands served so far
  ppc, mine, total, iteration, dreg, half, node, outcome,
              \* producer: step, sample_period and pru_buffer_size,
              \* num_iteration, iteration, word loaded, half chosen, copy of
              \* the half, why it ended
  cpc, item,  \* consumer: step and the batch it holds
  fifo,       \* the FIFO, queue_size long
  start,      \* the start flag of PRU0
  dataready,  \* data-ready word: the halves marked full
  setting,    \* the words with period and size, Cleared if either is 0
  ram,        \* the batch in each half, Torn while it is being filled
  pru, fill, count, acq, kept, preg,
              \* PRU0: step, half, batches of this acquisition, the command
              \* that started it, period and size loaded (r11, r5 and r6),
              \* data-ready word loaded
  restarts,   \* restarts of the PRUs so far
  again,      \* history: PRU0 was switched on during this command with the
              \* start flag set, and begins anew
  published   \* history: what this command has published

adc      == <<running, producing, apc, commands>>
producer == <<ppc, mine, total, iteration, dreg, half, node, outcome>>
consumer == <<cpc, item, published>>
shared   == <<start, dataready, setting>>
pru0     == <<pru, fill, count, acq, kept, preg>>
power    == <<restarts, again>>
vars == <<adc, producer, consumer, fifo, shared, ram, pru0, power>>

Halves == {0, 1}
Cleared == 0
Words   == Settings \cup {Cleared}
Batch   == [acq : 0..MaxCommands, n : 0..MaxBatches, setting : Words]
Torn    == [acq |-> 0, n |-> 0, setting |-> Cleared]

Init ==
  /\ running = FALSE /\ producing = FALSE /\ apc = "wait" /\ commands = 0
  /\ ppc = "off" /\ mine = Cleared /\ total = 0 /\ iteration = 0 /\ dreg = {} /\ half = 0
  /\ node = Torn /\ outcome = "none"
  /\ cpc = "off" /\ item = Torn /\ published = <<>>
  /\ fifo = <<>>
  /\ start = FALSE /\ dataready = {} /\ setting = Cleared
  /\ ram = [h \in Halves |-> Torn]
  /\ pru = "main" /\ fill = 0 /\ count = 0 /\ acq = 0 /\ kept = Cleared
  /\ preg = {} /\ restarts = 0 /\ again = FALSE
-----------------------------------------------------------------------------
(***************************************************************************)
(* The ADC thread.                                                         *)
(***************************************************************************)

(* A command is dequeued: fifo_reset, then both threads are created.       *)
Command(n, s) ==
  /\ apc = "wait" /\ commands < MaxCommands
  /\ apc' = "join" /\ commands' = commands + 1
  /\ running' = TRUE /\ producing' = TRUE
  /\ fifo' = <<>> /\ published' = <<>>
  /\ ppc' = "config" /\ mine' = s /\ total' = n /\ iteration' = 0
  /\ outcome' = "none"
  /\ cpc' = "check" /\ again' = FALSE
  /\ UNCHANGED <<dreg, half, node, item, shared, ram, pru0, restarts>>

Join ==
  /\ apc = "join" /\ ppc = "off" /\ cpc = "off"
  /\ apc' = "wait" /\ running' = FALSE
  /\ UNCHANGED <<producing, commands, producer, consumer, fifo, shared, ram,
                 pru0, power>>

(* A stop command, at any moment.                                          *)
Stop ==
  /\ running /\ running' = FALSE
  /\ UNCHANGED <<producing, apc, commands, producer, consumer, fifo, shared,
                 ram, pru0, power>>
-----------------------------------------------------------------------------
(***************************************************************************)
(* The producer.  fifo_mutex is held by the consumer while it is "holding".*)
(***************************************************************************)
FifoFree == cpc # "holding"

(* Mutant of Configure: the data-ready word is not erased.                 *)
ConfigureKeepingBits ==
  /\ ppc = "config" /\ ppc' = "start"
  /\ pru # "mark"
  /\ setting' = mine
  /\ UNCHANGED <<adc, mine, total, iteration, dreg, half, node, outcome,
                 consumer, fifo, start, dataready, ram, pru0, power>>

(* Mutant of Configure: period and size are stored only where none are.    *)
ConfigureOnce ==
  /\ ppc = "config" /\ ppc' = "start"
  /\ pru # "mark"
  /\ setting' = (IF setting = Cleared THEN mine ELSE setting) /\ dataready' = {}
  /\ UNCHANGED <<adc, mine, total, iteration, dreg, half, node, outcome,
                 consumer, fifo, start, ram, pru0, power>>

(* Period and size are stored and the data-ready word is erased.  PRU0 is  *)
(* then long done with the few instructions of its "mark" step, but it     *)
(* reads the start flag once per sample only, up to a second apart, and    *)
(* may not have seen that it was clear.                                    *)
Configure ==
  /\ ppc = "config" /\ ppc' = "start"
  /\ pru # "mark"
  /\ setting' = mine /\ dataready' = {}
  /\ UNCHANGED <<adc, mine, total, iteration, dreg, half, node, outcome,
                 consumer, fifo, start, ram, pru0, power>>

(* The start flag is raised.                                               *)
Start ==
  /\ ppc = "start" /\ ppc' = "check"
  /\ start' = TRUE
  /\ UNCHANGED <<adc, mine, total, iteration, dreg, half, node, outcome,
                 consumer, fifo, dataready, setting, ram, pru0, power>>

(* Mutant of Finish: there is no time-out.                                 *)
FinishUntimed ==
  /\ ppc = "check"
  /\ \/ iteration >= total /\ outcome' = "done"
     \/ iteration < total /\ ~running /\ outcome' = "stopped"
  /\ ppc' = "ended"
  /\ UNCHANGED <<adc, mine, total, iteration, dreg, half, node, consumer, fifo,
                 shared, ram, pru0, power>>

(* The top of the loop: the time is out, all is done, or adc_running is    *)
(* FALSE, in this order.                                                   *)
Finish ==
  /\ ppc = "check"
  /\ \/ outcome' = "timeout"
     \/ iteration >= total /\ outcome' = "done"
     \/ iteration < total /\ ~running /\ outcome' = "stopped"
  /\ ppc' = "ended"
  /\ UNCHANGED <<adc, mine, total, iteration, dreg, half, node, consumer, fifo,
                 shared, ram, pru0, power>>

(* Mutant of Poll: the first half of a pair counts the iteration.          *)
PollCountingFirst ==
  /\ ppc = "check" /\ iteration < total /\ running
  /\ FifoFree /\ Len(fifo) < MaxQueue /\ dataready # {}
  /\ ppc' = "unmark"
  /\ half' = IF 0 \in dataready THEN 0 ELSE 1
  /\ iteration' = IF 0 \in dataready THEN iteration + 1 ELSE iteration
  /\ dreg' = dataready
  /\ UNCHANGED <<adc, mine, total, node, outcome, consumer, fifo, shared, ram,
                 pru0, power>>

(* Mutant of Poll: the space in the FIFO is not looked at.                 *)
PollAlways ==
  /\ ppc = "check" /\ iteration < total /\ running
  /\ FifoFree /\ dataready # {}
  /\ ppc' = "unmark"
  /\ half' = IF 0 \in dataready THEN 0 ELSE 1
  /\ iteration' = IF 0 \in dataready THEN iteration ELSE iteration + 1
  /\ dreg' = dataready
  /\ UNCHANGED <<adc, mine, total, node, outcome, consumer, fifo, shared, ram,
                 pru0, power>>

(* The loop goes on, and when the FIFO has space the data-ready word is    *)
(* looked at: half 0 first, half 1 counting an iteration.                  *)
Poll ==
  /\ ppc = "check" /\ iteration < total /\ running
  /\ FifoFree /\ Len(fifo) < MaxQueue /\ dataready # {}
  /\ ppc' = "unmark"
  /\ half' = IF 0 \in dataready THEN 0 ELSE 1
  /\ iteration' = IF 0 \in dataready THEN iteration ELSE iteration + 1
  /\ dreg' = dataready
  /\ UNCHANGED <<adc, mine, total, node, outcome, consumer, fifo, shared, ram,
                 pru0, power>>

(* The store of shared[...] &= ~(1 << half).                               *)
Unmark ==
  /\ ppc = "unmark" /\ ppc' = "copy"
  /\ dataready' = dreg \ {half} /\ dreg' = {}
  /\ UNCHANGED <<adc, mine, total, iteration, half, node, outcome, consumer,
                 fifo, start, setting, ram, pru0, power>>

(* PRU0 has stored the words of the half by the size it keeps, and the     *)
(* producer copies as many as its own size has.                            *)
CopyHalf ==
  /\ ppc = "copy" /\ ppc' = "insert"
  /\ node' = ram[half]
  /\ UNCHANGED <<adc, mine, total, iteration, dreg, half, outcome, consumer,
                 fifo, shared, ram, pru0, power>>

(* Insert at the tail and signal the consumer.                             *)
Awake == IF cpc = "asleep" THEN "check" ELSE cpc

Insert ==
  /\ ppc = "insert" /\ FifoFree
  /\ ppc' = "check"
  /\ fifo' = Append(fifo, node) /\ node' = Torn
  /\ cpc' = Awake
  /\ UNCHANGED <<adc, mine, total, iteration, dreg, half, outcome, item,
                 published, shared, ram, pru0, power>>

(* producer_running is cleared under a mutex of its own; then, under       *)
(* fifo_mutex, the consumer is woken; then the start flag is cleared.      *)
ClearProducing ==
  /\ ppc = "ended" /\ ppc' = "broadcast"
  /\ producing' = FALSE
  /\ UNCHANGED <<running, apc, commands, mine, total, iteration, dreg, half,
                 node, outcome, consumer, fifo, shared, ram, pru0, power>>

(* Mutant of Broadcast: nobody is woken.                                   *)
BroadcastNothing ==
  /\ ppc = "broadcast" /\ FifoFree
  /\ ppc' = "halt"
  /\ UNCHANGED <<adc, mine, total, iteration, dreg, half, node, outcome,
                 consumer, fifo, shared, ram, pru0, power>>

Broadcast ==
  /\ ppc = "broadcast" /\ FifoFree
  /\ ppc' = "halt"
  /\ cpc' = Awake
  /\ UNCHANGED <<adc, mine, total, iteration, dreg, half, node, outcome, item,
                 published, fifo, shared, ram, pru0, power>>

HaltPru ==
  /\ ppc = "halt" /\ ppc' = "off"
  /\ start' = FALSE
  /\ UNCHANGED <<adc, mine, total, iteration, dreg, half, node, outcome,
                 consumer, fifo, dataready, setting, ram, pru0, power>>

Producer ==
  Configure \/ Start \/ Finish \/ Poll \/ Unmark \/ CopyHalf \/ Insert
    \/ ClearProducing \/ Broadcast \/ HaltPru
-----------------------------------------------------------------------------
(***************************************************************************)
(* The consumer.                                                           *)
(***************************************************************************)

(* The FIFO is empty: producer_running decides, read with fifo_mutex held, *)
(* between the end and a wait that releases the mutex.                     *)
CheckEmpty ==
  /\ cpc = "check" /\ fifo = <<>>
  /\ cpc' = IF producing THEN "holding" ELSE "off"
  /\ UNCHANGED <<adc, producer, item, published, fifo, shared, ram, pru0,
                 power>>

Sleep ==
  /\ cpc = "holding" /\ cpc' = "asleep"
  /\ UNCHANGED <<adc, producer, item, published, fifo, shared, ram, pru0,
                 power>>

Take ==
  /\ cpc = "check" /\ fifo # <<>>
  /\ cpc' = "publish"
  /\ item' = Head(fifo) /\ fifo' = Tail(fifo)
  /\ UNCHANGED <<adc, producer, published, shared, ram, pru0, power>>

Publish ==
  /\ cpc = "publish" /\ cpc' = "check"
  /\ published' = Append(published, item) /\ item' = Torn
  /\ UNCHANGED <<adc, producer, fifo, shared, ram, pru0, power>>

Consumer == CheckEmpty \/ Sleep \/ Take \/ Publish
-----------------------------------------------------------------------------
(***************************************************************************)
(* PRU0.                                                                   *)
(***************************************************************************)

(* ADC_INIT, at once or on the trigger edge: period and size are loaded    *)
(* and the first half begun.                                               *)
PruInit ==
  /\ pru = "main" /\ start
  /\ pru' = "fill" /\ fill' = 0 /\ count' = 0
  /\ acq' = commands /\ kept' = setting
  /\ ram' = [ram EXCEPT ![0] = Torn]
  /\ UNCHANGED <<adc, producer, consumer, fifo, shared, preg, power>>

(* A sample is in; the start flag is read and found clear.                 *)
PruNotice ==
  /\ pru = "fill" /\ ~start
  /\ pru' = "main"
  /\ UNCHANGED <<adc, producer, consumer, fifo, shared, ram, fill, count, acq,
                 kept, preg, power>>

(* The last sample of the half is in, and the flag was still set: the      *)
(* data-ready word is loaded ...                                           *)
InTime(h) ==
  KeepsUp => /\ 1 - h \notin dataready
             /\ ppc \notin {"unmark", "copy"}

(* ... (never with a size of 0, which the counter does not meet; a period  *)
(* of 0 wraps round to 43 s, and the command expires before four samples)  *)
PruFull ==
  /\ pru = "fill" /\ start /\ kept # Cleared /\ count < MaxBatches
  /\ InTime(fill)
  /\ pru' = "mark" /\ count' = count + 1
  /\ ram' = [ram EXCEPT ![fill] = [acq |-> acq, n |-> count + 1, setting |-> kept]]
  /\ preg' = dataready
  /\ UNCHANGED <<adc, producer, consumer, fifo, shared, fill, acq, kept,
                 power>>

(* ... stored with the bit of the half, and the other half is begun.       *)
PruMark ==
  /\ pru = "mark" /\ pru' = "fill"
  /\ dataready' = preg \cup {fill} /\ preg' = {}
  /\ fill' = 1 - fill
  /\ ram' = [ram EXCEPT ![1 - fill] = Torn]
  /\ UNCHANGED <<adc, producer, consumer, fifo, start, setting, count, acq,
                 kept, power>>

Pru0 == PruInit \/ PruNotice \/ PruFull \/ PruMark
-----------------------------------------------------------------------------
(***************************************************************************)
(* Restarts, by messages to the system thread at any moment.               *)
(***************************************************************************)

(* Mutant of ClearShared: the start flag survives it.                      *)
ClearSharedKeepingStart ==
  /\ restarts < MaxRestarts /\ restarts' = restarts + 1
  /\ dataready' = {} /\ setting' = Cleared
  /\ UNCHANGED <<adc, producer, consumer, fifo, start, ram, pru0, again>>

(* PRU1 is started: it clears flag, data-ready word, period and size.  One *)
(* step, as PRU1 does it within a microsecond; what it may clear of a      *)
(* configuration half stored, it clears here before the flag is raised.    *)
ClearShared ==
  /\ restarts < MaxRestarts /\ restarts' = restarts + 1
  /\ start' = FALSE /\ dataready' = {} /\ setting' = Cleared
  /\ UNCHANGED <<adc, producer, consumer, fifo, ram, pru0, again>>

(* PRU0 is stopped, wherever it is ...                                     *)
PruOff ==
  /\ pru # "off" /\ pru' = "off"
  /\ restarts < MaxRestarts /\ restarts' = restarts + 1
  /\ UNCHANGED <<adc, producer, consumer, fifo, shared, ram, fill, count, acq,
                 kept, preg, again>>

(* ... and started.  Its firmware means to clear the flag, but stores      *)
(* through r10 before r10 is loaded: it depends on what r10 holds.         *)
PruOn ==
  /\ pru = "off" /\ pru' = "main"
  /\ start' \in {FALSE, start} /\ again' = (again \/ start')
  /\ UNCHANGED <<adc, producer, consumer, fifo, dataready, setting, ram, fill,
                 count, acq, kept, preg, restarts>>

Restarts == ClearShared \/ PruOff \/ PruOn

Next ==
  \/ \E n \in Iterations, s \in Settings : Command(n, s)
  \/ Join \/ Stop \/ Producer \/ Consumer \/ Pru0 \/ Restarts

Spec == Init /\ [][Next]_vars

(* The threads run and the producer's 50 s run out.  PRU0 runs: it marks   *)
(* the half it has filled and sees the start flag; that it samples at all, *)
(* with its trigger, is not assumed.                                       *)
FairSpec == Spec /\ WF_vars(Join) /\ WF_vars(Producer) /\ WF_vars(Consumer)
                 /\ WF_vars(Finish) /\ WF_vars(PruNotice \/ PruMark)
-----------------------------------------------------------------------------
(* The FIFO among them: it never holds more than its limit, although the   *)
(* space is looked at in one critical section and used in another.         *)
TypeOK ==
  /\ running \in BOOLEAN /\ producing \in BOOLEAN /\ start \in BOOLEAN
  /\ apc \in {"wait", "join"} /\ commands \in 0..MaxCommands
  /\ ppc \in {"off", "config", "start", "check", "unmark", "copy", "insert",
              "ended", "broadcast", "halt"}
  /\ mine \in Words /\ setting \in Words /\ kept \in Words
  /\ total \in Iterations \cup {0} /\ iteration \in Nat
  /\ dreg \subseteq Halves /\ preg \subseteq Halves /\ dataready \subseteq Halves
  /\ half \in Halves /\ fill \in Halves
  /\ outcome \in {"none", "timeout", "done", "stopped"}
  /\ cpc \in {"off", "check", "holding", "asleep", "publish"}
  /\ fifo \in Seq(Batch) /\ Len(fifo) <= MaxQueue
  /\ published \in Seq(Batch)
  /\ node \in Batch /\ item \in Batch /\ ram \in [Halves -> Batch]
  /\ pru \in {"main", "fill", "mark", "off"}
  /\ count \in 0..MaxBatches /\ acq \in 0..MaxCommands
  /\ restarts \in 0..MaxRestarts /\ again \in BOOLEAN

(* What a command publishes are consecutive batches of one acquisition     *)
(* with one setting, none missing, none twice, none taken while it was     *)
(* being filled, in order; and if it is the command's own acquisition, it  *)
(* is signal, from its first batch on, with the period and the size asked  *)
(* for, so that the words copied are the words PRU0 stored.  The exception *)
(* is a PRU0 switched on under the command with the start flag set.  Of an *)
(* older acquisition, which PRU0 goes on with if it has not seen the start *)
(* flag clear, nothing is said about the words within a batch: its period  *)
(* and size are those that PRU0 kept, and when the command's differ, words *)
(* of each batch are stale or left out, or sampled at another rate.        *)
IsTheSignal ==
  KeepsUp /\ ~again => \A i \in DOMAIN published :
    /\ published[i] # Torn
    /\ published[i].acq = published[1].acq
    /\ published[i].setting = published[1].setting
    /\ published[i].n = published[1].n + i - 1
    /\ published[i].acq = commands => published[i].n = i /\ published[i].setting = mine

(* A command that ends normally has published every batch asked for; one   *)
(* short, if it came upon an older acquisition in the middle of a pair.    *)
(* (Again but for a PRU0 that was switched on under it and began anew.)    *)
DoneIsComplete ==
  apc = "join" /\ ppc = "off" /\ cpc = "off" /\ outcome = "done" /\ ~again =>
    \/ Len(published) = 2 * total
    \/ Len(published) = 2 * total - 1 /\ published[1].acq # commands

(* Nobody sleeps through the end: when the producer is gone, the consumer  *)
(* is not asleep, whatever happened between its look at producer_running   *)
(* and its wait.                                                           *)
NoSleepAfterEnd == ppc \in {"halt", "off"} => cpc \notin {"holding", "asleep"}

(* Every ADC command ends: time-out or stop in the producer, drained FIFO  *)
(* and end of the consumer, join of both.                                  *)
CommandEnds == (apc = "join") ~> (apc = "wait")

(* Clearing the start flag stops the acquisition: what a command publishes *)
(* was sampled for it, with its own configuration.  It does not hold: PRU0 *)
(* may not have seen the flag clear.                                       *)
OwnAcquisition ==
  \A i \in DOMAIN published : published[i].acq = commands
=============================================================================
