------------------------------- MODULE Intake -------------------------------
(***************************************************************************)
(* One command's way from an MQTT message to its answer, followed through  *)
(* the data: the topic picks a handler (mqtt_callback.c), the handler a    *)
(* validator (message_validator.c), which fills the function's data block; *)
(* the function thread reads the block and serves it or not, according to  *)
(* its mode; PRU1 answers or not; the response (mqtt_response.c) publishes *)
(* what was filled in.                                                     *)
(*                                                                         *)
(* The seven chains are written by copying one of them.  They must agree   *)
(* on which cells of a block are written and which are read, on the modes  *)
(* that exist, and on the sizes the ADC producer can keep up with.         *)
(*                                                                         *)
(* A block is malloc'ed and never cleared: a cell that was not written     *)
(* holds what an earlier command left there.  Who is busy, and the queues, *)
(* are module CommandTask.                                                 *)
(***************************************************************************)
EXTENDS Integers, Sequences

CONSTANTS
  Channels,     \* size of the arrays: GPIO_*_NUM_MAX, MOTOR_NUM_MAX
  SampleRates,  \* sample rates a message may ask for
  BufferSizes   \* ... and buffer sizes

ASSUME IntakeAssumption ==
  /\ Channels \in Nat \ {0}
  /\ SampleRates \subseteq Nat /\ BufferSizes \subseteq Nat

Listing   == {"gpio_input", "gpio_output_get", "gpio_output_set",
              "motor_get", "motor_set"}   \* messages that list channels
Setting   == {"gpio_output_set", "motor_set"}
Functions == Listing \cup {"adc", "system"}

NoBlock   == [kind |-> "none"]
NoMessage == [task |-> "none", well |-> FALSE]

VARIABLES
  pc,      \* where the command is
  topic,   \* the topic the message came on
  msg,     \* the message
  block,   \* the data block its handler has put in the queue
  cells,   \* the cells of the block that the validator has written
  outcome  \* what became of the command before

intakeVars == <<pc, topic, msg, block, cells, outcome>>
-----------------------------------------------------------------------------
(***************************************************************************)
(* Messages.  Channels around the ends of their range, arrays from empty   *)
(* to one too long; "values" says of the other arrays of a SET message     *)
(* that they are right, of another length, or hold a value out of range    *)
(* (for motor_set: or a product of speed and steps above the limit).       *)
(***************************************************************************)
Lists == UNION {[1..n -> -1..Channels] : n \in 0..(Channels + 1)}
Modes == -1..3

ListMessages(f) ==
  {[task |-> f, well |-> TRUE, list |-> l, values |-> v, mode |-> k] :
     l \in Lists, k \in Modes,
     v \in {"right"} \cup (IF f \in Setting THEN {"missized", "outside"} ELSE {})}

AdcMessages ==
  {[task |-> "adc", well |-> TRUE, rate |-> r, buffer |-> b,
    samples |-> n * b + d, trigger |-> t, mode |-> k] :
     r \in SampleRates, b \in BufferSizes, n \in {0, 1, 5}, d \in {0, 4},
     t \in 0..2, k \in Modes}

SystemFunctions == {"lcd", "pru0", "pru1", "all_functions"} \cup
                   (Functions \ {"system"})
SystemActions   == {"clean", "start", "stop", "pause"}

SystemMessages ==
  {[task |-> "system", well |-> TRUE, function |-> f, action |-> a] :
     f \in SystemFunctions \cup {"unknown"}, a \in SystemActions \cup {"unknown"}}

(* A text that is no JSON object, and one that names another task.         *)
BadMessages == {[task |-> "none", well |-> w] : w \in BOOLEAN}

Messages(f) ==
  BadMessages \cup
  (IF f \in Listing THEN ListMessages(f)
   ELSE IF f = "adc" THEN AdcMessages
   ELSE SystemMessages)
-----------------------------------------------------------------------------
(***************************************************************************)
(* The validators.                                                         *)
(***************************************************************************)
ListOK(m) ==
  /\ Len(m.list) \in 1..Channels
  /\ \A i \in DOMAIN m.list : m.list[i] \in 0..(Channels - 1)

(* Mutant of MaxMode: the GPIO input has a mode more.                      *)
MaxModeMore ==
  [gpio_input |-> 3, gpio_output_get |-> 1, gpio_output_set |-> 1,
   motor_get |-> 2, motor_set |-> 1, adc |-> 2]

MaxMode ==
  [gpio_input |-> 2, gpio_output_get |-> 1, gpio_output_set |-> 1,
   motor_get |-> 2, motor_set |-> 1, adc |-> 2]

(* The frequencies of adc_sampling_table.                                  *)
SamplingTable ==
  {40000, 20000, 10000, 8000, 6000, 4000, 2000, 1000, 800, 600, 400, 200,
   100, 80, 60, 40, 20, 10, 8, 6, 4, 2, 1}

BufferMin == 8
BufferMax == 1024
SamplesMax == 5120

(* (int)(sample_rate * PRU_LINUX_PROCESS), which is 0.02 s.                *)
MinBuffer(rate) == rate \div 50

(* Mutant of AdcOK: the rate does not bound the buffer from below.         *)
AdcOKAnyBuffer(m) ==
  /\ m.rate \in SamplingTable
  /\ m.buffer \in BufferMin..BufferMax /\ m.buffer % 4 = 0
  /\ m.samples \in m.buffer..((SamplesMax \div m.buffer) * m.buffer)
  /\ m.samples % m.buffer = 0
  /\ m.trigger \in {0, 1}

AdcOK(m) ==
  /\ m.rate \in SamplingTable
  /\ m.buffer \in BufferMin..BufferMax /\ m.buffer % 4 = 0
  /\ m.buffer >= MinBuffer(m.rate)
  /\ m.samples \in m.buffer..((SamplesMax \div m.buffer) * m.buffer)
  /\ m.samples % m.buffer = 0
  /\ m.trigger \in {0, 1}

(* Which action a system message may ask of which function.                *)
SystemOK(m) ==
  \/ m.function = "lcd" /\ m.action = "clean"
  \/ m.function \in {"pru0", "pru1"} /\ m.action \in {"start", "stop", "pause"}
  \/ m.function \in SystemFunctions \ {"lcd", "pru0", "pru1"} /\ m.action = "stop"

Accepts(f, m) ==
  /\ m.well /\ m.task = f
  /\ f \in Listing => ListOK(m)
  /\ f \in Setting => m.values = "right"
  /\ f = "adc" => AdcOK(m)
  /\ f = "system" => SystemOK(m)
  /\ f # "system" => m.mode \in 0..MaxMode[f]

(* The arrays of a block, and the cells a validator fills: place i of each *)
(* array for entry i of the message.                                       *)
Arrays ==
  [gpio_input      |-> {"input"},
   gpio_output_get |-> {"output"},
   gpio_output_set |-> {"output", "state"},
   motor_get       |-> {"motor"},
   motor_set       |-> {"motor", "ena", "dir", "rpm", "step_per_rev",
                        "micro_step", "factor_step_time"}]

Places(m) == 0..(Len(m.list) - 1)

(* The block of the function, with the fields of the message.              *)
Block(f, m) == [x \in DOMAIN m \cup {"kind"} |-> IF x = "kind" THEN f ELSE m[x]]

Written(f, m) == IF f \in Listing THEN Arrays[f] \X Places(m) ELSE {}
-----------------------------------------------------------------------------
(***************************************************************************)
(* The function threads.                                                   *)
(***************************************************************************)
(* The modes of each thread's switch, and those PRU1 answers.              *)
ThreadModes ==
  [gpio_input |-> 0..2, gpio_output_get |-> {0}, gpio_output_set |-> {0},
   motor_get |-> 0..2, motor_set |-> {0}]

PruModes ==
  [gpio_input |-> 0..2, gpio_output_get |-> {0}, gpio_output_set |-> {0},
   motor_get |-> {0, 1}, motor_set |-> {0}]

(* Mutant of Taken: the SET thread reads the state of an output at the     *)
(* output's own number.                                                    *)
TakenByNumber(b) ==
  LET entries == Arrays[b.kind] \ {"state"}
      speeds  == IF b.kind = "motor_set"
                 THEN {"factor_step_time", "rpm", "step_per_rev", "micro_step"}
                 ELSE {}
  IN  ((entries \ speeds) \X Places(b))
      \cup ((speeds \cup (Arrays[b.kind] \cap {"state"}))
              \X {b.list[i] : i \in DOMAIN b.list})

(* The cells a thread reads while it serves the block: place i of each     *)
(* array for its entries; motor_set reads the speeds at the place of the   *)
(* motor's number.                                                         *)
Taken(b) ==
  LET speeds == IF b.kind = "motor_set"
                THEN {"factor_step_time", "rpm", "step_per_rev", "micro_step"}
                ELSE {}
  IN  ((Arrays[b.kind] \ speeds) \X Places(b))
      \cup (speeds \X {b.list[i] : i \in DOMAIN b.list})

(* The cells of the response structure that a GET thread fills ...         *)
Filled(b) ==
  (IF b.kind = "motor_get"
   THEN {"motor", "ena", "dir", "rpm", "step_per_rev", "micro_step"}
   ELSE Arrays[b.kind] \cup {"state"}) \X Places(b)

(* ... and the cells that its publish function prints.                     *)
Published(b) ==
  (CASE b.kind = "motor_get" ->
          {"motor", "ena", "dir", "rpm", "step_per_rev", "micro_step"}
     [] b.kind = "gpio_input" -> {"input", "state"}
     [] OTHER -> {"output", "state"}) \X Places(b)

(* The producer's wait between two polls, in ms: 10 when the pru_buffer_   *)
(* size samples of one batch take a second or more, else 1.                *)
HalfSize(b)  == b.buffer \div 2
SleepTime(b) == IF HalfSize(b) >= b.rate THEN 10 ELSE 1

(* The samples after which PRU0 marks a half: a multiple of 4.             *)
HalfLimit(b) == HalfSize(b) - (HalfSize(b) % 4)

(* The ADC's time-out in s (ADC_TIMEOUT_MS), the iterations the producer   *)
(* asks for (MODE1_SAMPLES_MAX unless the mode is 0), two halves each, and *)
(* whether so many halves are sampled within the time-out.                 *)
AdcTimeout == 50

Iterations(b) == IF b.mode = 0 THEN b.samples \div b.buffer ELSE 1000

Fits(b, halves) == halves * HalfLimit(b) < AdcTimeout * b.rate

(* How the producer ends, unless it is stopped and as long as PRU0 runs:   *)
(* with all it was asked for, by the time-out with some batches published, *)
(* or by the time-out with none.  An external trigger comes when it likes. *)
AdcOutcomes(b) ==
  {o \in {"answered", "expired", "silent"} :
     /\ o = "answered" => Fits(b, 2 * Iterations(b))
     /\ o = "expired"  => /\ Fits(b, 1)
                          /\ b.trigger = 1 \/ ~Fits(b, 2 * Iterations(b))
     /\ o = "silent"   => b.trigger = 1 \/ ~Fits(b, 1)}

(* What the system thread does with the flags of the functions.            *)
SystemOutcome(b) ==
  IF b.function = "lcd" THEN "cleared"
  ELSE IF b.function \in {"pru0", "pru1"}
       THEN IF b.action \in {"start", "stop"} THEN "powered" ELSE "invalid"
  ELSE IF b.action = "start" THEN "flagSet"
  ELSE IF b.action = "stop" THEN "stopped" ELSE "invalid"
-----------------------------------------------------------------------------
IntakeInit ==
  /\ pc = "idle" /\ topic = "none" /\ msg = NoMessage
  /\ block = NoBlock /\ cells = {} /\ outcome = "none"

(* message_callback, on a topic the daemon knows; any other it only logs.  *)
Arrive ==
  /\ pc = "idle" /\ pc' = "handler"
  /\ \E f \in Functions : topic' = f /\ msg' \in Messages(f)
  /\ UNCHANGED <<block, cells, outcome>>

Refuse ==
  /\ pc = "handler" /\ ~Accepts(topic, msg)
  /\ pc' = "done" /\ outcome' = "refused"
  /\ UNCHANGED <<topic, msg, block, cells>>

(* The handler enqueues the block its validator has filled; the thread of  *)
(* the queue takes it for a block of its own function.                     *)
Accept ==
  /\ pc = "handler" /\ Accepts(topic, msg)
  /\ pc' = "queued"
  /\ block' = Block(topic, msg)
  /\ cells' = Written(topic, msg)
  /\ UNCHANGED <<topic, msg, outcome>>

(* The switch of a thread that talks to PRU1 ...                           *)
TakeExchange ==
  /\ pc = "queued" /\ block.kind \in Listing
  /\ IF block.mode \in ThreadModes[block.kind]
     THEN pc' = "exchange" /\ UNCHANGED outcome
     ELSE pc' = "done" /\ outcome' = "invalid"
  /\ UNCHANGED <<topic, msg, block, cells>>

(* ... the ADC thread, which has no switch and whose producer runs in      *)
(* every mode, and the system thread.                                      *)
TakeOther ==
  /\ pc = "queued" /\ block.kind \in {"adc", "system"}
  /\ pc' = "done"
  /\ \/ block.kind = "adc" /\ outcome' \in AdcOutcomes(block)
     \/ block.kind = "system" /\ outcome' = SystemOutcome(block)
  /\ UNCHANGED <<topic, msg, block, cells>>

(* PRU1 answers the modes it knows; the others run into their timeout.     *)
Answer ==
  /\ pc = "exchange"
  /\ pc' = "done"
  /\ outcome' = IF block.mode \in PruModes[block.kind] THEN "answered" ELSE "unanswered"
  /\ UNCHANGED <<topic, msg, block, cells>>

(* The block is freed; the next command finds the daemon as this one did.  *)
Return ==
  /\ pc = "done"
  /\ pc' = "idle" /\ topic' = "none" /\ msg' = NoMessage
  /\ block' = NoBlock /\ cells' = {} /\ outcome' = "none"

IntakeNext ==
  \/ Arrive \/ Refuse \/ Accept
  \/ TakeExchange \/ TakeOther \/ Answer
  \/ Return

IntakeSpec == IntakeInit /\ [][IntakeNext]_intakeVars
-----------------------------------------------------------------------------
(* A thread takes from its block only cells that the validator of that     *)
(* function has written for this command, all inside the arrays, and a GET *)
(* publishes only cells its thread has filled.  The exception is           *)
(* motor_set.c 178-183, which looks the speeds up by motor number: a motor *)
(* whose number is not below the number of entries gets what the malloc'ed *)
(* block held (see MotorSet).                                              *)
ReadsOnlyWritten ==
  pc = "exchange" =>
    /\ \A c \in Taken(block) :
         \/ c \in cells /\ c[2] \in 0..(Channels - 1)
         \/ block.kind = "motor_set" /\ c[2] >= Len(block.list)
    /\ block.kind \notin Setting => Published(block) \subseteq Filled(block)

(* What a validator lets through is served, and the sender gets the answer *)
(* it asked for, but for these: mode 1 of the outputs and of motor_set and *)
(* the action "pause" are called invalid only after they were accepted;    *)
(* mode 2 of motor_get raises a flag that no firmware reads; and the       *)
(* validator does not hold an ADC command against the time-out of 50 s     *)
(* (adc.c 211-215).  Of a command without external trigger the time-out    *)
(* leaves nothing at all at rates up to 10 only, and cuts the series short *)
(* at rates up to 100 in mode 0, and in the other modes where the thousand *)
(* double buffers ask for it.  No system message sets the flag of a        *)
(* function that is not running, though system.c 158-168 and 250-261       *)
(* would: nothing would ever clear it.                                     *)
AcceptedIsServed ==
  /\ outcome = "unanswered" => block.kind = "motor_get" /\ block.mode = 2
  /\ outcome = "invalid" =>
       \/ block.kind \in {"gpio_output_get", "gpio_output_set", "motor_set"} /\ block.mode = 1
       \/ block.kind = "system" /\ block.action = "pause"
  /\ outcome = "silent" => block.trigger = 1 \/ block.rate <= 10
  /\ outcome = "expired" =>
       \/ block.trigger = 1
       \/ block.mode = 0 /\ block.rate <= 100
       \/ block.mode # 0 /\ 20 * block.buffer >= block.rate
  /\ outcome # "flagSet"

(* While PRU0 fills one half of the double buffer, whatever rate and size  *)
(* the validator let through, the producer polls ten times or more, its    *)
(* room for a late wake-up before a half is overwritten; where the half    *)
(* of the size is no multiple of 4, so that PRU0 marks it early, it polls  *)
(* six times or more.                                                      *)
PollsInTime ==
  block.kind = "adc" =>
    LET polls(n) == HalfLimit(block) * 1000 >= n * SleepTime(block) * block.rate
    IN  polls(6) /\ (block.buffer % 8 = 0 => polls(10))

=============================================================================
