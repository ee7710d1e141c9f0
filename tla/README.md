# Verification of BBRemoteIO / BBRemotePRU

TLA+ models of the remote I/O system for the BeagleBone: the Linux daemon
`src/BBRemoteIO` and the firmware of the two PRUs,
`src/BBRemotePRU/pru_firmware/src`. TLC checks the models on small instances;
TLAPS proves the safety invariants and the refinements for every value of the constants.

    tlc -workers 2 -config CommandTask.cfg MCCommandTask.tla
    tlapm CommandProofs.tla

## The system

Clients send JSON commands over MQTT. The mosquitto thread of the daemon accepts
a command and passes it to the thread of the function (`adc`, `gpio_input`,
`gpio_output_get`, `gpio_output_set`, `motor_get`, `motor_set`, `system`). That
thread talks to PRU1 (digital) or PRU0 (ADC) through words of shared memory that
both sides poll, and reports through a queue that one publisher thread empties.
A display thread shows messages on an LCD. SIGINT shuts the daemon down.

### Inventory

| Part (source) | State | Operations | What makes it correct |
|---|---|---|---|
| Command dispatch (`mqtt_callback.c`) | the seven `*_running` flags, each with its mutex | test flag, set flag, malloc, validate, enqueue; error paths free and clear | one command at a time per function; no error path leaves a flag set or a block leaked |
| System thread (`system.c`) | none of its own | stop one function or all, start and stop PRUs, LCD text | a stop reaches the thread it names and wedges nobody |
| Main (`main.c`) | `running` of the process | start; on SIGINT clear flags, sleep 3 s, stop the network thread, unmap, shut the queues down, join, destroy | comes to its end; nothing is used after it is gone |
| Task queue (`task_queue.c`) | item, full, shutdown, mutex, condition | enqueue (refuses when full), dequeue (blocks), shutdown | nothing lost or taken twice, no lost wake-up |
| Send queue and publisher (`mqtt_send_queue.c`, `mqtt_publish.c`) | ring of 128, head, tail, count, two conditions | enqueue (blocks when full), dequeue, shutdown (drains) | FIFO, bounded, no lost wake-up, shutdown releases all |
| LCD queue and display thread (`lcd_queue.c`, `lcd_display.c`) | ring, availability of the display | show (drops when full), dequeue, probe, reset, shutdown | order kept across resets, no lost wake-up, drained at the end |
| GET functions (`gpio_input.c`, `gpio_output_get.c`, `motor_get.c`) | flag word and data word shared with PRU1 | on demand, trigger mode, time-out, stop | fresh answers, no duplicates, always ends, leaves no trigger bit |
| SET functions (`gpio_output_set.c`, `motor_set.c`) | as above, and the four step period words | OR mask and values, raise flag, poll completion | pins end up as asked last, "done" means done |
| ADC function (`adc.c`) | producer and consumer threads, their FIFO, `producer_running`, RAM0, start flag, data-ready word, period and size words | configure, poll, copy, insert, publish, join | batches are the signal: complete, ordered, untorn; every command ends |
| PRU1 (`pru1-digital.asm`) | pins, step counters, interrupt status | serve each flag in turn, for ever | serves what was asked, changes nothing else |
| PRU0 (`pru0-analog.asm`) | position in RAM0, sample count, limits and period as loaded at the start | load, sample, store, mark a half | halves and limits agree with what Linux reads |
| Validator (`message_validator.c`) | the data block it fills | accept or refuse a message | accepts only what the threads and PRUs can serve, and fills every cell they read |
| Responses (`mqtt_response.c`) | - | print a response, publish it | prints only what was filled in |
| Motor values (`motor.c`) | rpm, steps per revolution, micro step of each motor | written by motor_set, read by motor_get | agree with what PRU1 does |
| Power control, memory map, LCD driver, logging | see "Not modelled" | | |

### How the parts interact, and what is hard

- *Flags as locks.* `is_running` and `set_running` are two critical sections, and
  the handler, the worker, the system thread and main all write the flag. The
  flag is at once the lock that keeps a second command out and the signal that
  tells the worker to stop.
- *Ownership by hand.* A command's data block is allocated by the handler, passed
  through the one-slot queue and freed by the worker, or by the handler on each of
  its error paths.
- *Shared words without atomicity.* The mutexes in `shared_memory.h` exclude Linux
  threads from each other. The PRUs take no mutex: load, modify and store on one
  side interleave with those on the other.
- *Time-outs and stops.* A thread that gives up leaves its request in shared
  memory, to be served later or merged with the next one.
- *Two sources of one answer.* motor_get mixes what PRU1 sampled with what motor_set
  wrote on Linux; no lock spans both.
- *A register shared by three triggers.* PRU1 reads the interrupt status once per loop,
  not in every loop, and its acknowledge clears more than it means to.
- *A blocking reporter.* Everybody reports through one bounded queue, main and the network
  thread included, while main takes the client, the memory and the queue away.
- *Seven copies of one path.* Validators, threads, PRU1 and responses must agree on
  cells, modes and sizes.
- *PRU restart.* PRU1 erases the shared words when it starts, under the feet of a
  thread that waits for an answer, and those of PRU0 with them. PRU0, switched on
  under a command, may begin its acquisition anew.
- *Parameters read once.* PRU0 loads period and size as it begins an acquisition; the
  producer of the next command copies by its own.
- *Wake-ups.* Three hand-written queues and the ADC FIFO, each with `cond_signal`,
  `cond_broadcast` and a shutdown flag of its own style.
- *Rates.* PRU0 waits for nobody; Linux polls. Two double-buffer halves separate them.
- *Numbers.* Buffer sizes are rounded on both sides, 32-bit counters wrap, parallel
  arrays are indexed in two ways.

`PROJECT.json` lists each of these as a hazard at the line where it bites, with
the properties that look for it.

## The modules

| Module | Stands for | State in the code | Actions in the code |
|---|---|---|---|
| `CommandTask` | dispatch, system thread, life of a command, shutdown | `running`: the flags; `slot`, `closed`: the task queues; `heap`, `payload`: blocks and what they say; `hpc/htask/hblk`, `wpc/wblk`, `mpc/mlist`: program counters and locals | `Receive` (`is_running`), `Claim` (`set_running`), `Alloc`, `Validate`, `Enqueue`, `EnqueueFails`, `GiveUp`; `Dequeue`, `Rearm`, `WorkDone`, `WorkStopped`, `SpawnFails`, `OrphanEnds`, `Clear`, `Free`, `Exit`; `SystemStop`; `Signal`, `MainStop`, `Disconnect`, `Unmap`, `CloseQueue`, `Join`, `Fault` |
| `TaskQueue`, `Mailbox` | `task_queue.c` at the grain of mutex and condition; what it promises | `owner`, `pc`: the mutex and who is where; `full`, `item`, `shutdown` | call, lock, the body of each function, wait, spurious wake-up |
| `Intake` | a command's data from message to answer: `mqtt_callback.c`, `message_validator.c`, the threads' switches, `mqtt_response.c` | `msg`, `block`; `cells`: those the validator wrote | `Arrive` (a topic, any message), `Refuse`, `Accept`, `TakeExchange`, `TakeOther`, `Answer`, `Return` |
| `Lifecycle` (extends `SendQueue`) | `main.c` from "Ready" to its end, with the network thread and the function threads as callers of the send queue | `stage`: where main is; `keepRunning`; `running`, `queued`, `job`: flag, task queue and step of each function | `Test`, `Pause`, `Signal`, `Announce`, `StopAll`, `Disconnect`, `Destroy`, `Unmap`, `Close*`, `Join*`, `DestroyQueues`; `Command`, `Report`; `Start`, `Answer`, `AnswerOn`, `Stopped`, `Finish`, `Exit`, `Fault` |
| `SendQueue`, `BoundedFifo` | `mqtt_send_queue.c`, `mqtt_publish.c`; what they promise | ring, `head`, `tail`, `count`, wait sets | `Publish`, `Enqueue`, `EnqueueWait`, `EnqueueFails`, `Dequeue*`, `Published`, `Shutdown` |
| `LcdQueue` | `lcd_queue.c`, `lcd_display.c` | ring, the thread's `available` and message in hand | `Show`, `Dequeue*`, `Probe`, `Reset`, `Display`, `Shutdown` |
| `PruGet` | a GET command, `gpio_input.c` against PRU1 | `flag`, `ready`: the two words; `wreg`, `preg`: registers between a load and its store | every load and store of a shared word, `Timeout`, `Stopped`, the trigger `Edge`, PRU stop and start |
| `MotorGet` | `motor_get.c` against `motor_set.c`, and the three triggers of PRU1 | `speeds`; the flag and data words; `irq`, `r23`; `motorPins` | `Start`, `TakeEna`, `TakeDir`, `TakeSpeeds`, `GiveUp`; `SetData`, `SetSpeeds`, `SetRaise`, `SetEnd`; PRU1's loop level by level, `Edge`, `PowerOff`, `PowerOn` |
| `PruSet` | a SET command, `gpio_output_set.c` against PRU1 | `request`, `data`: the two words; `setReg`, `driveReg`: registers; `level`: the pins | `Ask`, the data word bit by bit, `Raise`, `Done`, `GiveUp`; `PruTake` to `PruFinish`, `PowerOff`, `PowerOn` |
| `AdcPipeline` | ADC thread, producer, FIFO, consumer, PRU0 | the start flag, `dataready`, `setting`: the words with period and size, `mine`: those of the command, `kept`: those in PRU0's registers; both halves of RAM0, `fifo`, `producing` | `Configure`, `Start`, `Poll`, `Unmark`, `CopyHalf`, `Insert`, `Finish`, `Broadcast`, `HaltPru`, the consumer's wait, `Pru*`; `ClearShared`: PRU1's start, `PruOff`, `PruOn` |
| `AdcBuffer` | the words of RAM0 in an acquisition | `ram` word by word, PRU0's r4 and r12 | `Sample` (four stores), `Copy`, `Done` |
| `MotorSet` | a motor_set command from message to step counter | data word, period words, r10..r17 | `Command`, `PruTake`, `PruDrive`, `PruFinish`, `PruPass` |

`Lifecycle` is the send queue with its callers: `SendQueue`'s steps, taken by threads
that do what main, the network thread and the functions do, so that its invariants and
the refinement `ImplementsFifo` are checked where the queue is used, from "Ready" to
`send_queue_destroy`. `CommandTask` has the finer view of a command's flag, block and
task queue.

`CommandTask` uses the task queue as one atomic slot. That `TaskQueue` may be used so is
the refinement `ImplementsMailbox`; that `CommandTask` uses it as that mailbox, with the
worker as its only consumer, is the theorem `QueuesAreMailboxes`. It lets "work" last any
time; what happens in it is `PruGet`, `PruSet`, `MotorSet` and `AdcPipeline`, whose
commands start only while the function is free, which is what `FlagIsLock` gives (without
a stop that hits a pending command). The one thread whose work has threads of its own is
`adc`: when the first cannot be created it returns ("dead"), when the second cannot, the
first goes on without it ("orphaned") until it is done, stopped or out of time.

Operators whose comment begins "Mutant of ..." are plausible bugs of the operator
they follow. They are no part of `Next`; `PROJECT.json` "mutants" names, for each
property, the one that breaks it.

## The runs

| Run | Question | Instance and why it is enough |
|---|---|---|
| `command` | Who owns a command's data, and what does the running flag mean, under every interleaving of commands, stops, failures and a shutdown? Is a queued command taken, and does the shutdown end? | The thread that may lose its helper threads (adc), one that re-arms its flag (gpio_output_set), the system thread; two blocks: a handler's and one in a queue or worker. The properties speak of one or two threads. No symmetry: some are liveness properties. |
| `command_stop` | Does a stop end the work? **No.** | As `command`, with a trigger mode and none of the failing threads. SIGINT ends the obligation, so the counterexample is one of the running daemon: stop, next command, work that goes on. |
| `task_queue` | Does the one-slot queue implement the mailbox? | Two producers (the daemon has one), two items, spurious wake-ups. |
| `lifecycle` | Is the send queue a bounded FIFO without lost wake-ups while main shuts down around it? Does the daemon end, with the network thread, main and a function blocked on a full queue? | Main, the network thread and one function thread on three places: full, empty and wrap-around occur together with every wait set and every stage of main; main's farewell is told apart from the reports of the others. |
| `lcd_queue` | The same of the display queue, with resets | Three places, seven messages: twice round the ring. |
| `pru_get` | Does a GET end, publish no sample twice and leave no trigger bit? What can be stale or torn in an answer? | Finite as it is: one mode-0 and one mode-1 bit, one sample with its age. Copying a response is two steps, its first pin and the rest. |
| `motor_get` | Do pins and speeds of an answer belong together? Is every trigger edge answered, and once? | One motor_set (`MaxSets`): the setting before it, it, and what a restart leaves. One of the three trigger sources is watched, any of them. |
| `intake` | Do validators, threads, PRU1 and responses agree on cells, modes and sizes? | Two channels: lists up to one too long, entries and modes from one below to one above the range; rates and sizes at the ends of every limit, and the ADC's three modes, with and without trigger. |
| `pru_set` | Do the pins end up as asked? | Two of the four pins: a command can name one and leave the other. |
| `adc_pipeline` | Is what is published the signal? Does every command end? | Two commands of one or two double buffers, a FIFO of two nodes, ten batches of an acquisition (`MaxCommands`, `MaxBatches`): two more than both commands can publish. Two pairs of period and size (`Settings`), which the commands share or not, and one restart of a PRU (`MaxRestarts`), switching off or PRU1's erasure; 0 stands for words erased. |
| `adc_buffer` | Do stores, limits and copies agree word by word? | Every size and length up to 40 that the validator accepts with maxima of 24 and 40: both remainders of half a size modulo 4, one to five double buffers. |
| `motor_set` | Do enable, direction and period reach the motor they were asked for? | Two motors, named alone or together in both orders; a period of its own, the initial one and an uninitialised 0 are told apart; counters modulo 3. |

Runs with `CHECK_DEADLOCK FALSE` stop where the system does: after a shutdown, at
the end of an acquisition, or at a bound on commands or messages.

### Assumptions on time

Some behaviour rests on rates that no lock enforces. They are constants:

- `PruPrompt` (`PruGet`), `SetPrompt` (`PruSet`): PRU1, when on, serves a request before
  the thread's next access to the flag word (`PruGet`), or before the function's next
  command (`PruSet`). Its loop takes microseconds; the thread sleeps milliseconds
  between polls.
- `KeepsUp` (`AdcPipeline`): PRU0 does not fill a half before the producer has
  copied the other. The validator asks for this: its `min_buffer_size` makes a
  buffer last at least 20 ms (`PRU_LINUX_PROCESS`). When the size is a multiple of 8, a
  half lasts ten of the producer's sleeps or more; when it is not, PRU0 rounds its half
  down and marks it early, and only six are sure (size 12 at rate 600: 4 samples, 6.7 ms).
  `PollsInTime` of `Intake` says so, and both numbers are the best possible. `KeepsUp` asks
  the same of an older acquisition that PRU0 goes on with, whose size and rate its own
  command was accepted with. It excludes that PRU0 stores the data-ready word between the
  producer's load and store of it (`adc.c:250`): what then happens no property says.
- `Cardinality(Producers) <= Capacity` (`SendQueue`): about a dozen threads, 128
  places. `NoLostWakeup` needs it: a producer that is signalled and then cannot
  allocate does not pass the signal on.

### Fairness

A thread that is ready to take a step takes it (weak fairness per thread): all are
ordinary POSIX threads. A thread that wants a mutex gets it although others come
and go, strong fairness where the mutex is explicit (`TaskQueue`); where a critical
section is one step, weak fairness says the same. Sleeps and time-outs run out. PRU1
goes round its loop while it is on; PRU0 marks a full half and sees the start flag,
but no run assumes that it samples, which depends on an external trigger. Commands,
stops, signals, failures of malloc and spurious wake-ups are never forced, and a
trigger mode at work need not end: it does so when it is stopped.

In `Lifecycle` a thread that finds room in the send queue again and again gets a place,
and one that waits for room is signalled in its turn (strong fairness; glibc wakes
older waiters first). Without this a trigger mode or a flood of commands could keep main
out of a full queue for ever: nothing in the code gives its "Shutting down..." precedence.

### What the runs show

Everything in the passing runs holds. One check of a stated intention is a run of its own:

- **A stop can be lost** (`command_stop`). A stop writes FALSE to the flag that is
  also the lock. Until the worker looks, which takes up to a poll period, the
  function seems free; the next command sets the flag to TRUE again and the worker
  never sees the stop. A trigger mode goes on, and the new command waits behind it.

More intentions are stated in the modules and do not hold; TLC refutes each
when it takes the place of the properties in the cfg named:

- `NoWorkAfterUnmap` (`CommandTask.cfg`, an INVARIANT): a command
  accepted in the 3 s between `task_all_stop` and `mosquitto_disconnect`
  (`main.c:165-171`) sets its flag again and its worker still polls when the memory is
  unmapped.
- `SigintEnds` (`Lifecycle.cfg`, a PROPERTY): a SIGINT between the test of `keep_running`
  and `pause` (`main.c:155-156`) does not wake main, which pauses until the next signal,
  although `main.c:154` says that it waits while `keep_running` is 1. `DaemonEnds` says
  that in every other case the daemon ends.
- `ClientOutlives` (`Lifecycle.cfg`, an INVARIANT): main destroys the client
  (`main.c:173`) before the publisher is through with the queue and before the workers
  are joined, so `mosquitto_publish` may be called with a destroyed client. What holds is
  that the queue itself is destroyed unused (`DestroyedUnused`).
- `FreshAnswer` (`PruGet.cfg`, an INVARIANT): the data-ready bit of the answer before is
  never erased in mode 0, so the next command finds it set at its first poll and answers
  with the old sample, although `gpio_input.c:136` says that it waits for the data.
  `FreshUnlessLeftover` says that this, and a restart under the copy, is the only way.
- `NeverWiped` (`MotorGet.cfg`, an INVARIANT): PRU1 acknowledges one trigger by reading the
  status register, setting a bit and writing all back; a 1 clears, so an edge of another
  trigger latched by then is lost. `NoEdgeLost` says that this is the only way.
- `DoneMeansApplied` (`PruSet.cfg`, a PROPERTY): the completion bit is never erased,
  so from the second command on "done" is reported at the first poll.
  `AppliedAsAsked` shows that the pins follow all the same.
- `OwnAcquisition` (`AdcPipeline.cfg`, an INVARIANT): a start flag cleared and set
  again within one sample period does not restart PRU0, and the new command publishes
  the old acquisition. `IsTheSignal` and `DoneIsComplete` say what holds all the same:
  consecutive batches of one acquisition, at most one short. They say nothing of the words
  within such a batch: PRU0 still has the period and the size it loaded for the command
  before (`pru0-analog.asm:319-323`), so when the new command's differ, it copies words
  that are stale, or not all that were sampled, at a rate that is not its own. When the
  acquisition is the command's own, the size kept is the size copied.
- `CounterLoaded` (`MotorSet.cfg` with `Wrap = 4`, an INVARIANT): every motor_set loads the period of
  all motors, 0 for one never named. Its counter wraps to 2^32 - 1, and when the
  motor is enabled later it takes no step until that has run down.

Some of the passing properties say exactly how far the code goes:

- `PublishedIsSignal` of `AdcBuffer`: PRU0 rounds half a buffer down to a multiple of
  4 (`pru0-analog.asm:321`), Linux does not (`adc.c:147`). For sizes 12, 20, 28, ...
  the last two samples of a batch were not stored by this half. `SamplesPublished` counts
  what that costs: a finished acquisition has num_samples samples of signal for multiples
  of 8, else 4 fewer for every buffer_size asked for, where `mqttCommands.md:43` says that
  N samples are obtained.
- `IsTheSignal` and `DoneIsComplete` of `AdcPipeline` except a PRU0 that is switched off and
  on under a command and finds the start flag still set: it begins anew in half 0. Its
  firmware means to clear the flags first, but stores through r10 before r10 is loaded
  (`pru0-analog.asm:141, 146`), so whether it does depends on what r10 holds.
- `ServedAsAsked` of `MotorSet`: enable and direction follow the motor's entry in the
  message, the step period the entry whose index is the motor's number
  (`motor_set.c:178`). They agree when the message names the motors in order
  (as the examples of `mqttCommands.md` do); else a motor gets the period of
  another, or what malloc left. `ReadsOnlyWritten` of `Intake` says that this is the only
  cell a thread reads that its validator did not write.
- `AcceptedIsServed` of `Intake` lists what passes the validators and is not served: mode 1
  of the outputs and of motor_set, mode 2 of motor_get (it raises a flag that no firmware
  reads and runs into its time-out), the action `pause`; and ADC commands that the time-out
  of 50 s (`adc.h:8`, `adc.c:222`) ends. The validator does not look at it: at rates up to
  10 a command may end without one batch (rate 1, size 1024: a half takes 512 s), at rates
  up to 100, or in the modes that go on, before all it asked for. With an external trigger
  either may happen at any rate. The branches of `system.c` that
  would set the flag of an idle function are reached by no accepted message.
- `Coherent` of `MotorGet`: pins and speeds of an answer may belong to two settings while a
  motor_set is under way, or after a restart of PRU1; at no other time.
- `OnceInFreshLoop` of `MotorGet`: an edge may be answered twice only in a loop that has not
  read the status register, because it served an on-demand GPIO input or was the first
  after a start (`pru1-digital.asm:228-232`).

Differences between code and documents met on the way, that no property is about: a
system message names `gpio_output_get`, `gpio_output_set`, `motor_get` and `motor_set`,
where `mqttCommands.md` and `readme.md:10` say `gpio_output` and `motor`; the comment at
`motor.h:61-64` computes another step factor than the formula beside it.

## The proofs

Every safety invariant that a passing run checks, the action property `OthersKept` and
the safety halves of both refinements are theorems, for every value of the constants: any
functions, threads, blocks, capacities, motors, pins, sizes and numbers of commands.
They rest on the ASSUMEs of the modules, which TLC evaluates in every run:

- distinct names; `StopOrder` a sequence of tasks;
- a send queue of finite capacity with at least as many places as producers
  ("Assumptions on time"); for the display any capacity from 1 on;
- `MotorLists` lists of motors; at least one channel;
- `SizeMin >= 8` in `AdcBuffer`, `ADC_BUFFER_SIZE_MIN` (`adc.h:43`), and a half of RAM0
  that has room for half the largest buffer;
- `PruPrompt`, `SetPrompt` and `KeepsUp`, where a theorem or its property names them. The other
  theorems hold without.

A module of proofs EXTENDS the modules it is about. Three of them are about two components
that belong together (`CommandTask` and `Intake`, `PruGet` and `PruSet`, `MotorSet` and
`MotorGet`); their variables are disjoint and the second has names of its own for its
initial states, steps and specification (`IntakeSpec`, `SetSpec`, `GetSpec`).

Each property is proved from an inductive invariant, a conjunction of named parts: the
property alone says too little of the steps in between. The invariant is shown to hold
initially and to be kept, action by action; TLC checked each on the instance of the
run first.

| Theorems | Property | What the inductive invariant adds |
|---|---|---|
| `CommandProofs`: `TypeCorrect`, `NeverStuckBusy`, `FlagLocks` | `TypeOK`, `NoStuckBusy`, `FlagIsLock` | `LockInv`. `ClaimIsFree`: between the test of a flag and its set nobody else makes the function busy, since only the mosquitto thread claims. `HandlerHolds` ties the handler's step to its block, `JoinedIsOver` main's last steps to the end of all workers. |
| `BlocksHaveOneOwner` | `OneOwner` | `OwnerInv`: malloc returns a block outside the heap, and from there each step hands it on (`HandlerHolds`, `WorkerHolds`). |
| `QueuesAreMailboxes` | `Mailbox`'s steps, for every slot | `OwnerInv`. Each step of handler, worker and main is a step of the thread's `Mailbox` or a stutter (`QueueStep`): a worker at its queue has no block (`WorkerHolds`), so its `Dequeue` is a take and its `Exit` a leave. `Join`, where main destroys the queues, is exempt. |
| `ServesItsOwnCommands`, `CommandsStayIntact` | none that a run checks | `OwnerInv`. Queues carry pointers, so a command arrives as it was validated only because its block has one owner: the handler writes its own block alone, and a freed address comes back to the handler alone (`IntactStep`). |
| `FilledBeforeRead`, `AcceptedMeansServed`, `ProducerPollsInTime` | `ReadsOnlyWritten`, `AcceptedIsServed`, `PollsInTime` of `Intake` | `IntakeInv`. `Validated`: a block that has left the handler is one the validator lets through, and the cells written are those of its list. The ADC's time-out and polls are arithmetic of an accepted block (`HalfFacts`). |
| `TaskQueueProofs`: `TypeCorrect`, `NobodyOversleeps` | `TypeOK`, `NoLostWakeup` | `QueueInv`: the owner of the mutex is the one thread inside (`MutexHeld`); slot, item and buffers agree. |
| `MailboxImplemented` | `Abstract!Safety`, of `ImplementsMailbox` | The same. Each step of the queue is a step of `Mailbox` or a stutter; `SlotFull` and `BufferTaken` make `Dequeue` a take. |
| `LifecycleProofs`: `TypeCorrect`, `RingIsSound`, `NobodyOversleeps` | `TypeOK`, `RingOK`, `NoLostWakeup` under `SendQueue`'s `Spec` | `RingInv`: a producer on its way in holds a message (`ArgsHeld`), and places from head on are distinct (`PlaceOneToOne`). Each dequeue wakes one sleeper, so sleepers never exceed messages: cardinalities of finite sets (`FewerWaiting`). |
| `DaemonKeepsTypes`, `DaemonKeepsRing`, `DaemonLosesNoWakeup`, `QueueDestroyedUnused` | the same, and `DestroyedUnused`, under `DaemonSpec` | `DaemonInv`. A step of the daemon takes one of the queue, except that main destroys it. `OutOfQueue`: which threads cannot be in it at which stage of main; `Joined`: whom main has waited for; `PublisherOK`: a publisher that has left has left nothing. |
| `FifoImplemented` | `Fifo!Safety`, of `ImplementsFifo` | `DaemonInv`. The ring, read `count` places from head on, is the FIFO's sequence: `Enqueue` appends, `Dequeue` takes the head, everything else stutters. |
| `LcdQueueProofs`: `TypeCorrect`, `AscendingForEver`, `NobodyOversleeps` | indices within the ring, `AscendingQueue`, `NoLostWakeup` | `LcdInv`: the tail is `count` places after the head (`TailAfterLast`), nothing is newer than the last message accepted (`NoneNewer`). Why an old text left by a reset is never shown. |
| `DisplayedInOrder` | every new text on the display is a later one | `LcdInv`, and `InHand`: from dequeue to display the message in hand is newer than the one on the display. |
| `PruProofs`: `TypeCorrect`, `SamplesOnce` | `TypeOK`, `NoDuplicate` of `PruGet` | `NewSince`: what a trigger command finds ready was written since it erased the word. Nothing is said of PRU1's speed. |
| `TriggersTakenBack`, `AnswersAreFresh` (`PruPrompt`) | `NoTriggerLeft`, `FreshUnlessLeftover` | `OwnTrigger`: outside a trigger mode its bit is in no register that will be stored. `OneAnswer`: PRU1 rests before and after its one answer. |
| `SetTypeCorrect`, `PinsFollow` (`SetPrompt`) | types, `AppliedAsAsked` of `PruSet` | `SetInv`. The sides alternate (`Alternate`), a command finds no bit of another (`NothingLeft`), and its order is in the word, in PRU1's register or on the pins (`Collected`, `Carried`). |
| `MotorProofs`: `TypeCorrect`, `MotorsFollow`, `OthersAreKept` | widths of the counters, `ServedAsAsked`, `OthersKept` of `MotorSet` | `MotorInv`. PRU1 finds in the word the motors of one command (`OneCommand`); each motor's order is in the word or on its pins (`Served`). |
| `GetTypeCorrect`, `EdgesWait`, `AnsweredOnce` | types, `NoEdgeLost`, `OnceInFreshLoop` of `MotorGet` | `EdgeInv`: an edge that is latched, or that this loop has read and not come to, is unanswered. |
| `AnswersAreCoherent` | `Coherent` | `SettingInv`: a setting is in the word until it is on the pins (`Pending`); with no motor_set at work, sample and answer are what the pins were (`SampleHolds`, `AnswerHolds`). |
| `AdcPipelineProofs`: `TypeCorrect`, `NobodyOversleeps` | `TypeOK` (with the FIFO's limit), `NoSleepAfterEnd` | `Phases`: how far command, producer and consumer are of each other. Holds however fast PRU0 is. |
| `SignalIsPublished`, `DoneHasAll` (`KeepsUp`) | `IsTheSignal`, `DoneIsComplete` | `InStream`: there are an acquisition, its setting and a first batch from which on published batches, the consumer's item, the FIFO, the producer's node and the marked half are consecutive (`Stretch`), and they come in pairs of halves (`Pairs`). `Source` says where the next batch comes from: PRU0 has begun nothing (`Untaken`), will mark nothing more (`Ended`: off, or no start flag), is at it (`Filling`) or about to mark it (`Marking`). |
| `AdcBufferProofs`: `TypeCorrect`, `BatchesAreSignal`, `CountIsPublished` | types, `PublishedIsSignal`, `SamplesPublished` | `BufferInv`: PRU0's offset follows from its count (`Layout`), a half holds the next stretch of the signal up to that count (`Contents`), halves and iterations agree (`Pairs`); the rest is arithmetic of half a size modulo 4 (`Rounding`). |
| `MarkedIsKept`, `WritesStayInside` | PRU0 changes no sample of a half that waits for its copy, and writes no farther than the word after RAM0 | `BufferInv`. A store may spill into the other half only where it makes a half full, and there the guard excludes that the other one waits. |

Two of them took counterexamples to find. A command that continues an older acquisition
may begin with the second half of a pair, hence the three numbers of `Stream`: the
acquisition, the batches before the first, the half of the first. And of a buffer below 8
samples PRU0 rounds half to none at all, so the proofs of `AdcBuffer` need the least size
that the validator accepts.

Only model-checked:

- liveness: `QueuedIsServed` and `ShutdownEnds` of `CommandTask`, `ShutdownEnds` of
  `LcdQueue`, `RaisedIsApplied`, `CommandEnds` of `PruGet` and of `AdcPipeline`,
  `DaemonEnds`, and the fairness of `Mailbox` and `BoundedFifo` in the two
  refinements. TLAPS does not prove properties under fairness here (ENABLED);
- that the intentions named above do not hold: each is a behaviour that TLC shows.

## Abstractions worth knowing

- The size tests in `mqtt_send_queue.c:65-69` and `task_queue.c:51-55` are left out: no
  caller's size makes them fail.
- `CommandTask` gives the handlers one shape; they are copies of each other. The copy
  of the thread arguments that each handler allocates, and a string that
  `mqtt_publish_async` drops when the other could not be copied, are not tracked.
- `PruGet` keeps one sample with its age instead of pins and time stamp.
- `MotorGet` changes a word, and runs a level of PRU1's loop, in one step; the races for the
  bits of a word are those of `PruGet` and `PruSet`. A setting is a number; the step factor
  is not published and so not in the answer.
- `Intake` tells apart lists, their lengths and ranges, modes, actions and the ADC's sizes;
  a missing or ill-typed field is one kind of refused message.
- `Lifecycle` has no system command; a stop before SIGINT is in `CommandTask`. Its
  `Command` goes by a flag and a full queue, without the failures of `CommandTask`.
- A motor or output list that names one twice (the values are ORed) is not modelled.
- The ADC's entries are stored as 4 bytes, 2 apart, so the last store of a half spills
  into the next word; `AdcBuffer` has that word.
- `AdcPipeline` has a number for each pair of period and size, and 0 for words that PRU1's
  start has erased: with a size of 0 PRU0 meets no limit, with a period of 0 a sample takes
  43 s, so it marks no half before the time-out. That erasure is one step, a microsecond of
  four stores; PRU0's own start and stop come at any of its steps. Words within a batch are
  those of the setting the batch was sampled with; `AdcBuffer` has them one by one, for a
  size that both sides share.
- `Intake` lets an ADC command end as its rate, size and number of samples allow while PRU0
  runs and nobody stops it; an external trigger may come late or never.
- In `AdcBuffer` a half is copied in one step and in time; interleaving is the matter
  of `AdcPipeline`.

## Not modelled, and why

- The texts of responses, logging, LCD driver: formatting and I/O, no state.
- A `control_pru` that fails (`pru_control.c` writes to sysfs through a shell): the PRU then
  stays as it is, which the models contain, and the display says so.
- Start of the daemon: sequential, exits at the first error.
- The calls for the display in main's shutdown: `lcd_show_message` never blocks.
- The mosquitto library: external; `mosquitto_publish` is assumed to return, and a client
  that loses its broker reconnects by itself.
- PRU pin multiplexing, ADC set-up: straight-line initialisation.
- Generated objects, listings, the node-RED flow, `test_mem.c`, `system.c.save`.

## Plan

Done: `CommandTask` with `TaskQueue` (everything passes through them), `SendQueue` and
`Lifecycle`, the exchange with the PRUs and the rivals for it (`PruGet`, `PruSet`,
`MotorSet`, `MotorGet`), the ADC, the display, the intake; proofs of type correctness, of
all safety invariants and of both refinements, and of the use that `CommandTask` makes of
its queues.

Left, in this order:

1. The same for the send queue: that what `Lifecycle` lets its threads publish refines the
   reports of `CommandTask` and of `AdcPipeline`, which leave publishing out.
2. One PRU1 for `PruGet`, `MotorGet` and `PruSet` at the grain of loads and stores, to see
   their races together.
3. The ring of `SendQueue` and that of `LcdQueue` share their arithmetic
   (`PlaceOneToOne`, `AfterPlace`); one module of lemmas could serve both.
