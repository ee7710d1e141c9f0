----------------------------- MODULE AdcBuffer -----------------------------
(***************************************************************************)
(* The layout of RAM0 in one ADC acquisition of mode 0, word by word:      *)
(* where PRU0 (pru0-analog.asm) stores the samples of the four channels    *)
(* and how many of them make a half, and where and how many the producer   *)
(* thread (adc.c) reads, for every size the validator accepts.             *)
(*                                                                         *)
(* How the two interleave is the matter of module AdcPipeline; here the    *)
(* producer copies a half in one step, in time (KeepsUp there).            *)
(***************************************************************************)
EXTENDS Naturals

CONSTANTS
  Sizes,       \* the buffer_size clients ask for
  Lengths,     \* the num_samples clients ask for
  SizeMin, SizeMax, SamplesMax,  \* ADC_BUFFER_SIZE_MIN, _MAX, ADC_NUM_SAMPLES_MAX
  HalfWords    \* words of a half: PRU_RAM0_INDEX_MID, RAM0_BUFFER1_INDEX0 / 2

Channels == 0 .. 3

ASSUME BufferAssumption ==
  /\ Sizes \subseteq Nat /\ Lengths \subseteq Nat
  /\ SizeMin \in Nat /\ SizeMin >= 8
  /\ SizeMax \in Nat /\ SamplesMax \in Nat
  /\ HalfWords \in Nat /\ 4 * (SizeMax \div 2) <= HalfWords

VARIABLES
  size, samples,  \* buffer_size and num_samples of the command
  iteration,      \* of the producer
  start,          \* the start flag
  marked,         \* the data-ready word
  ram,            \* the words of RAM0 and the one that follows them
  offset, filled, \* PRU0: r4 in words, r12
  now,            \* samples PRU0 has taken
  copies, node    \* halves copied so far, and the last one as published

vars == <<size, samples, iteration, start, marked, ram, offset, filled, now,
          copies, node>>

Words == 0 .. 2 * HalfWords

(* What a word holds that is no sample: its value before the acquisition,  *)
(* or the upper half of the ADC's 32-bit FIFO entry.                       *)
Blank == <<>>

(* Mutant of Accepted: num_samples need not be a multiple of buffer_size.  *)
AcceptedUneven(b, n) ==
  /\ b \in SizeMin .. SizeMax /\ b % 4 = 0
  /\ n \in b .. SamplesMax

Accepted(b, n) ==
  /\ b \in SizeMin .. SizeMax /\ b % 4 = 0
  /\ n \in b .. (SamplesMax \div b) * b /\ n % b = 0

(* pru_buffer_size: the samples of one channel in a half, for Linux ...    *)
PerHalf == size \div 2

(* ... and r5, the same for PRU0: the shared word AND 0xFFFC.              *)
Limit == PerHalf - (PerHalf % 4)

Init ==
  /\ size \in Sizes /\ samples \in Lengths /\ Accepted(size, samples)
  /\ iteration = 0 /\ start = TRUE /\ marked = {}
  /\ ram = [w \in Words |-> Blank]
  /\ offset = 0 /\ filled = 0 /\ now = 0
  /\ copies = 0 /\ node = <<>>
-----------------------------------------------------------------------------
(***************************************************************************)
(* PRU0.                                                                   *)
(***************************************************************************)

(* Each entry of the ADC's FIFO is stored as 4 bytes, 2 bytes after the    *)
(* entry before, so the last one spills into the word that follows.        *)
Stored ==
  [w \in Words |->
     IF w \in offset .. offset + 3 THEN <<now, w - offset>>
     ELSE IF w = offset + 4 THEN Blank
     ELSE ram[w]]

(* The half this sample makes full, if any.                                *)
Full == IF filled + 1 = Limit THEN {0}
        ELSE IF filled + 1 = 2 * Limit THEN {1} ELSE {}

(* A full half sends r4 to the start of the other one; the second resets   *)
(* r12.                                                                    *)
Sample ==
  /\ start /\ (Full # {} => marked = {})
  /\ ram' = Stored /\ now' = now + 1
  /\ marked' = marked \cup Full
  /\ offset' = CASE Full = {0} -> HalfWords
                 [] Full = {1} -> 0
                 [] OTHER -> offset + 4
  /\ filled' = IF Full = {1} THEN 0 ELSE filled + 1
  /\ UNCHANGED <<size, samples, iteration, start, copies, node>>
-----------------------------------------------------------------------------
(***************************************************************************)
(* The producer.                                                           *)
(***************************************************************************)
Half == IF 0 \in marked THEN 0 ELSE 1

(* Mutant of Copied: the second half is read from where the first ends.    *)
CopiedPacked ==
  [i \in 0 .. PerHalf - 1 |->
     [ch \in Channels |-> ram[Half * 4 * PerHalf + 4 * i + ch]]]

(* The words of a half, sorted by sample and channel.                      *)
Copied ==
  [i \in 0 .. PerHalf - 1 |->
     [ch \in Channels |-> ram[Half * HalfWords + 4 * i + ch]]]

Copy ==
  /\ start /\ iteration < samples \div size /\ marked # {}
  /\ marked' = marked \ {Half}
  /\ iteration' = iteration + Half
  /\ node' = Copied /\ copies' = copies + 1
  /\ UNCHANGED <<size, samples, start, ram, offset, filled, now>>

Done ==
  /\ start /\ iteration >= samples \div size
  /\ start' = FALSE
  /\ UNCHANGED <<size, samples, iteration, marked, ram, offset, filled, now,
                 copies, node>>

Next == Sample \/ Copy \/ Done

Spec == Init /\ [][Next]_vars
-----------------------------------------------------------------------------
(* Every batch published begins with the next stretch of the signal, each  *)
(* sample under its own channel: all of the batch when half the size is a  *)
(* multiple of 4, else all but its last 2 samples, which PRU0 does not     *)
(* store.                                                                  *)
PublishedIsSignal ==
  \A i \in DOMAIN node : \A ch \in Channels :
    i < Limit => node[i][ch] = <<(copies - 1) * Limit + i, ch>>

(* A finished acquisition has published num_samples samples a channel when *)
(* half the size is a multiple of 4.  Else it falls short by 4 samples for *)
(* every buffer_size of them asked for: the last 2 of each batch, which    *)
(* the producer copies and the consumer prints although they are none.     *)
Missing == IF size % 8 = 0 THEN 0 ELSE 4 * (samples \div size)

SamplesPublished == ~start => copies * Limit + Missing = samples
=============================================================================
