------------------------- MODULE AdcPipelineProofs -------------------------
(***************************************************************************)
(* Proofs about AdcPipeline, for any numbers of iterations, commands,      *)
(* batches and restarts, any settings and any limit of the FIFO.           *)
(***************************************************************************)
EXTENDS AdcPipeline, SequenceTheorems, TLAPS

(***************************************************************************)
(* How far the threads are: what holds however fast PRU0 is.               *)
(***************************************************************************)
Polling == ppc \in {"check", "unmark", "copy", "insert"}
Busy    == ppc \in {"unmark", "copy", "insert"}

Phases ==
  /\ producing <=> Polling \/ ppc \in {"config", "start", "ended"}
  /\ start => ppc \notin {"off", "config", "start"}
  /\ apc = "wait" => ppc = "off" /\ cpc = "off"
  /\ cpc = "off" => fifo = <<>> /\ ~producing
  /\ acq <= commands
  /\ ppc # "off" => mine # Cleared
  /\ ppc \in {"config", "start"} =>
       /\ fifo = <<>> /\ published = <<>> /\ cpc # "publish"
       /\ iteration = 0 /\ acq # commands
  /\ ppc = "start" => dataready = {} /\ pru # "mark"
  /\ Polling \/ ppc = "start" => setting \in {mine, Cleared}
  /\ Polling \/ ppc \in {"config", "start"} => outcome = "none"
  /\ Busy => Len(fifo) < MaxQueue

(***************************************************************************)
(* Where the batches of this command are, from the first published to the  *)
(* one being filled: the producer has taken "Taken" of them, and one more  *)
(* may be marked.                                                          *)
(***************************************************************************)
Nth(a, n, s) == [acq |-> a, n |-> n, setting |-> s]

Drawn == Len(published) + (IF cpc = "publish" THEN 1 ELSE 0)
Taken == Drawn + Len(fifo) + (IF Busy THEN 1 ELSE 0)

Pending == ppc # "unmark" /\ dataready # {}

(* They are those after the b-th of the acquisition that command a began,  *)
(* with setting s.                                                         *)
Stretch(a, b, s) ==
  /\ \A i \in DOMAIN published : published[i] = Nth(a, b + i, s)
  /\ cpc = "publish" => item = Nth(a, b + Drawn, s)
  /\ \A i \in DOMAIN fifo : fifo[i] = Nth(a, b + Drawn + i, s)
  /\ ppc \in {"unmark", "copy"} => ram[half] = Nth(a, b + Taken, s)
  /\ ppc = "insert" => node = Nth(a, b + Taken, s)

(***************************************************************************)
(* What PRU0 does while the producer polls; g is the half that is to be    *)
(* taken next.  It has marked nothing yet, and may never mark anything ... *)
(***************************************************************************)
Untaken(g) ==
  /\ pru \in {"main", "off"} \/ (pru = "fill" /\ kept = Cleared)
  /\ Taken = 0 /\ dataready = {} /\ g = 0

(* ... or will mark nothing more, off or without its start flag ...        *)
Ended(a, b, s, g) ==
  /\ pru = "off" \/ (pru # "mark" /\ ~start)
  /\ Pending => dataready = {g} /\ ram[g] = Nth(a, b + Taken + 1, s)
  /\ ppc = "unmark" => dataready \subseteq {half} /\ dreg = {half}
  /\ ppc = "copy" => dataready = {}

(* ... or works on the batch that follows: the two are never at the same   *)
(* half, nor in the data-ready word together.                              *)
Filling(a, b, s, g) ==
  /\ pru = "fill" /\ acq = a /\ kept = s /\ dataready \subseteq {1 - fill}
  /\ count = b + Taken + (IF Pending THEN 1 ELSE 0)
  /\ Pending => ram[1 - fill] = Nth(a, count, s)
  /\ ppc \in {"unmark", "copy"} => half = 1 - fill
  /\ ppc = "unmark" => dreg = {half}
  /\ ppc = "copy" => dataready = {}
  /\ g = IF Pending THEN 1 - fill ELSE fill

Marking(a, b, s, g) ==
  /\ pru = "mark" /\ acq = a /\ kept = s /\ dataready = {} /\ preg = {}
  /\ ppc \notin {"unmark", "copy"}
  /\ count = b + Taken + 1 /\ ram[fill] = Nth(a, count, s) /\ g = fill

Source(a, b, s, g) ==
  Untaken(g) \/ Ended(a, b, s, g) \/ Filling(a, b, s, g) \/ Marking(a, b, s, g)

(* Batches come in pairs of halves, except that the first may be of half 1 *)
(* (h is the half of the first).                                           *)
Complete(h) == Taken + h = 2 * total \/ (Taken = 0 /\ total = 0)

Pairs(h, g) ==
  /\ Polling => /\ Taken + h = 2 * iteration + g
                /\ iteration <= total
                /\ iteration = total => Complete(h)
  /\ outcome = "done" => Complete(h)

(* Of its own acquisition a command has the batches from the first on,     *)
(* with its own setting.                                                   *)
Stream(a, b, s, h, g) ==
  /\ a = commands => b = 0 /\ h = 0 /\ s = mine
  /\ Stretch(a, b, s)
  /\ Polling => Source(a, b, s, g)
  /\ Pairs(h, g)

InStream ==
  KeepsUp /\ ~again =>
    \E a \in Nat, b \in Nat, s \in Nat, h \in Halves, g \in Halves :
      Stream(a, b, s, h, g)

AdcInv == TypeOK /\ NoSleepAfterEnd /\ Phases /\ InStream

-----------------------------------------------------------------------------
(***************************************************************************)
(* Types and phases.                                                       *)
(***************************************************************************)

(* A batch that is torn is a batch.                                        *)
LEMMA TornIsBatch == Torn \in Batch
BY AdcAssumption DEF Torn, Batch, Words

LEMMA InitInv == Init => AdcInv
<1> SUFFICES ASSUME Init PROVE AdcInv
  OBVIOUS
<1>1. TypeOK
  <2>1. <<>> \in Seq(Batch) /\ Len(<<>>) = 0
    OBVIOUS
  <2>2. /\ 0 \in 0 .. MaxCommands /\ 0 \in 0 .. MaxBatches /\ 0 <= MaxQueue
        /\ 0 \in 0 .. MaxRestarts
    BY AdcAssumption
  <2>3. ram \in [Halves -> Batch]
    BY TornIsBatch DEF Init
  <2>. QED BY <2>1, <2>2, <2>3, TornIsBatch DEF Init, TypeOK, Words, Halves
<1>2. NoSleepAfterEnd /\ Phases
  BY DEF Init, NoSleepAfterEnd, Phases, Polling, Busy
<1>3. Stream(0, 0, Cleared, 0, 0)
  <2>1. Stretch(0, 0, Cleared) /\ ~Polling /\ Pairs(0, 0)
    BY DEF Init, Stretch, Pairs, Polling
  <2>. QED BY <2>1 DEF Init, Stream
<1>4. InStream
  BY <1>3 DEF InStream, Halves, Cleared
<1>. QED BY <1>1, <1>2, <1>4 DEF AdcInv

(* A step that changes flags and the producer's place alone.               *)
LEMMA FlagStep ==
  ASSUME TypeOK,
         running' \in BOOLEAN, producing' \in BOOLEAN, start' \in BOOLEAN,
         ppc' \in {"off", "config", "start", "check", "unmark", "copy",
                  "insert", "ended", "broadcast", "halt"},
         UNCHANGED <<apc, commands, mine, total, iteration, dreg, half, node,
                     outcome, consumer, fifo, dataready, setting, ram, pru0,
                     power>>
  PROVE  TypeOK'
BY DEF TypeOK, consumer, pru0, power

LEMMA TypeStep ==
  ASSUME TypeOK, Phases, [Next]_vars
  PROVE  TypeOK'
<1> USE AdcAssumption, TornIsBatch
    DEF TypeOK, adc, producer, consumer, shared, pru0, power, Halves
<1>1. ASSUME NEW n \in Iterations, NEW s \in Settings, Command(n, s)
      PROVE  TypeOK'
  <2>1. <<>> \in Seq(Batch) /\ Len(<<>>) = 0
    OBVIOUS
  <2>2. mine' \in Words /\ total' \in Iterations \cup {0} /\ iteration' \in Nat
    BY <1>1 DEF Command, Words
  <2>3. /\ running' = TRUE /\ producing' = TRUE /\ again' = FALSE
        /\ apc' = "join" /\ ppc' = "config" /\ outcome' = "none"
        /\ cpc' = "check" /\ fifo' = <<>> /\ published' = <<>>
        /\ UNCHANGED <<dreg, half, node, item, shared, ram, pru0, restarts>>
    BY <1>1 DEF Command
  <2>4. commands' \in 0 .. MaxCommands
    BY <1>1 DEF Command
  <2>5. /\ fifo' \in Seq(Batch) /\ Len(fifo') <= MaxQueue
        /\ published' \in Seq(Batch)
    BY <2>1, <2>3
  <2>6. /\ running' \in BOOLEAN /\ producing' \in BOOLEAN /\ start' \in BOOLEAN
        /\ again' \in BOOLEAN
    BY <2>3
  <2>7. /\ dreg' \subseteq Halves /\ half' \in Halves /\ dataready' \subseteq Halves
        /\ setting' \in Words /\ ram' \in [Halves -> Batch]
        /\ node' \in Batch /\ item' \in Batch /\ restarts' \in 0 .. MaxRestarts
    BY <2>3
  <2>8. /\ pru' \in {"main", "fill", "mark", "off"} /\ fill' \in Halves
        /\ count' \in 0 .. MaxBatches /\ acq' \in 0 .. MaxCommands
        /\ kept' \in Words /\ preg' \subseteq Halves
    BY <2>3
  <2>. QED BY <2>2, <2>3, <2>4, <2>5, <2>6, <2>7, <2>8
<1>2. CASE Join \/ Stop
  <2>1. CASE Join
    <3>1. /\ apc' = "wait" /\ running' = FALSE
          /\ UNCHANGED <<producing, commands, producer, consumer, fifo, shared,
                         ram, pru0, power>>
      BY <2>1 DEF Join
    <3>2. running' \in BOOLEAN /\ apc' \in {"wait", "join"}
      BY <3>1
    <3>3. fifo' \in Seq(Batch) /\ Len(fifo') <= MaxQueue /\ published' \in Seq(Batch)
      BY <3>1
    <3>4. /\ dreg' \subseteq Halves /\ preg' \subseteq Halves
          /\ dataready' \subseteq Halves /\ ram' \in [Halves -> Batch]
          /\ node' \in Batch /\ item' \in Batch
      BY <3>1
    <3>. QED BY <3>1, <3>2, <3>3, <3>4
  <2>2. CASE Stop
    <3>1. running' \in BOOLEAN
      BY <2>2 DEF Stop
    <3>2. /\ apc' = apc /\ commands' = commands /\ producing' = producing
          /\ UNCHANGED <<producer, consumer, fifo, shared, ram, pru0, power>>
      BY <2>2 DEF Stop
    <3>. QED BY <3>1, <3>2, FlagStep
  <2>. QED BY <1>2, <2>1, <2>2
<1>3. CASE Configure \/ Start \/ Finish \/ ClearProducing \/ HaltPru
  <2>1. CASE Configure
    BY <2>1 DEF Configure
  <2>5. CASE Start
    <3>1. start' = TRUE /\ ppc' = "check" /\ UNCHANGED adc
      BY <2>5 DEF Start
    <3>2. UNCHANGED <<mine, total, iteration, dreg, half, node, outcome,
                      consumer, fifo, dataready, setting, ram, pru0, power>>
      BY <2>5 DEF Start
    <3>. QED BY <3>1, <3>2, FlagStep
  <2>2. CASE Finish
    BY <2>2 DEF Finish
  <2>3. CASE ClearProducing
    <3>1. producing' \in BOOLEAN /\ ppc' = "broadcast"
      BY <2>3 DEF ClearProducing
    <3>2. UNCHANGED <<running, apc, commands, mine, total, iteration, dreg,
                      half, node, outcome, consumer, fifo, shared, ram, pru0,
                      power>>
      BY <2>3 DEF ClearProducing
    <3>. QED BY <3>1, <3>2, FlagStep
  <2>4. CASE HaltPru
    <3>1. start' = FALSE /\ ppc' = "off"
      BY <2>4 DEF HaltPru
    <3>2. UNCHANGED <<adc, mine, total, iteration, dreg, half, node, outcome,
                      consumer, fifo, dataready, setting, ram, pru0, power>>
      BY <2>4 DEF HaltPru
    <3>. QED BY <3>1, <3>2, FlagStep
  <2>. QED BY <1>3, <2>1, <2>2, <2>3, <2>4, <2>5
<1>4. CASE Poll
  BY <1>4 DEF Poll
<1>5. CASE Unmark \/ CopyHalf
  <2>1. CASE Unmark
    BY <2>1 DEF Unmark
  <2>2. CASE CopyHalf
    BY <2>2 DEF CopyHalf
  <2>. QED BY <1>5, <2>1, <2>2
<1>6. CASE Insert
  <2>1. Len(fifo) < MaxQueue
    BY <1>6 DEF Insert, Phases, Busy
  <2>2. fifo' \in Seq(Batch) /\ Len(fifo') = Len(fifo) + 1
    BY <1>6, AppendProperties DEF Insert
  <2>3. Len(fifo') <= MaxQueue
    BY <2>1, <2>2
  <2>. QED BY <1>6, <2>2, <2>3 DEF Insert, Awake
<1>7. CASE Broadcast
  BY <1>7 DEF Broadcast, Awake
<1>8. CASE CheckEmpty \/ Sleep
  <2>1. CASE CheckEmpty
    BY <2>1 DEF CheckEmpty
  <2>2. CASE Sleep
    BY <2>2 DEF Sleep
  <2>. QED BY <1>8, <2>1, <2>2
<1>9. CASE Take
  <2>1. /\ item' \in Batch /\ fifo' \in Seq(Batch)
        /\ Len(fifo') = Len(fifo) - 1
    BY <1>9, HeadTailProperties DEF Take
  <2>2. Len(fifo') <= MaxQueue
    BY <2>1
  <2>. QED BY <1>9, <2>1, <2>2 DEF Take
<1>10. CASE Publish
  <2>1. published' \in Seq(Batch)
    BY <1>10, AppendProperties DEF Publish
  <2>. QED BY <1>10, <2>1 DEF Publish
<1>11. CASE PruInit
  BY <1>11 DEF PruInit
<1>12. CASE PruNotice
  BY <1>12 DEF PruNotice
<1>13. CASE PruFull
  <2>1. count + 1 \in 0 .. MaxBatches
    BY <1>13 DEF PruFull
  <2>2. [acq |-> acq, n |-> count + 1, setting |-> kept] \in Batch
    BY <2>1 DEF Batch
  <2>. QED BY <1>13, <2>1, <2>2 DEF PruFull
<1>14. CASE PruMark
  BY <1>14 DEF PruMark
<1>15. CASE UNCHANGED vars
  BY <1>15 DEF vars
<1>16. CASE ClearShared
  <2>1. start' \in BOOLEAN /\ setting' \in Words /\ dataready' \subseteq Halves
    BY <1>16 DEF ClearShared, Words
  <2>2. restarts' \in 0 .. MaxRestarts
    BY <1>16 DEF ClearShared
  <2>3. UNCHANGED <<adc, producer, consumer, fifo, ram, pru0, again>>
    BY <1>16 DEF ClearShared
  <2>. QED BY <2>1, <2>2, <2>3
<1>17. CASE PruOff
  BY <1>17 DEF PruOff
<1>18. CASE PruOn
  <2>1. start' \in BOOLEAN /\ again' \in BOOLEAN
    BY <1>18 DEF PruOn
  <2>2. /\ pru' = "main"
        /\ UNCHANGED <<adc, producer, consumer, fifo, dataready, setting, ram,
                       fill, count, acq, kept, preg, restarts>>
    BY <1>18 DEF PruOn
  <2>. QED BY <2>1, <2>2
<1>. QED
  BY <1>1, <1>2, <1>3, <1>4, <1>5, <1>6, <1>7, <1>8, <1>9, <1>10, <1>11,
     <1>12, <1>13, <1>14, <1>15, <1>16, <1>17, <1>18
  DEF Next, Producer, Consumer, Pru0, Restarts

LEMMA PhasesStep ==
  ASSUME TypeOK, Phases, NoSleepAfterEnd, [Next]_vars
  PROVE  Phases' /\ NoSleepAfterEnd'
<1> USE DEF TypeOK, Phases, NoSleepAfterEnd, Polling, Busy, adc, producer,
            consumer, shared, pru0
<1>1. ASSUME NEW n \in Iterations, NEW s \in Settings, Command(n, s)
      PROVE  Phases' /\ NoSleepAfterEnd'
  BY <1>1, AdcAssumption DEF Command, Cleared
<1>2. CASE Join \/ Stop
  BY <1>2 DEF Join, Stop
<1>3. CASE Configure \/ Start \/ Finish \/ ClearProducing \/ HaltPru
  BY <1>3 DEF Configure, Start, Finish, ClearProducing, HaltPru
<1>4. CASE Poll
  BY <1>4 DEF Poll
<1>5. CASE Unmark \/ CopyHalf
  BY <1>5 DEF Unmark, CopyHalf
<1>6. CASE Insert
  BY <1>6 DEF Insert, Awake
<1>7. CASE Broadcast
  BY <1>7 DEF Broadcast, Awake, FifoFree
<1>8. CASE CheckEmpty \/ Sleep
  BY <1>8 DEF CheckEmpty, Sleep
<1>9. CASE Take
  <2>1. Len(fifo') = Len(fifo) - 1 /\ Len(fifo) \in Nat
    BY <1>9, HeadTailProperties DEF Take
  <2>2. Busy => Len(fifo') < MaxQueue
    BY <2>1, AdcAssumption
  <2>. QED BY <1>9, <2>2 DEF Take
<1>10. CASE Publish
  BY <1>10 DEF Publish
<1>11. CASE PruInit
  BY <1>11 DEF PruInit
<1>12. CASE PruNotice
  BY <1>12 DEF PruNotice
<1>13. CASE PruFull
  BY <1>13 DEF PruFull
<1>14. CASE PruMark
  BY <1>14 DEF PruMark
<1>15. CASE UNCHANGED vars
  BY <1>15 DEF vars
<1>16. CASE ClearShared
  BY <1>16 DEF ClearShared
<1>17. CASE PruOff
  BY <1>17 DEF PruOff
<1>18. CASE PruOn
  <2>1. start' => start
    BY <1>18, Zenon DEF PruOn
  <2>2. /\ pru' = "main"
        /\ UNCHANGED <<adc, producer, consumer, fifo, dataready, setting, acq>>
    BY <1>18 DEF PruOn
  <2>. QED BY <2>1, <2>2
<1>. QED
  BY <1>1, <1>2, <1>3, <1>4, <1>5, <1>6, <1>7, <1>8, <1>9, <1>10, <1>11,
     <1>12, <1>13, <1>14, <1>15, <1>16, <1>17, <1>18
  DEF Next, Producer, Consumer, Pru0, Restarts

-----------------------------------------------------------------------------
(***************************************************************************)
(* The stream, action by action.                                           *)
(***************************************************************************)
LEMMA Numbers ==
  ASSUME TypeOK
  PROVE  /\ Len(published) \in Nat /\ Len(fifo) \in Nat
         /\ DOMAIN published = 1 .. Len(published)
         /\ DOMAIN fifo = 1 .. Len(fifo)
         /\ Drawn \in Nat /\ Taken \in Nat
         /\ commands \in Nat /\ acq \in Nat /\ count \in Nat
         /\ total \in Nat /\ iteration \in Nat
         /\ mine \in Nat /\ setting \in Nat /\ kept \in Nat
<1>1. /\ Len(published) \in Nat /\ Len(fifo) \in Nat
      /\ DOMAIN published = 1 .. Len(published)
      /\ DOMAIN fifo = 1 .. Len(fifo)
  BY DEF TypeOK
<1>2. Drawn \in Nat
  BY <1>1 DEF Drawn
<1>3. Taken \in Nat
  BY <1>1, <1>2 DEF Taken
<1>4. /\ commands \in Nat /\ acq \in Nat /\ count \in Nat
      /\ total \in Nat /\ iteration \in Nat
      /\ mine \in Nat /\ setting \in Nat /\ kept \in Nat
  BY AdcAssumption DEF TypeOK, Words, Cleared
<1>. QED BY <1>1, <1>2, <1>3, <1>4

(* Where the counts are the same.                                          *)
LEMMA SameCounts ==
  ASSUME UNCHANGED <<published, fifo, ppc>>,
         cpc' = "publish" <=> cpc = "publish"
  PROVE  /\ Drawn' = Drawn /\ Taken' = Taken
         /\ Polling' <=> Polling
<1>1. Drawn' = Drawn
  BY DEF Drawn
<1>. QED BY <1>1 DEF Taken, Busy, Polling

(* While half a batch is out of RAM, a batch has been taken.               *)
LEMMA BusyTaken ==
  ASSUME TypeOK, Busy
  PROVE  Taken # 0
BY Numbers DEF Taken

(* A command begins with nothing.                                          *)
LEMMA StreamCommand ==
  ASSUME TypeOK, NEW n \in Iterations, NEW t \in Settings, Command(n, t)
  PROVE  Stream(0, 0, 0, 0, 0)'
<1>1. /\ published' = <<>> /\ fifo' = <<>> /\ cpc' = "check"
      /\ ppc' = "config" /\ outcome' = "none" /\ commands' = commands + 1
  BY DEF Command
<1>2. Stretch(0, 0, 0)' /\ ~Polling' /\ Pairs(0, 0)'
  BY <1>1 DEF Stretch, Pairs, Polling
<1>3. 0 # commands'
  BY <1>1, Numbers
<1>. QED BY <1>2, <1>3 DEF Stream

(* It then gets its own acquisition, or goes on with the last one if PRU0  *)
(* has not noticed its end.                                                *)
LEMMA StreamStart ==
  ASSUME TypeOK, Phases, Start
  PROVE  \E a \in Nat, b \in Nat, s \in Nat, h \in Halves, g \in Halves :
           Stream(a, b, s, h, g)'
<1>1. /\ published' = <<>> /\ fifo' = <<>> /\ cpc' # "publish"
      /\ ppc' = "check" /\ dataready' = {} /\ pru # "mark"
      /\ iteration' = 0 /\ outcome' = "none" /\ acq # commands
      /\ UNCHANGED <<pru, acq, count, kept, fill, total, commands>>
  BY DEF Start, Phases, adc, pru0, consumer
<1>2. Drawn' = 0 /\ Taken' = 0 /\ ~Pending' /\ total' \in Nat
  BY <1>1, Numbers DEF Drawn, Taken, Busy, Pending
<1>3. \A a, b, s \in Nat : Stretch(a, b, s)'
  BY <1>1 DEF Stretch
<1>4. \A h \in {0, 1} : Pairs(h, h)'
  BY <1>1, <1>2 DEF Pairs, Complete
<1>5. CASE pru = "fill" /\ kept # Cleared
  <2>1. Source(acq, count, kept, fill)'
    BY <1>1, <1>2, <1>5, Numbers DEF Source, Filling
  <2>2. fill \in {0, 1}
    BY DEF TypeOK, Halves
  <2>3. Stream(acq, count, kept, fill, fill)'
    BY <1>1, <1>3, <1>4, <2>1, <2>2, Numbers DEF Stream
  <2>. QED BY <1>1, <2>2, <2>3, Numbers DEF Halves
<1>6. CASE ~(pru = "fill" /\ kept # Cleared)
  <2>1. Untaken(0)'
    BY <1>1, <1>2, <1>6 DEF Untaken, TypeOK
  <2>2. Stream(acq, 0, 0, 0, 0)'
    BY <1>1, <1>3, <1>4, <2>1, Numbers DEF Stream, Source
  <2>. QED BY <1>1, <2>2, Numbers DEF Halves
<1>. QED BY <1>5, <1>6

(* Whoever leaves the threads' data alone need only see to PRU0's part ... *)
LEMMA StreamOutside ==
  ASSUME NEW a, NEW b, NEW s, NEW h, NEW g, Stream(a, b, s, h, g),
         UNCHANGED <<commands, mine, published, item, fifo, ppc, total,
                     iteration, outcome, half, node>>,
         cpc' = "publish" <=> cpc = "publish",
         ppc \in {"unmark", "copy"} => ram'[half] = ram[half],
         Polling => Source(a, b, s, g)'
  PROVE  Stream(a, b, s, h, g)'
<1>1. /\ Drawn' = Drawn /\ Taken' = Taken
      /\ Polling' <=> Polling
  BY SameCounts
<1>2. Stretch(a, b, s)'
  BY <1>1 DEF Stream, Stretch
<1>3. Pairs(h, g)'
  BY <1>1 DEF Stream, Pairs, Complete
<1>. QED BY <1>1, <1>2, <1>3 DEF Stream

(* ... and nobody, while the producer does not poll.                       *)
LEMMA StreamIdle ==
  ASSUME NEW a, NEW b, NEW s, NEW h, NEW g, Stream(a, b, s, h, g),
         ~Polling, ~Polling',
         UNCHANGED <<commands, mine, published, item, fifo, total, outcome>>,
         cpc' = "publish" <=> cpc = "publish"
  PROVE  Stream(a, b, s, h, g)'
<1>1. Drawn' = Drawn
  BY DEF Drawn
<1>2. Taken' = Taken
  BY <1>1 DEF Taken, Busy, Polling
<1>3. Stretch(a, b, s)'
  BY <1>1 DEF Stream, Stretch, Polling
<1>4. Pairs(h, g)'
  BY <1>2 DEF Stream, Pairs, Complete
<1>. QED BY <1>3, <1>4 DEF Stream

(* What touches neither batches nor PRU0.                                  *)
LEMMA StreamFrame ==
  ASSUME NEW a, NEW b, NEW s, NEW h, NEW g, Stream(a, b, s, h, g),
         UNCHANGED <<commands, producer, published, item, fifo, ram, shared,
                     pru0>>,
         cpc' = "publish" <=> cpc = "publish"
  PROVE  Stream(a, b, s, h, g)'
<1>1. /\ UNCHANGED <<ppc, mine, total, iteration, dreg, half, node, outcome>>
      /\ UNCHANGED <<start, dataready, pru, fill, count, acq, kept, preg>>
  BY DEF producer, shared, pru0
<1>2. Taken' = Taken /\ (Pending' <=> Pending)
  BY <1>1, SameCounts DEF Pending
<1>3. Polling => Source(a, b, s, g)'
  BY <1>1, <1>2
  DEF Stream, Source, Untaken, Ended, Filling, Marking
<1>. QED BY <1>1, <1>3, StreamOutside

(* The producer's loop is left.                                            *)
LEMMA StreamFinish ==
  ASSUME TypeOK, Phases, NEW a \in Nat, NEW b \in Nat, NEW s \in Nat,
         NEW h \in Halves, NEW g \in Halves, Stream(a, b, s, h, g), Finish
  PROVE  Stream(a, b, s, h, g)'
<1>1. /\ ppc = "check" /\ ppc' = "ended"
      /\ UNCHANGED <<commands, mine, published, item, cpc, fifo, total,
                     iteration>>
      /\ outcome' = "done" => iteration >= total
  BY DEF Finish, adc, consumer
<1>2. Drawn' = Drawn /\ Taken' = Taken
  BY <1>1 DEF Drawn, Taken, Busy
<1>3. Stretch(a, b, s)'
  BY <1>1, <1>2 DEF Stream, Stretch
<1>4. outcome' = "done" => Complete(h)
  BY <1>1, Numbers DEF Stream, Pairs, Polling
<1>. QED BY <1>1, <1>2, <1>3, <1>4 DEF Stream, Pairs, Polling, Complete

(* The producer chooses the only half that is marked, and it is the one    *)
(* that comes next.                                                        *)
LEMMA StreamPoll ==
  ASSUME TypeOK, Phases, NEW a \in Nat, NEW b \in Nat, NEW s \in Nat,
         NEW h \in Halves, NEW g \in Halves, Stream(a, b, s, h, g), Poll
  PROVE  Stream(a, b, s, h, 1 - g)'
<1>1. /\ ppc = "check" /\ ppc' = "unmark" /\ dataready # {}
      /\ iteration < total /\ dreg' = dataready
      /\ half' = IF 0 \in dataready THEN 0 ELSE 1
      /\ iteration' = IF 0 \in dataready THEN iteration ELSE iteration + 1
      /\ UNCHANGED <<commands, mine, published, item, cpc, fifo, total, outcome,
                     start, dataready, ram, pru, acq, count, kept, fill>>
  BY DEF Poll, adc, consumer, shared, pru0
<1>2. /\ fill \in {0, 1} /\ 1 - fill \in {0, 1} /\ 1 - fill # fill
      /\ g \in {0, 1} /\ 1 - (1 - fill) = fill
  BY DEF TypeOK, Halves
<1>3. Pending /\ Polling /\ ~Pending'
  BY <1>1 DEF Pending, Polling
<1>4. Ended(a, b, s, g) \/ Filling(a, b, s, g)
  BY <1>1, <1>3 DEF Stream, Source, Untaken, Marking
<1>5. dataready = {g} /\ ram[g] = Nth(a, b + Taken + 1, s)
  <2>1. CASE Ended(a, b, s, g)
    BY <1>3, <2>1 DEF Ended
  <2>2. CASE Filling(a, b, s, g)
    BY <1>1, <1>3, <2>2 DEF Filling
  <2>. QED BY <1>4, <2>1, <2>2
<1>6. half' = g /\ iteration' = iteration + g
  <2>1. iteration \in Nat
    BY Numbers
  <2>2. CASE g = 0
    BY <1>1, <1>5, <2>1, <2>2
  <2>3. CASE g = 1
    BY <1>1, <1>5, <2>1, <2>3
  <2>. QED BY <1>2, <2>2, <2>3
<1>7. Drawn' = Drawn /\ Taken' = Taken + 1
  BY <1>1, Numbers DEF Drawn, Taken, Busy
<1>8. Stretch(a, b, s)'
  <2>1. b + Taken + 1 = b + Taken'
    <3>1. Taken \in Nat
      BY Numbers
    <3>. QED BY <1>7, <3>1
  <2>2. ram'[half'] = Nth(a, b + Taken', s)
    BY <1>1, <1>5, <1>6, <2>1
  <2>. QED BY <1>1, <1>7, <2>2 DEF Stream, Stretch
<1>9. Source(a, b, s, 1 - g)'
  <2>1. CASE Ended(a, b, s, g)
    BY <1>1, <1>3, <1>5, <1>6, <2>1 DEF Source, Ended
  <2>2. CASE Filling(a, b, s, g)
    <3>1. count' = b + Taken' + 0 /\ g = 1 - fill
      BY <1>1, <1>3, <1>7, <2>2, Numbers DEF Filling
    <3>. QED
      BY <1>1, <1>2, <1>3, <1>5, <1>6, <2>2, <3>1 DEF Source, Filling
  <2>. QED BY <1>4, <2>1, <2>2
<1>10. Pairs(h, 1 - g)'
  <2>1. Taken + h = 2 * iteration + g /\ outcome = "none"
    BY <1>3 DEF Stream, Pairs, Phases
  <2>2. h \in Nat /\ Taken \in Nat /\ iteration \in Nat
    BY Numbers DEF Halves
  <2>3. Taken' + h = 2 * iteration' + (1 - g)
    <3>1. CASE g = 0
      BY <1>6, <1>7, <2>1, <2>2, <3>1
    <3>2. CASE g = 1
      BY <1>6, <1>7, <2>1, <2>2, <3>2
    <3>. QED BY <1>2, <3>1, <3>2
  <2>4. iteration' <= total
    BY <1>1, <1>2, <1>6, Numbers
  <2>5. iteration' = total => g = 1
    BY <1>1, <1>2, <1>6, Numbers
  <2>6. iteration' = total => Complete(h)'
    BY <1>1, <2>3, <2>5, Numbers DEF Complete
  <2>. QED BY <1>1, <2>1, <2>3, <2>4, <2>6 DEF Pairs
<1>. QED BY <1>1, <1>8, <1>9, <1>10 DEF Stream

(* The half is unmarked, copied and put into the FIFO.                     *)
LEMMA StreamUnmark ==
  ASSUME TypeOK, Phases, NEW a \in Nat, NEW b \in Nat, NEW s \in Nat,
         NEW h \in Halves, NEW g \in Halves, Stream(a, b, s, h, g), Unmark
  PROVE  Stream(a, b, s, h, g)'
<1>1. /\ ppc = "unmark" /\ ppc' = "copy" /\ dataready' = dreg \ {half}
      /\ UNCHANGED <<commands, mine, published, item, cpc, fifo, total,
                     iteration, outcome, half, start, ram, pru, acq, count,
                     kept, fill>>
  BY DEF Unmark, adc, consumer, pru0
<1>2. Ended(a, b, s, g) \/ Filling(a, b, s, g)
  <2>1. Taken # 0
    BY <1>1, BusyTaken DEF Busy
  <2>. QED BY <1>1, <2>1 DEF Stream, Source, Untaken, Marking, Polling
<1>3. dataready' = {}
  BY <1>1, <1>2 DEF Ended, Filling
<1>4. Drawn' = Drawn /\ Taken' = Taken /\ ~Pending /\ ~Pending'
  BY <1>1, <1>3 DEF Drawn, Taken, Busy, Pending
<1>5. Stretch(a, b, s)'
  BY <1>1, <1>4 DEF Stream, Stretch
<1>6. Source(a, b, s, g)'
  <2>1. CASE Ended(a, b, s, g)
    BY <1>1, <1>3, <1>4, <2>1 DEF Source, Ended
  <2>2. CASE Filling(a, b, s, g)
    BY <1>1, <1>3, <1>4, <2>2 DEF Source, Filling
  <2>. QED BY <1>2, <2>1, <2>2
<1>7. Pairs(h, g)'
  BY <1>1, <1>4 DEF Stream, Pairs, Polling, Complete
<1>. QED BY <1>1, <1>5, <1>6, <1>7 DEF Stream

LEMMA StreamCopyHalf ==
  ASSUME TypeOK, Phases, NEW a \in Nat, NEW b \in Nat, NEW s \in Nat,
         NEW h \in Halves, NEW g \in Halves, Stream(a, b, s, h, g), CopyHalf
  PROVE  Stream(a, b, s, h, g)'
<1>1. /\ ppc = "copy" /\ ppc' = "insert" /\ node' = ram[half]
      /\ UNCHANGED <<commands, mine, published, item, cpc, fifo, total,
                     iteration, outcome, half, start, ram, dataready, pru, acq,
                     count, kept, fill>>
  BY DEF CopyHalf, adc, consumer, shared, pru0
<1>2. Ended(a, b, s, g) \/ Filling(a, b, s, g)
  <2>1. Taken # 0
    BY <1>1, BusyTaken DEF Busy
  <2>. QED BY <1>1, <2>1 DEF Stream, Source, Untaken, Marking, Polling
<1>3. dataready = {}
  BY <1>1, <1>2 DEF Ended, Filling
<1>4. Drawn' = Drawn /\ Taken' = Taken /\ ~Pending /\ ~Pending'
  BY <1>1, <1>3 DEF Drawn, Taken, Busy, Pending
<1>5. Stretch(a, b, s)'
  BY <1>1, <1>4 DEF Stream, Stretch
<1>6. Source(a, b, s, g)'
  <2>1. CASE Ended(a, b, s, g)
    BY <1>1, <1>3, <1>4, <2>1 DEF Source, Ended
  <2>2. CASE Filling(a, b, s, g)
    BY <1>1, <1>3, <1>4, <2>2 DEF Source, Filling
  <2>. QED BY <1>2, <2>1, <2>2
<1>7. Pairs(h, g)'
  BY <1>1, <1>4 DEF Stream, Pairs, Polling, Complete
<1>. QED BY <1>1, <1>5, <1>6, <1>7 DEF Stream

LEMMA StreamInsert ==
  ASSUME TypeOK, Phases, NEW a \in Nat, NEW b \in Nat, NEW s \in Nat,
         NEW h \in Halves, NEW g \in Halves, Stream(a, b, s, h, g), Insert
  PROVE  Stream(a, b, s, h, g)'
<1>1. /\ ppc = "insert" /\ ppc' = "check" /\ fifo' = Append(fifo, node)
      /\ cpc' = "publish" <=> cpc = "publish"
      /\ UNCHANGED <<commands, mine, published, item, total, iteration, outcome,
                     half, ram, dataready, preg, start, pru, acq,
                     count, kept, fill>>
  BY DEF Insert, Awake, adc, shared, pru0
<1>2. /\ Len(fifo') = Len(fifo) + 1
      /\ \A i \in 1 .. Len(fifo) : fifo'[i] = fifo[i]
      /\ fifo'[Len(fifo) + 1] = node
      /\ DOMAIN fifo' = 1 .. Len(fifo) + 1
  BY <1>1, AppendProperties DEF TypeOK
<1>3. Drawn' = Drawn /\ Taken' = Taken /\ Taken = Drawn + Len(fifo) + 1
  <2>1. Drawn' = Drawn
    BY <1>1 DEF Drawn
  <2>2. Taken = Drawn + Len(fifo) + 1 /\ Taken' = Drawn' + Len(fifo') + 0
    BY <1>1 DEF Taken, Busy
  <2>3. Len(fifo') = Len(fifo) + 1 /\ Len(fifo) \in Nat /\ Drawn \in Nat
    BY <1>2, Numbers
  <2>. QED BY <2>1, <2>2, <2>3
<1>4. Pending' = Pending
  BY <1>1 DEF Pending
<1>5. node = Nth(a, b + Drawn + (Len(fifo) + 1), s)
  <2>1. node = Nth(a, b + Taken, s)
    BY <1>1 DEF Stream, Stretch
  <2>2. b + Taken = b + Drawn + (Len(fifo) + 1)
    <3>1. Taken = Drawn + Len(fifo) + 1 /\ Drawn \in Nat /\ Len(fifo) \in Nat
      BY <1>3, Numbers
    <3>. QED BY <3>1
  <2>. QED BY <2>1, <2>2
<1>6. \A i \in DOMAIN fifo' : fifo'[i] = Nth(a, b + Drawn + i, s)
  <2> SUFFICES ASSUME NEW i \in 1 .. Len(fifo) + 1
               PROVE  fifo'[i] = Nth(a, b + Drawn + i, s)
    BY <1>2
  <2>1. CASE i = Len(fifo) + 1
    BY <1>2, <1>5, <2>1
  <2>2. CASE i # Len(fifo) + 1
    <3>1. Len(fifo) \in Nat /\ DOMAIN fifo = 1 .. Len(fifo)
      BY Numbers
    <3>2. i \in 1 .. Len(fifo)
      BY <2>2, <3>1
    <3>. QED BY <1>2, <3>1, <3>2 DEF Stream, Stretch
  <2>. QED BY <2>1, <2>2
<1>7. Stretch(a, b, s)'
  BY <1>1, <1>3, <1>6 DEF Stream, Stretch
<1>8. Source(a, b, s, g)'
  BY <1>1, <1>3, <1>4
  DEF Stream, Source, Untaken, Ended, Filling, Marking, Polling
<1>9. Pairs(h, g)'
  BY <1>1, <1>3, <1>4 DEF Stream, Pairs, Polling, Complete
<1>. QED BY <1>1, <1>7, <1>8, <1>9 DEF Stream

(* The consumer moves batches on.                                          *)
LEMMA StreamTake ==
  ASSUME TypeOK, NEW a \in Nat, NEW b \in Nat, NEW s \in Nat,
         NEW h \in Halves, NEW g \in Halves, Stream(a, b, s, h, g), Take
  PROVE  Stream(a, b, s, h, g)'
<1>1. /\ cpc = "check" /\ cpc' = "publish" /\ fifo # <<>>
      /\ item' = Head(fifo) /\ fifo' = Tail(fifo)
      /\ UNCHANGED <<commands, mine, published, ppc, total, iteration, outcome,
                     half, node, dreg, ram, dataready, preg, start, pru, acq, count,
                     kept, fill>>
  BY DEF Take, adc, producer, shared, pru0
<1>2. /\ Len(fifo) >= 1 /\ Head(fifo) = fifo[1]
      /\ Len(fifo') = Len(fifo) - 1 /\ DOMAIN fifo' = 1 .. Len(fifo) - 1
      /\ \A i \in 1 .. Len(fifo) - 1 : fifo'[i] = fifo[i + 1]
  BY <1>1, HeadTailProperties DEF TypeOK
<1>3. Drawn' = Drawn + 1
  BY <1>1, Numbers DEF Drawn
<1>4. Taken' = Taken
  <2>1. Busy' <=> Busy
    BY <1>1 DEF Busy
  <2>2. Len(fifo') = Len(fifo) - 1 /\ Drawn' = Drawn + 1
    BY <1>2, <1>3
  <2>3. Len(fifo) \in Nat /\ Drawn \in Nat
    BY Numbers
  <2>. QED BY <2>1, <2>2, <2>3 DEF Taken
<1>5. item' = Nth(a, b + Drawn', s)
  <2>1. 1 \in DOMAIN fifo
    BY <1>2, Numbers
  <2>2. fifo[1] = Nth(a, b + Drawn + 1, s)
    BY <2>1 DEF Stream, Stretch
  <2>. QED BY <1>1, <1>2, <1>3, <2>2, Numbers
<1>6. \A i \in DOMAIN fifo' : fifo'[i] = Nth(a, b + Drawn' + i, s)
  <2> SUFFICES ASSUME NEW i \in 1 .. Len(fifo) - 1
               PROVE  fifo'[i] = Nth(a, b + Drawn' + i, s)
    BY <1>2
  <2>1. i + 1 \in DOMAIN fifo /\ i \in Nat
    BY <1>2, Numbers
  <2>2. fifo[i + 1] = Nth(a, b + Drawn + (i + 1), s)
    BY <2>1 DEF Stream, Stretch
  <2>3. b + Drawn + (i + 1) = b + Drawn' + i
    <3>1. Drawn' = Drawn + 1 /\ Drawn \in Nat /\ i \in Nat
      BY <1>3, <2>1, Numbers
    <3>. QED BY <3>1
  <2>. QED BY <1>2, <2>2, <2>3
<1>7. Stretch(a, b, s)'
  BY <1>1, <1>4, <1>5, <1>6 DEF Stream, Stretch
<1>8. Polling' => Source(a, b, s, g)'
  BY <1>1, <1>4
  DEF Stream, Source, Untaken, Ended, Filling, Marking, Polling, Pending
<1>9. Pairs(h, g)'
  BY <1>1, <1>4 DEF Stream, Pairs, Polling, Complete
<1>. QED BY <1>1, <1>7, <1>8, <1>9 DEF Stream

LEMMA StreamPublish ==
  ASSUME TypeOK, NEW a \in Nat, NEW b \in Nat, NEW s \in Nat,
         NEW h \in Halves, NEW g \in Halves, Stream(a, b, s, h, g), Publish
  PROVE  Stream(a, b, s, h, g)'
<1>1. /\ cpc = "publish" /\ cpc' = "check"
      /\ published' = Append(published, item)
      /\ UNCHANGED <<commands, mine, fifo, ppc, total, iteration, outcome,
                     half, node, dreg, ram, dataready, preg, start, pru, acq, count,
                     kept, fill>>
  BY DEF Publish, adc, producer, shared, pru0
<1>2. /\ Len(published') = Len(published) + 1
      /\ \A i \in 1 .. Len(published) : published'[i] = published[i]
      /\ published'[Len(published) + 1] = item
      /\ DOMAIN published' = 1 .. Len(published) + 1
  BY <1>1, AppendProperties DEF TypeOK
<1>3. Drawn' = Drawn /\ Drawn = Len(published) + 1
  BY <1>1, <1>2, Numbers DEF Drawn
<1>4. Taken' = Taken
  <2>1. Busy' <=> Busy
    BY <1>1 DEF Busy
  <2>. QED BY <1>1, <1>3, <2>1 DEF Taken
<1>5. \A i \in DOMAIN published' : published'[i] = Nth(a, b + i, s)
  <2> SUFFICES ASSUME NEW i \in 1 .. Len(published) + 1
               PROVE  published'[i] = Nth(a, b + i, s)
    BY <1>2
  <2>1. CASE i = Len(published) + 1
    BY <1>1, <1>2, <1>3, <2>1 DEF Stream, Stretch
  <2>2. CASE i # Len(published) + 1
    <3>1. Len(published) \in Nat /\ DOMAIN published = 1 .. Len(published)
      BY Numbers
    <3>2. i \in 1 .. Len(published)
      BY <2>2, <3>1
    <3>. QED BY <1>2, <3>1, <3>2 DEF Stream, Stretch
  <2>. QED BY <2>1, <2>2
<1>6. Stretch(a, b, s)'
  BY <1>1, <1>3, <1>4, <1>5 DEF Stream, Stretch
<1>7. Polling' => Source(a, b, s, g)'
  BY <1>1, <1>4
  DEF Stream, Source, Untaken, Ended, Filling, Marking, Polling, Pending
<1>8. Pairs(h, g)'
  BY <1>1, <1>4 DEF Stream, Pairs, Polling, Complete
<1>. QED BY <1>1, <1>6, <1>7, <1>8 DEF Stream

(***************************************************************************)
(* PRU0 and the restarts while the producer polls.                         *)
(***************************************************************************)

(* What an acquisition leaves that ends while a half is being filled.      *)
LEMMA FillingHas ==
  ASSUME TypeOK, NEW a \in Nat, NEW b \in Nat, NEW s \in Nat,
         NEW g \in Halves, Filling(a, b, s, g)
  PROVE  /\ Pending => dataready = {g} /\ ram[g] = Nth(a, b + Taken + 1, s)
         /\ ppc = "unmark" => dataready \subseteq {half} /\ dreg = {half}
         /\ ppc = "copy" => dataready = {}
<1>1. Pending => dataready = {g} /\ ram[g] = Nth(a, b + Taken + 1, s)
  <2>. SUFFICES ASSUME Pending
                PROVE  dataready = {g} /\ ram[g] = Nth(a, b + Taken + 1, s)
    OBVIOUS
  <2>1. g = 1 - fill /\ dataready = {1 - fill} /\ count = b + Taken + 1
    BY DEF Filling, Pending
  <2>. QED BY <2>1 DEF Filling
<1>. QED BY <1>1 DEF Filling

(* PRU0 begins the command's own acquisition before it took anything, and  *)
(* without period or size does not get anywhere with it.                   *)
LEMMA StreamInit ==
  ASSUME TypeOK, Phases, NEW a \in Nat, NEW b \in Nat, NEW s \in Nat,
         NEW h \in Halves, NEW g \in Halves, Stream(a, b, s, h, g),
         Polling, PruInit
  PROVE  \/ Stream(a, b, s, h, g)'
         \/ Stream(commands, 0, mine, 0, 0)'
<1>1. /\ pru = "main" /\ start /\ pru' = "fill" /\ fill' = 0 /\ count' = 0
      /\ acq' = commands /\ kept' = setting
      /\ UNCHANGED <<commands, mine, published, item, cpc, fifo, ppc, total,
                     iteration, outcome, half, node, dataready>>
  BY DEF PruInit, adc, producer, consumer, shared
<1>2. /\ Drawn' = Drawn /\ Taken' = Taken
      /\ Polling' <=> Polling
  BY <1>1, SameCounts
<1>3. Untaken(g)
  BY <1>1 DEF Stream, Source, Ended, Filling, Marking
<1>4. Taken = 0 /\ dataready = {} /\ g = 0
  BY <1>3 DEF Untaken
<1>5. Len(published) = 0 /\ Len(fifo) = 0 /\ cpc # "publish" /\ ~Busy
  <2>1. ~Busy
    BY <1>4, BusyTaken
  <2>2. Drawn = 0 /\ Len(fifo) = 0
    BY <1>4, <2>1, Numbers DEF Taken
  <2>. QED BY <2>1, <2>2, Numbers DEF Drawn
<1>6. CASE setting = Cleared
  <2>1. Untaken(g)'
    BY <1>1, <1>2, <1>4, <1>6 DEF Untaken
  <2>2. Source(a, b, s, g)'
    BY <2>1 DEF Source
  <2>. QED BY <1>1, <1>5, <2>2, StreamOutside DEF Busy
<1>7. CASE setting = mine
  <2>1. Stretch(commands, 0, mine)'
    BY <1>1, <1>5, Numbers DEF Stretch, Busy
  <2>2. Source(commands, 0, mine, 0)'
    BY <1>1, <1>2, <1>4, <1>5, <1>7 DEF Source, Filling, Pending, Busy
  <2>3. h = 0 /\ iteration = 0
    <3>1. Taken + h = 2 * iteration + 0
      BY <1>4 DEF Stream, Pairs
    <3>2. h \in {0, 1} /\ iteration \in Nat
      BY Numbers DEF Halves
    <3>. QED BY <1>4, <3>1, <3>2
  <2>4. Pairs(0, 0)'
    BY <1>1, <1>2, <1>4, <2>3 DEF Stream, Pairs, Complete
  <2>. QED BY <1>1, <2>1, <2>2, <2>4 DEF Stream
<1>. QED BY <1>6, <1>7 DEF Phases

(* PRU0 sees that the start flag is clear, and is done.                    *)
LEMMA StreamNotice ==
  ASSUME TypeOK, Phases, NEW a \in Nat, NEW b \in Nat, NEW s \in Nat,
         NEW h \in Halves, NEW g \in Halves, Stream(a, b, s, h, g),
         Polling, PruNotice
  PROVE  Stream(a, b, s, h, g)'
<1>1. /\ pru = "fill" /\ ~start /\ pru' = "main"
      /\ UNCHANGED <<commands, mine, published, item, cpc, fifo, ppc, total,
                     iteration, dreg, outcome, half, node, ram, start,
                     dataready, kept>>
  BY DEF PruNotice, adc, producer, consumer, shared
<1>2. Taken' = Taken /\ (Pending' <=> Pending)
  BY <1>1, SameCounts DEF Pending
<1>3. Source(a, b, s, g)'
  <2>1. CASE Untaken(g)
    BY <1>1, <1>2, <2>1 DEF Source, Untaken
  <2>2. CASE Ended(a, b, s, g)
    BY <1>1, <1>2, <2>2 DEF Source, Ended
  <2>3. CASE Filling(a, b, s, g)
    <3>1. Ended(a, b, s, g)
      BY <1>1, <2>3, FillingHas DEF Ended
    <3>. QED BY <1>1, <1>2, <3>1 DEF Source, Ended
  <2>. QED BY <1>1, <2>1, <2>2, <2>3 DEF Stream, Source, Marking
<1>. QED BY <1>1, <1>3, StreamOutside

(* PRU0 fills a half that nobody reads, as PRU0 is slow enough ...         *)
LEMMA StreamFull ==
  ASSUME TypeOK, Phases, NEW a \in Nat, NEW b \in Nat, NEW s \in Nat,
         NEW h \in Halves, NEW g \in Halves, Stream(a, b, s, h, g),
         KeepsUp, Polling, PruFull
  PROVE  Stream(a, b, s, h, g)'
<1>1. /\ pru = "fill" /\ start /\ kept # Cleared /\ pru' = "mark"
      /\ count' = count + 1 /\ preg' = dataready
      /\ ram' = [ram EXCEPT ![fill] = Nth(acq, count + 1, kept)]
      /\ 1 - fill \notin dataready /\ ppc \notin {"unmark", "copy"}
      /\ UNCHANGED <<commands, mine, published, item, cpc, fifo, ppc, total,
                     iteration, outcome, half, node, dataready, fill, acq,
                     kept>>
  BY DEF PruFull, InTime, Nth, adc, producer, consumer, shared
<1>2. Taken' = Taken
  BY <1>1, SameCounts
<1>3. ram'[fill] = Nth(acq, count', kept)
  BY <1>1 DEF TypeOK
<1>4. Filling(a, b, s, g)
  BY <1>1 DEF Stream, Source, Untaken, Ended, Marking
<1>5. dataready = {} /\ ~Pending
  BY <1>1, <1>4 DEF Filling, Pending
<1>6. count' = b + Taken' + 1 /\ acq = a /\ kept = s /\ g = fill
  BY <1>1, <1>2, <1>4, <1>5, Numbers DEF Filling
<1>7. Source(a, b, s, g)'
  BY <1>1, <1>3, <1>5, <1>6 DEF Source, Marking
<1>. QED BY <1>1, <1>7, StreamOutside

(* ... and marks it in a word that nobody is about to store.               *)
LEMMA StreamMark ==
  ASSUME TypeOK, Phases, NEW a \in Nat, NEW b \in Nat, NEW s \in Nat,
         NEW h \in Halves, NEW g \in Halves, Stream(a, b, s, h, g),
         Polling, PruMark
  PROVE  Stream(a, b, s, h, g)'
<1>1. /\ pru = "mark" /\ pru' = "fill" /\ fill' = 1 - fill
      /\ dataready' = preg \cup {fill}
      /\ ram' = [ram EXCEPT ![1 - fill] = Torn]
      /\ UNCHANGED <<commands, mine, published, item, cpc, fifo, ppc, total,
                     iteration, outcome, half, node, count, acq, kept>>
  BY DEF PruMark, adc, producer, consumer
<1>2. Taken' = Taken
  BY <1>1, SameCounts
<1>3. fill \in {0, 1} /\ 1 - fill' = fill /\ 1 - fill # fill
  BY <1>1 DEF TypeOK, Halves
<1>4. ram'[fill] = ram[fill]
  BY <1>1, <1>3 DEF TypeOK, Halves
<1>5. Marking(a, b, s, g)
  BY <1>1 DEF Stream, Source, Untaken, Ended, Filling
<1>6. /\ acq' = a /\ kept' = s /\ dataready' = {1 - fill'} /\ Pending'
      /\ ppc' \notin {"unmark", "copy"} /\ g = 1 - fill'
  BY <1>1, <1>3, <1>5 DEF Marking, Pending
<1>7. count' = b + Taken' + 1 /\ ram'[1 - fill'] = Nth(a, count', s)
  BY <1>1, <1>2, <1>3, <1>4, <1>5 DEF Marking
<1>8. Source(a, b, s, g)'
  BY <1>1, <1>6, <1>7 DEF Source, Filling
<1>. QED BY <1>1, <1>6, <1>8, StreamOutside

(* A restart of either PRU ends the acquisition, unless PRU0 finds the     *)
(* start flag set.                                                         *)
LEMMA StreamClear ==
  ASSUME TypeOK, Phases, NEW a \in Nat, NEW b \in Nat, NEW s \in Nat,
         NEW h \in Halves, NEW g \in Halves, Stream(a, b, s, h, g),
         Polling, ClearShared
  PROVE  Stream(a, b, s, h, g)'
<1>1. /\ start' = FALSE /\ dataready' = {}
      /\ UNCHANGED <<commands, mine, published, item, cpc, fifo, ppc, total,
                     iteration, dreg, outcome, half, node, ram, pru, fill,
                     count, acq, kept, preg>>
  BY DEF ClearShared, adc, producer, consumer, pru0
<1>2. Taken' = Taken /\ ~Pending'
  BY <1>1, SameCounts DEF Pending
<1>3. Source(a, b, s, g)'
  <2>1. CASE Untaken(g)
    BY <1>1, <1>2, <2>1 DEF Source, Untaken
  <2>2. CASE Ended(a, b, s, g)
    BY <1>1, <1>2, <2>2 DEF Source, Ended
  <2>3. CASE Filling(a, b, s, g)
    BY <1>1, <1>2, <2>3 DEF Source, Ended, Filling
  <2>4. CASE Marking(a, b, s, g)
    BY <1>1, <1>2, <2>4 DEF Source, Marking
  <2>. QED BY <2>1, <2>2, <2>3, <2>4 DEF Stream, Source
<1>. QED BY <1>1, <1>3, StreamOutside

LEMMA StreamOff ==
  ASSUME TypeOK, Phases, NEW a \in Nat, NEW b \in Nat, NEW s \in Nat,
         NEW h \in Halves, NEW g \in Halves, Stream(a, b, s, h, g),
         Polling, PruOff
  PROVE  Stream(a, b, s, h, g)'
<1>1. /\ pru' = "off"
      /\ UNCHANGED <<commands, mine, published, item, cpc, fifo, ppc, total,
                     iteration, dreg, outcome, half, node, ram, start,
                     dataready, fill, count, acq, kept, preg>>
  BY DEF PruOff, adc, producer, consumer, shared
<1>2. Taken' = Taken /\ (Pending' <=> Pending)
  BY <1>1, SameCounts DEF Pending
<1>3. Source(a, b, s, g)'
  <2>1. CASE Untaken(g)
    BY <1>1, <1>2, <2>1 DEF Source, Untaken
  <2>2. CASE Ended(a, b, s, g)
    BY <1>1, <1>2, <2>2 DEF Source, Ended
  <2>3. CASE Filling(a, b, s, g)
    <3>1. /\ Pending => dataready = {g} /\ ram[g] = Nth(a, b + Taken + 1, s)
          /\ ppc = "unmark" => dataready \subseteq {half} /\ dreg = {half}
          /\ ppc = "copy" => dataready = {}
      BY <2>3, FillingHas
    <3>. QED BY <1>1, <1>2, <3>1 DEF Source, Ended
  <2>4. CASE Marking(a, b, s, g)
    BY <1>1, <1>2, <2>4 DEF Source, Ended, Marking, Pending
  <2>. QED BY <2>1, <2>2, <2>3, <2>4 DEF Stream, Source
<1>. QED BY <1>1, <1>3, StreamOutside

LEMMA StreamOn ==
  ASSUME TypeOK, Phases, NEW a \in Nat, NEW b \in Nat, NEW s \in Nat,
         NEW h \in Halves, NEW g \in Halves, Stream(a, b, s, h, g),
         Polling, PruOn, ~again'
  PROVE  Stream(a, b, s, h, g)'
<1>1. /\ pru = "off" /\ pru' = "main" /\ ~start'
      /\ UNCHANGED <<commands, mine, published, item, cpc, fifo, ppc, total,
                     iteration, dreg, outcome, half, node, ram, dataready>>
  BY DEF PruOn, adc, producer, consumer
<1>2. Taken' = Taken /\ (Pending' <=> Pending)
  BY <1>1, SameCounts DEF Pending
<1>3. Source(a, b, s, g)'
  <2>1. CASE Untaken(g)
    BY <1>1, <1>2, <2>1 DEF Source, Untaken
  <2>2. CASE Ended(a, b, s, g)
    BY <1>1, <1>2, <2>2 DEF Source, Ended
  <2>. QED BY <1>1, <2>1, <2>2 DEF Stream, Source, Filling, Marking
<1>. QED BY <1>1, <1>3, StreamOutside

-----------------------------------------------------------------------------
LEMMA StreamStep ==
  ASSUME TypeOK, Phases, InStream, [Next]_vars
  PROVE  InStream'
<1>. DEFINE Goal == \E a \in Nat, b \in Nat, s \in Nat, h \in Halves,
                       g \in Halves : Stream(a, b, s, h, g)'
<1>. SUFFICES ASSUME KeepsUp, ~again'
              PROVE  Goal
  BY DEF InStream
<1>1. ASSUME NEW n \in Iterations, NEW t \in Settings, Command(n, t)
      PROVE  Goal
  BY <1>1, StreamCommand DEF Halves
<1>2. CASE Start
  BY <1>2, StreamStart
<1>3. ASSUME Finish \/ Poll \/ Unmark \/ CopyHalf \/ Insert \/ Take \/ Publish
      PROVE  Goal
  <2>1. ~again
    BY <1>3
    DEF Finish, Poll, Unmark, CopyHalf, Insert, Take, Publish, power
  <2>2. PICK a \in Nat, b \in Nat, s \in Nat, h \in Halves, g \in Halves :
               Stream(a, b, s, h, g)
    BY <2>1 DEF InStream
  <2>3. CASE Poll
    <3>1. Stream(a, b, s, h, 1 - g)' /\ 1 - g \in Halves
      BY <2>2, <2>3, StreamPoll DEF Halves
    <3>. QED BY <3>1
  <2>4. CASE Finish \/ Unmark \/ CopyHalf \/ Insert \/ Take \/ Publish
    <3>1. Stream(a, b, s, h, g)'
      BY <2>2, <2>4, StreamFinish, StreamUnmark, StreamCopyHalf, StreamInsert,
         StreamTake, StreamPublish
    <3>. QED BY <3>1
  <2>. QED BY <1>3, <2>3, <2>4
<1>4. ASSUME Join \/ Stop \/ CheckEmpty \/ Sleep \/ UNCHANGED vars PROVE Goal
  <2>1. /\ UNCHANGED <<commands, producer, published, item, fifo, ram, shared,
                       pru0, again>>
        /\ cpc' = "publish" <=> cpc = "publish"
    BY <1>4
    DEF Join, Stop, CheckEmpty, Sleep, vars, adc, consumer, power
  <2>2. PICK a \in Nat, b \in Nat, s \in Nat, h \in Halves, g \in Halves :
               Stream(a, b, s, h, g)
    BY <2>1 DEF InStream
  <2>3. Stream(a, b, s, h, g)'
    BY <2>1, <2>2, StreamFrame
  <2>. QED BY <2>3
<1>5. ASSUME Configure \/ ClearProducing \/ Broadcast \/ HaltPru PROVE Goal
  <2>1. /\ ~Polling /\ ~Polling' /\ ~again
        /\ UNCHANGED <<commands, mine, published, item, fifo, total, outcome>>
        /\ cpc' = "publish" <=> cpc = "publish"
    BY <1>5
    DEF Configure, ClearProducing, Broadcast, HaltPru, Awake, Polling, adc,
        consumer, power
  <2>2. PICK a \in Nat, b \in Nat, s \in Nat, h \in Halves, g \in Halves :
               Stream(a, b, s, h, g)
    BY <2>1 DEF InStream
  <2>3. Stream(a, b, s, h, g)'
    BY <2>1, <2>2, StreamIdle
  <2>. QED BY <2>3
<1>6. ASSUME Pru0 \/ Restarts PROVE Goal
  <2>1. UNCHANGED <<commands, mine, published, item, cpc, fifo, ppc, total,
                    outcome>>
    BY <1>6
    DEF Pru0, PruInit, PruNotice, PruFull, PruMark, Restarts, ClearShared,
        PruOff, PruOn, adc, producer, consumer
  <2>2. ~again
    <3>1. CASE Pru0
      BY <3>1 DEF Pru0, PruInit, PruNotice, PruFull, PruMark, power
    <3>2. CASE ClearShared \/ PruOff
      BY <3>2 DEF ClearShared, PruOff
    <3>3. CASE PruOn
      <4>1. again' = (again \/ start')
        BY <3>3 DEF PruOn
      <4>. QED BY <4>1
    <3>. QED BY <1>6, <3>1, <3>2, <3>3 DEF Restarts
  <2>3. PICK a \in Nat, b \in Nat, s \in Nat, h \in Halves, g \in Halves :
               Stream(a, b, s, h, g)
    BY <2>2 DEF InStream
  <2>4. CASE ~Polling
    <3>1. Stream(a, b, s, h, g)'
      BY <2>1, <2>3, <2>4, StreamIdle DEF Polling
    <3>. QED BY <3>1
  <2>5. CASE Polling /\ PruInit
    <3>1. CASE Stream(a, b, s, h, g)'
      BY <3>1
    <3>2. CASE Stream(commands, 0, mine, 0, 0)'
      <4>1. commands' = commands /\ mine' = mine
        BY <2>1
      <4>. QED BY <3>2, <4>1, Numbers DEF Halves
    <3>. QED BY <2>3, <2>5, <3>1, <3>2, StreamInit
  <2>6. CASE Polling /\ (PruNotice \/ PruFull \/ PruMark \/ Restarts)
    <3>1. Stream(a, b, s, h, g)'
      BY <2>3, <2>6, StreamNotice, StreamFull, StreamMark, StreamClear,
         StreamOff, StreamOn
      DEF Restarts
    <3>. QED BY <3>1
  <2>. QED BY <1>6, <2>4, <2>5, <2>6 DEF Pru0
<1>. QED
  BY <1>1, <1>2, <1>3, <1>4, <1>5, <1>6 DEF Next, Producer, Consumer

LEMMA Invariant == Spec => []AdcInv
<1>1. AdcInv /\ [Next]_vars => AdcInv'
  BY TypeStep, PhasesStep, StreamStep DEF AdcInv
<1>. QED BY <1>1, InitInv, PTL DEF Spec

-----------------------------------------------------------------------------
(* Types; and the FIFO keeps its limit, however fast PRU0 is, although the *)
(* space is looked at in one critical section and used in another.         *)
THEOREM TypeCorrect == Spec => []TypeOK
BY Invariant, PTL DEF AdcInv

(* The consumer does not sleep when the producer has left.                 *)
THEOREM NobodyOversleeps == Spec => []NoSleepAfterEnd
BY Invariant, PTL DEF AdcInv

(* If PRU0 fills a half only after the producer copied the other, and is   *)
(* not switched on under the command with the start flag set, a command    *)
(* publishes consecutive, untorn batches of one acquisition and setting,   *)
(* for any numbers of batches and whenever else the PRUs are restarted;    *)
(* of its own acquisition from the first on, with period and size as asked *)
(* for.                                                                    *)
THEOREM SignalIsPublished == Spec => []IsTheSignal
<1>1. AdcInv => IsTheSignal
  <2> SUFFICES ASSUME AdcInv, KeepsUp, ~again, NEW i \in DOMAIN published
               PROVE  /\ published[i] # Torn
                      /\ published[i].acq = published[1].acq
                      /\ published[i].setting = published[1].setting
                      /\ published[i].n = published[1].n + i - 1
                      /\ published[i].acq = commands =>
                           published[i].n = i /\ published[i].setting = mine
    BY DEF IsTheSignal
  <2>1. PICK a \in Nat, b \in Nat, s \in Nat, h \in Halves, g \in Halves :
               Stream(a, b, s, h, g)
    BY DEF AdcInv, InStream
  <2>2. i \in Nat /\ i >= 1 /\ 1 \in DOMAIN published
    BY Numbers DEF AdcInv
  <2>3. published[i] = Nth(a, b + i, s) /\ published[1] = Nth(a, b + 1, s)
    BY <2>1, <2>2 DEF Stream, Stretch
  <2>4. /\ published[i].n = b + i /\ published[i].acq = a
        /\ published[i].setting = s
    BY <2>3 DEF Nth
  <2>5. /\ published[1].n = b + 1 /\ published[1].acq = a
        /\ published[1].setting = s
    BY <2>3 DEF Nth
  <2>6. published[i] # Torn
    BY <2>2, <2>4 DEF Torn
  <2>7. a = commands => b = 0 /\ s = mine
    BY <2>1 DEF Stream
  <2>. QED BY <2>2, <2>4, <2>5, <2>6, <2>7
<1>. QED BY <1>1, Invariant, PTL

(* Under the same conditions a command that ends normally has published two *)
(* batches per iteration, or one less when the first came from the middle  *)
(* of a pair of an older acquisition.                                      *)
THEOREM DoneHasAll ==
  ASSUME KeepsUp
  PROVE  Spec => []DoneIsComplete
<1>1. AdcInv => DoneIsComplete
  <2> SUFFICES ASSUME AdcInv, ppc = "off", cpc = "off", outcome = "done",
                      ~again
               PROVE  \/ Len(published) = 2 * total
                      \/ /\ Len(published) = 2 * total - 1
                         /\ published[1].acq # commands
    BY DEF DoneIsComplete
  <2>1. PICK a \in Nat, b \in Nat, s \in Nat, h \in Halves, g \in Halves :
               Stream(a, b, s, h, g)
    BY DEF AdcInv, InStream
  <2>2. fifo = <<>>
    BY DEF AdcInv, Phases
  <2>3. Taken = Len(published) /\ Len(published) \in Nat /\ total \in Nat
    BY <2>2, Numbers DEF AdcInv, Taken, Drawn, Busy
  <2>4. Complete(h)
    BY <2>1 DEF Stream, Pairs
  <2>5. CASE h = 0 \/ (Taken = 0 /\ total = 0)
    BY <2>3, <2>4, <2>5 DEF Complete
  <2>6. CASE h = 1 /\ Taken + h = 2 * total
    <3>1. Len(published) = 2 * total - 1 /\ 1 <= Len(published)
      BY <2>3, <2>6
    <3>2. 1 \in DOMAIN published
      BY <3>1, Numbers DEF AdcInv
    <3>3. published[1].acq = a /\ a # commands
      BY <2>1, <2>6, <3>2 DEF Stream, Stretch, Nth
    <3>. QED BY <3>1, <3>3
  <2>7. h = 0 \/ h = 1
    BY DEF Halves
  <2>. QED BY <2>4, <2>5, <2>6, <2>7 DEF Complete
<1>. QED BY <1>1, Invariant, PTL
=============================================================================
