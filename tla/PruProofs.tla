------------------------------ MODULE PruProofs ------------------------------
(***************************************************************************)
(* Proofs about the exchange of a word with PRU1: PruGet, and PruSet for   *)
(* every set of pins.                                                      *)
(***************************************************************************)
EXTENDS PruGet, PruSet, TLAPS

(* A trigger mode may have its bit in the flag word.                       *)
InTrigger ==
  /\ mode = Trigger
  /\ wpc \in {"round", "wait", "copy", "rest", "erase", "unload", "unstore"}

TriggerSteps ==
  wpc \in {"round", "erase", "unload", "unstore"} => mode = Trigger

(* What a trigger command finds ready was written since it erased the      *)
(* word.                                                                   *)
NewSince ==
  mode = Trigger /\ answered =>
    /\ ready /\ wpc # "erase" => ~reported
    /\ wpc \in {"copy", "rest"} => ~reported

(* Outside a trigger mode its bit is neither in the flag word nor in a     *)
(* register that will be stored to it.                                     *)
OwnTrigger ==
  /\ ~InTrigger => /\ Trigger \notin flag
                   /\ pruOn /\ ppc = "clear" => Trigger \notin preg
  /\ wpc = "store" => Trigger \notin wreg
  /\ wpc = "unstore" /\ pruOn => ppc # "clear" /\ OnDemand \notin flag

Still == pruOn => ppc = "loop" /\ flag = {}

(* PRU1 gives an on-demand command one answer, and rests before it and     *)
(* after it, when the word had no answer before and is not erased.         *)
OneAnswer ==
  mode = OnDemand /\ ~leftover /\ ~erased =>
    /\ wpc \in {"load", "store", "copy", "rest"} => Still
    /\ wpc \in {"load", "store"} => ~ready
    /\ wpc = "wait" =>
         /\ ready => Still
         /\ pruOn /\ ppc = "clear" => preg = {OnDemand}
         /\ pruOn /\ ppc \in {"sample", "write"} => flag = {}
    /\ wpc # "idle" /\ ready => fresh
    /\ wpc \in {"copy", "rest"} => ready
    /\ ~stale /\ ~torn

SampleIsNew == pruOn /\ ppc = "write" => pfresh

PromptInv == OwnTrigger /\ OneAnswer /\ SampleIsNew

GetInv ==
  /\ TypeOK /\ TriggerSteps /\ NewSince /\ NoDuplicate
  /\ PruPrompt => PromptInv

-----------------------------------------------------------------------------
LEMMA InitInv == Init => GetInv
<1> SUFFICES ASSUME Init PROVE GetInv
  OBVIOUS
<1> USE DEF Init, OnDemand, Trigger
<1>1. TypeOK
  BY DEF TypeOK, Modes
<1>2. TriggerSteps /\ NewSince /\ NoDuplicate
  BY DEF TriggerSteps, NewSince, NoDuplicate
<1>3. PromptInv
  BY DEF PromptInv, OwnTrigger, OneAnswer, SampleIsNew, Still
<1>. QED BY <1>1, <1>2, <1>3 DEF GetInv

LEMMA TypeStep ==
  ASSUME TypeOK, [Next]_vars
  PROVE  TypeOK'
<1> USE DEF TypeOK, Modes, OnDemand, Trigger, seen,
            linux, pru, word, Step, PruStep
<1>1. ASSUME NEW m \in Modes, Start(m) PROVE TypeOK'
  BY <1>1 DEF Start
<1>2. CASE LoadFlag
  BY <1>2 DEF LoadFlag
<1>3. CASE StoreFlag
  BY <1>3 DEF StoreFlag
<1>4. CASE Round
  BY <1>4 DEF Round
<1>5. CASE Ready
  BY <1>5 DEF Ready
<1>6. CASE Stopped
  BY <1>6 DEF Stopped, AfterWait
<1>7. CASE Timeout
  <2>1. running' \in BOOLEAN
    BY <1>7, Zenon DEF Timeout
  <2>. QED BY <1>7, <2>1 DEF Timeout, AfterWait
<1>8. CASE CopyFirst
  <2>1. stale' \in BOOLEAN
    BY <1>8, Zenon DEF CopyFirst
  <2>. QED BY <1>8, <2>1 DEF CopyFirst
<1>9. CASE CopyRest
  <2>1. stale' \in BOOLEAN /\ twice' \in BOOLEAN /\ running' \in BOOLEAN
    BY <1>9, Zenon DEF CopyRest
  <2>. QED BY <1>9, <2>1 DEF CopyRest
<1>10. CASE Erase
  <2>1. ready' \in BOOLEAN
    BY <1>10 DEF Erase
  <2>. QED BY <1>10, <2>1 DEF Erase
<1>11. CASE Unload
  BY <1>11 DEF Unload
<1>12. CASE Unstore
  <2>1. running' \in BOOLEAN
    BY <1>12 DEF Unstore
  <2>. QED BY <1>12, <2>1 DEF Unstore
<1>13. CASE Stop
  <2>1. running' \in BOOLEAN
    BY <1>13 DEF Stop
  <2>. QED BY <1>13, <2>1 DEF Stop
<1>14. CASE PruLoad
  BY <1>14 DEF PruLoad
<1>15. CASE PruClear
  BY <1>15 DEF PruClear
<1>16. CASE PruTrigger
  <2>1. edge' \in BOOLEAN
    BY <1>16 DEF PruTrigger
  <2>. QED BY <1>16, <2>1 DEF PruTrigger
<1>17. CASE PruSample
  BY <1>17 DEF PruSample
<1>18. CASE PruWrite
  <2>1. torn' \in BOOLEAN
    BY <1>18, Zenon DEF PruWrite
  <2>2. /\ ready' = TRUE /\ fresh' = pfresh /\ reported' = FALSE
        /\ ppc' = "loop"
        /\ UNCHANGED <<flag, running, wpc, mode, wreg, answered, stale,
                       leftover, erased, twice, pruOn, preg, pfresh, edge>>
    BY <1>18 DEF PruWrite
  <2>3. /\ answered' \in BOOLEAN /\ stale' \in BOOLEAN
        /\ leftover' \in BOOLEAN /\ erased' \in BOOLEAN
        /\ twice' \in BOOLEAN /\ running' \in BOOLEAN
        /\ edge' \in BOOLEAN /\ pfresh' \in BOOLEAN
        /\ pruOn' \in BOOLEAN /\ fresh' \in BOOLEAN
    BY <2>2
  <2>. QED BY <2>1, <2>2, <2>3
<1>19. CASE Edge
  BY <1>19 DEF Edge
<1>20. CASE PruStop
  <2>1. pruOn' \in BOOLEAN
    BY <1>20 DEF PruStop
  <2>. QED BY <1>20, <2>1 DEF PruStop
<1>21. CASE PruStart
  <2>1. torn' \in BOOLEAN /\ erased' \in BOOLEAN
    BY <1>21, Zenon DEF PruStart
  <2>2. /\ pruOn' = TRUE /\ ppc' = "loop" /\ flag' = {} /\ ready' = FALSE
        /\ fresh' = FALSE /\ reported' = FALSE
        /\ UNCHANGED <<running, wpc, mode, wreg, answered, stale, leftover,
                       twice, preg, pfresh, edge>>
    BY <1>21 DEF PruStart
  <2>3. /\ answered' \in BOOLEAN /\ stale' \in BOOLEAN
        /\ leftover' \in BOOLEAN /\ twice' \in BOOLEAN
        /\ running' \in BOOLEAN /\ edge' \in BOOLEAN
        /\ pfresh' \in BOOLEAN
    BY <2>2
  <2>. QED BY <2>1, <2>2, <2>3
<1>22. CASE UNCHANGED vars
  BY <1>22 DEF vars
<1>. QED
  BY <1>1, <1>2, <1>3, <1>4, <1>5, <1>6, <1>7, <1>8, <1>9, <1>10, <1>11,
     <1>12, <1>13, <1>14, <1>15, <1>16, <1>17, <1>18, <1>19, <1>20, <1>21,
     <1>22
  DEF Next, Linux, Pru1

(* The steps of a trigger mode; nothing is said of how fast PRU1 is.       *)
LEMMA NewSinceStep ==
  ASSUME TypeOK, TriggerSteps, NewSince, NoDuplicate,
         [Next]_vars
  PROVE  TriggerSteps' /\ NewSince' /\ NoDuplicate'
<1> USE DEF TypeOK, Modes, OnDemand, Trigger, seen,
            linux, pru, word, Step, PruStep, TriggerSteps,
            NewSince, NoDuplicate
<1>1. ASSUME NEW m \in Modes, Start(m)
      PROVE  TriggerSteps' /\ NewSince' /\ NoDuplicate'
  BY <1>1 DEF Start
<1>2. CASE LoadFlag \/ StoreFlag \/ Round \/ Ready
           \/ Unload \/ Unstore \/ Stop
  BY <1>2 DEF LoadFlag, StoreFlag, Round, Ready, Unload,
              Unstore, Stop
<1>3. CASE Stopped \/ Timeout
  BY <1>3 DEF Stopped, Timeout, AfterWait
<1>4. CASE CopyFirst \/ CopyRest \/ Erase
  BY <1>4 DEF CopyFirst, CopyRest, Erase
<1>5. CASE Pru1 \/ Edge \/ PruStop \/ PruStart
           \/ UNCHANGED vars
  BY <1>5 DEF Pru1, PruLoad, PruClear, PruTrigger,
              PruSample, PruWrite, Edge, PruStop, PruStart,
              vars
<1>. QED BY <1>1, <1>2, <1>3, <1>4, <1>5 DEF Next, Linux

LEMMA PromptStep ==
  ASSUME PruPrompt, TypeOK, TriggerSteps, PromptInv, [Next]_vars
  PROVE  PromptInv'
<1> USE DEF PromptInv, TypeOK, Modes, OnDemand, Trigger,
            seen, linux, pru, word, Step, PruStep,
            TriggerSteps, InTrigger, OwnTrigger, OneAnswer, SampleIsNew, Still
<1>1. ASSUME NEW m \in Modes, Start(m) PROVE PromptInv'
  <2>1. Still /\ Trigger \notin flag
    BY <1>1 DEF Start, Quiet
  <2>. QED BY <1>1, <2>1 DEF Start
<1>2. CASE LoadFlag
  BY <1>2 DEF LoadFlag, Served
<1>3. CASE StoreFlag
  BY <1>3 DEF StoreFlag
<1>4. CASE Round
  BY <1>4 DEF Round
<1>5. CASE Ready
  BY <1>5 DEF Ready
<1>6. CASE Stopped
  BY <1>6 DEF Stopped, AfterWait
<1>7. CASE Timeout
  BY <1>7 DEF Timeout, AfterWait
<1>8. CASE CopyFirst
  BY <1>8 DEF CopyFirst
<1>9. CASE CopyRest
  BY <1>9 DEF CopyRest
<1>10. CASE Erase
  BY <1>10 DEF Erase
<1>11. CASE Unload
  BY <1>11 DEF Unload, Served
<1>12. CASE Unstore
  BY <1>12 DEF Unstore
<1>13. CASE Stop
  BY <1>13 DEF Stop
<1>14. CASE PruLoad
  BY <1>14 DEF PruLoad
<1>15. CASE PruClear
  BY <1>15 DEF PruClear
<1>16. CASE PruTrigger
  BY <1>16 DEF PruTrigger
<1>17. CASE PruSample
  BY <1>17 DEF PruSample
<1>18. CASE PruWrite
  BY <1>18 DEF PruWrite
<1>19. CASE Edge
  BY <1>19 DEF Edge
<1>20. CASE PruStop
  BY <1>20 DEF PruStop
<1>21. CASE PruStart
  BY <1>21 DEF PruStart
<1>22. CASE UNCHANGED vars
  BY <1>22 DEF vars
<1>. QED
  BY <1>1, <1>2, <1>3, <1>4, <1>5, <1>6, <1>7, <1>8, <1>9, <1>10, <1>11,
     <1>12, <1>13, <1>14, <1>15, <1>16, <1>17, <1>18, <1>19, <1>20, <1>21,
     <1>22
  DEF Next, Linux, Pru1

LEMMA Invariant == Spec => []GetInv
<1>1. GetInv /\ [Next]_vars => GetInv'
  BY TypeStep, NewSinceStep, PromptStep DEF GetInv
<1>. QED BY <1>1, InitInv, PTL DEF Spec

-----------------------------------------------------------------------------
(* Type correctness.                                                       *)
THEOREM TypeCorrect == Spec => []TypeOK
BY Invariant, PTL DEF GetInv

(* A trigger command publishes no sample twice, whether PRU1 is prompt or  *)
(* not: the time-outs, stops and restarts that another exchange survived   *)
(* leave it nothing to repeat.                                             *)
THEOREM SamplesOnce == Spec => []NoDuplicate
BY Invariant, PTL DEF GetInv

(* With PRU1 prompt, a trigger mode takes its bit back, although both      *)
(* sides store the whole word.                                             *)
THEOREM TriggersTakenBack == Spec => []NoTriggerLeft
<1>1. GetInv => NoTriggerLeft
  BY DEF GetInv, PromptInv, OwnTrigger, InTrigger, NoTriggerLeft
<1>. QED BY <1>1, Invariant, PTL

(* With PRU1 prompt, the answer to an on-demand command is one sample      *)
(* taken for it, but for a leftover or a restart under the copy.           *)
THEOREM AnswersAreFresh ==
  ASSUME PruPrompt
  PROVE  Spec => []FreshUnlessLeftover
<1>1. GetInv => FreshUnlessLeftover
  BY DEF GetInv, PromptInv, OneAnswer, TypeOK, FreshUnlessLeftover
<1>. QED BY <1>1, Invariant, PTL

-----------------------------------------------------------------------------
(***************************************************************************)
(* The SET commands: module PruSet.                                        *)
(***************************************************************************)
SetTypeOK ==
  /\ request \in BOOLEAN /\ data \subseteq Bits
  /\ setPc \in {"idle", "load", "store", "wait"}
  /\ todo \subseteq Bits /\ setReg \subseteq Bits
  /\ driveReg \subseteq Bits
  /\ cmd \in Commands \cup {Low}
  /\ setPc # "idle" => cmd \in Commands
  /\ powered \in BOOLEAN /\ drivePc \in {"loop", "read", "drive", "finish"}
  /\ level \in [Pins -> BOOLEAN] /\ asked \in [Pins -> BOOLEAN]
  /\ wiped \subseteq Pins

(***************************************************************************)
(* Bits and commands.                                                      *)
(***************************************************************************)
LEMMA BitsDistinct ==
  ASSUME NEW p, NEW q
  PROVE  /\ Mask(p) # High(q)
         /\ Complete # Mask(p) /\ Complete # High(p)
         /\ Mask(p) = Mask(q) => p = q
         /\ High(p) = High(q) => p = q
BY DEF Mask, High, Complete

LEMMA CommandDomain ==
  ASSUME NEW c \in Commands
  PROVE  /\ DOMAIN c \subseteq Pins /\ DOMAIN c # {}
         /\ \A p \in DOMAIN c : c[p] \in BOOLEAN
<1>1. PICK S \in (SUBSET Pins) \ {{}} : c \in [S -> BOOLEAN]
  BY DEF Commands
<1>2. DOMAIN c = S /\ S \subseteq Pins /\ S # {}
  BY <1>1
<1>. QED BY <1>1, <1>2

(* The bits of a command say which pins it is about and how they are.      *)
LEMMA EncodeBits ==
  ASSUME NEW c \in Commands
  PROVE  /\ Encode(c) \subseteq Bits \ {Complete}
         /\ \A p : Mask(p) \in Encode(c) <=> p \in DOMAIN c
         /\ \A p : High(p) \in Encode(c) <=> p \in DOMAIN c /\ c[p]
<1>1. Encode(c) \subseteq Bits \ {Complete}
  BY CommandDomain, BitsDistinct DEF Encode, Bits
<1>2. ASSUME NEW p PROVE Mask(p) \in Encode(c) <=> p \in DOMAIN c
  BY BitsDistinct DEF Encode
<1>3. ASSUME NEW p
      PROVE  High(p) \in Encode(c) <=> p \in DOMAIN c /\ c[p]
  BY BitsDistinct DEF Encode
<1>. QED BY <1>1, <1>2, <1>3

-----------------------------------------------------------------------------
(***************************************************************************)
(* The way of a command through the data word.                             *)
(***************************************************************************)
Rests   == ~request /\ drivePc = "loop"
Writing == setPc \in {"load", "store"}

(* PRU1, when it is on, is not at work while the thread writes, and takes  *)
(* one command at a time.                                                  *)
Alternate ==
  powered => (Writing => Rests) /\ (drivePc # "loop" => ~request)

(* Between commands the data word has at most the completion bit.          *)
NothingLeft == Rests /\ ~Writing => data \subseteq {Complete}

(* While the thread writes, the data word has the bits of its command that *)
(* are no longer to be written, unless a restart has erased some.          *)
Collected ==
  powered /\ Writing /\ wiped # Pins =>
    /\ todo \subseteq Encode(cmd)
    /\ data \ {Complete} = Encode(cmd) \ todo
    /\ setPc = "store" => setReg = data

(* What word w makes of pin p is what was asked for.                       *)
Orders(w, p) ==
  IF Mask(p) \in w
    THEN High(p) \in w <=> asked[p]
    ELSE level[p] = asked[p]

Carried ==
  \A p \in Pins \ wiped :
    /\ powered /\ drivePc = "loop" /\ request => Orders(data, p)
    /\ powered /\ drivePc = "read"   => Orders(data, p)
    /\ powered /\ drivePc = "drive"  => Orders(driveReg, p)
    /\ powered /\ drivePc = "finish" => level[p] = asked[p]
    /\ Rests => level[p] = asked[p]

SetInv ==
  /\ SetTypeOK
  /\ SetPrompt => Alternate /\ NothingLeft /\ Collected /\ Carried

(* Type correctness, a part of the invariant.                              *)
LEMMA SetTypeStep ==
  ASSUME SetTypeOK, [SetNext]_setVars
  PROVE  SetTypeOK'
<1> USE DEF SetTypeOK, setter, driver, hist
<1>1. ASSUME NEW c \in Commands, Ask(c) PROVE SetTypeOK'
  <2>1. Encode(c) \subseteq Bits
    BY EncodeBits
  <2>2. asked' \in [Pins -> BOOLEAN]
    BY <1>1 DEF Ask
  <2>. QED BY <1>1, <2>1, <2>2 DEF Ask
<1>2. CASE LoadData
  BY <1>2 DEF LoadData
<1>3. CASE StoreData
  BY <1>3 DEF StoreData
<1>4. CASE Raise
  <2>1. asked' \in [Pins -> BOOLEAN]
    BY <1>4, CommandDomain DEF Raise
  <2>. QED BY <1>4, <2>1 DEF Raise
<1>5. CASE Done
  BY <1>5 DEF Done, Finish
<1>6. CASE GiveUp
  BY <1>6 DEF GiveUp, Finish
<1>7. CASE PruTake
  BY <1>7 DEF PruTake, DriveStep
<1>8. CASE PruRead
  BY <1>8 DEF PruRead, DriveStep
<1>9. CASE PruDrive
  <2>1. level' \in [Pins -> BOOLEAN]
    <3>1. \A p \in Pins : /\ (High(p) \in driveReg) \in BOOLEAN
                          /\ level[p] \in BOOLEAN
      OBVIOUS
    <3>. QED BY <1>9, <3>1, Zenon DEF PruDrive
  <2>. QED BY <1>9, <2>1 DEF PruDrive, DriveStep
<1>10. CASE PruFinish
  BY <1>10 DEF PruFinish, DriveStep, Bits
<1>11. CASE PowerOff
  BY <1>11 DEF PowerOff
<1>12. CASE PowerOn
  BY <1>12 DEF PowerOn
<1>13. CASE UNCHANGED setVars
  BY <1>13 DEF setVars
<1>. QED
  BY <1>1, <1>2, <1>3, <1>4, <1>5, <1>6, <1>7, <1>8, <1>9, <1>10, <1>11,
     <1>12, <1>13
  DEF SetNext, Setter, Driver

-----------------------------------------------------------------------------
(***************************************************************************)
(* A step keeps the parts of the invariant.                                *)
(***************************************************************************)
(* The thread starts to write only when PRU1 is through, and PRU1 starts   *)
(* to work only when the thread has raised the flag.                       *)
LEMMA AlternateStep ==
  ASSUME SetTypeOK, SetPrompt, Alternate, [SetNext]_setVars
  PROVE  Alternate'
<1> USE DEF Alternate, Writing, Rests,
            setter, driver, hist
<1>1. ASSUME NEW c \in Commands, Ask(c) PROVE Alternate'
  BY <1>1 DEF Ask
<1>2. CASE LoadData \/ StoreData
  BY <1>2 DEF LoadData, StoreData
<1>3. CASE Raise
  BY <1>3 DEF Raise
<1>4. CASE Done \/ GiveUp
  BY <1>4 DEF Done, GiveUp, Finish
<1>5. CASE PruTake
  BY <1>5 DEF PruTake, DriveStep
<1>6. CASE PruRead \/ PruDrive \/ PruFinish
  BY <1>6 DEF PruRead, PruDrive, PruFinish, DriveStep
<1>7. CASE PowerOff
  BY <1>7 DEF PowerOff
<1>8. CASE PowerOn
  BY <1>8 DEF PowerOn
<1>9. CASE UNCHANGED setVars
  BY <1>9 DEF setVars
<1>. QED
  BY <1>1, <1>2, <1>3, <1>4, <1>5, <1>6, <1>7, <1>8, <1>9
  DEF SetNext, Setter, Driver

(* What a command has put in the data word, PRU1's completion or restart   *)
(* takes out before the next.                                              *)
LEMMA NothingLeftStep ==
  ASSUME SetTypeOK, SetPrompt, Alternate, NothingLeft, [SetNext]_setVars
  PROVE  NothingLeft'
<1> USE DEF SetTypeOK, NothingLeft, Alternate, Writing, Rests,
            setter, driver, hist
<1>1. ASSUME NEW c \in Commands, Ask(c) PROVE NothingLeft'
  BY <1>1 DEF Ask
<1>2. CASE LoadData \/ StoreData
  BY <1>2 DEF LoadData, StoreData
<1>3. CASE Raise
  BY <1>3 DEF Raise
<1>4. CASE Done \/ GiveUp
  BY <1>4 DEF Done, GiveUp, Finish
<1>5. CASE PruTake \/ PruRead \/ PruDrive
  BY <1>5 DEF PruTake, PruRead, PruDrive, DriveStep
<1>6. CASE PruFinish
  BY <1>6 DEF PruFinish, DriveStep
<1>7. CASE PowerOff
  BY <1>7 DEF PowerOff
<1>8. CASE PowerOn
  BY <1>8 DEF PowerOn
<1>9. CASE UNCHANGED setVars
  BY <1>9 DEF setVars
<1>. QED
  BY <1>1, <1>2, <1>3, <1>4, <1>5, <1>6, <1>7, <1>8, <1>9
  DEF SetNext, Setter, Driver

(* The bits of a command reach the data word one by one.                   *)
LEMMA CollectedStep ==
  ASSUME SetTypeOK, SetPrompt, Alternate, NothingLeft, Collected,
         [SetNext]_setVars
  PROVE  Collected'
<1> USE DEF SetTypeOK, Collected, Alternate, Writing, Rests,
            setter, driver, hist
<1>1. ASSUME NEW c \in Commands, Ask(c) PROVE Collected'
  <2>1. powered => data \subseteq {Complete}
    BY <1>1 DEF Ask, NothingLeft
  <2>2. todo' = Encode(cmd') /\ setPc' = "load" /\ data' = data /\ powered' = powered
    BY <1>1 DEF Ask
  <2>. QED BY <2>1, <2>2
<1>2. CASE LoadData
  BY <1>2 DEF LoadData, Encode
<1>3. CASE StoreData
  <2>1. PICK b \in todo : data' = setReg \cup {b} /\ todo' = todo \ {b}
    BY <1>3 DEF StoreData
  <2>2. UNCHANGED <<cmd, powered, wiped>> /\ setPc = "store" /\ setPc' = "load"
    BY <1>3 DEF StoreData
  <2>3. /\ Encode(cmd)' = Encode(cmd)
        /\ Complete \notin Encode(cmd)
    BY <2>2, EncodeBits DEF Encode
  <2>. QED BY <2>1, <2>2, <2>3
<1>4. CASE Raise
  BY <1>4 DEF Raise
<1>5. CASE Done \/ GiveUp
  BY <1>5 DEF Done, GiveUp, Finish
<1>6. CASE Driver
  BY <1>6 DEF Driver, PruTake, PruRead, PruDrive, PruFinish,
              DriveStep
<1>7. CASE PowerOff
  BY <1>7 DEF PowerOff
<1>8. CASE PowerOn
  BY <1>8 DEF PowerOn
<1>9. CASE UNCHANGED setVars
  BY <1>9 DEF setVars, Encode
<1>. QED
  BY <1>1, <1>2, <1>3, <1>4, <1>5, <1>6, <1>7, <1>8, <1>9
  DEF SetNext, Setter

(* The order for a pin depends on its two bits and its two levels only.    *)
LEMMA OrdersKept ==
  ASSUME NEW p \in Pins, NEW w, NEW v, Orders(w, p),
         Mask(p) \in v <=> Mask(p) \in w,
         High(p) \in v <=> High(p) \in w,
         level'[p] = level[p], asked'[p] = asked[p]
  PROVE  Orders(v, p)'
BY DEF Orders

(* When the flag is raised the data word orders what is asked.             *)
LEMMA RaiseOrders ==
  ASSUME SetTypeOK, SetPrompt, Alternate, Collected, Carried, Raise, powered,
         NEW p \in Pins \ wiped
  PROVE  Orders(data, p)'
<1>1. /\ setPc = "load" /\ todo = {} /\ Rests /\ cmd \in Commands
      /\ UNCHANGED <<data, level, wiped>>
      /\ asked' = [q \in Pins |-> IF q \in DOMAIN cmd THEN cmd[q] ELSE asked[q]]
  BY DEF Raise, driver, SetTypeOK, Alternate, Writing
<1>2. wiped # Pins /\ level[p] = asked[p]
  BY <1>1 DEF Carried
<1>3. data \ {Complete} = Encode(cmd)
  BY <1>1, <1>2 DEF Collected, Writing
<1>4. /\ Mask(p) \in data <=> p \in DOMAIN cmd
      /\ High(p) \in data <=> p \in DOMAIN cmd /\ cmd[p]
  BY <1>1, <1>3, EncodeBits, BitsDistinct
<1>5. CASE p \in DOMAIN cmd
  <2>1. asked'[p] = cmd[p]
    BY <1>1, <1>5
  <2>2. Mask(p) \in data' /\ (High(p) \in data' <=> asked'[p])
    BY <1>1, <1>4, <1>5, <2>1
  <2>. QED BY <2>2 DEF Orders
<1>6. CASE p \notin DOMAIN cmd
  <2>1. Mask(p) \notin data' /\ level'[p] = asked'[p]
    BY <1>1, <1>2, <1>4, <1>6
  <2>. QED BY <2>1 DEF Orders
<1>. QED BY <1>5, <1>6

(* What was asked for is in the data word, in PRU1's register or on the    *)
(* pins.                                                                   *)
LEMMA CarriedStep ==
  ASSUME SetTypeOK, SetPrompt, Alternate, NothingLeft, Collected, Carried,
         [SetNext]_setVars
  PROVE  Carried'
<1> SUFFICES ASSUME NEW p \in Pins \ wiped'
             PROVE  /\ powered' /\ drivePc' = "loop" /\ request' => Orders(data, p)'
                    /\ powered' /\ drivePc' = "read"   => Orders(data, p)'
                    /\ powered' /\ drivePc' = "drive"  => Orders(driveReg, p)'
                    /\ powered' /\ drivePc' = "finish" => level'[p] = asked'[p]
                    /\ Rests' => level'[p] = asked'[p]
  BY DEF Carried
<1> USE DEF setter, driver, hist, Rests
<1>1. ASSUME NEW c \in Commands, Ask(c)
      PROVE  /\ Rests' => level'[p] = asked'[p]
             /\ powered' => Rests'
  <2>1. powered' => Rests'
    BY <1>1 DEF Ask
  <2>2. asked'[p] = IF p \in DOMAIN c \cap wiped THEN level[p] ELSE asked[p]
    BY <1>1 DEF Ask
  <2>3. level' = level /\ (p \in wiped => p \in DOMAIN c) /\ Rests' = Rests
    BY <1>1 DEF Ask
  <2>4. Rests /\ p \notin wiped => level[p] = asked[p]
    BY DEF Carried
  <2>. QED BY <2>1, <2>2, <2>3, <2>4
<1>2. CASE LoadData \/ Done \/ GiveUp \/ UNCHANGED setVars
  <2>1. UNCHANGED <<data, driveReg, level, asked, wiped, request, drivePc, powered>>
    BY <1>2 DEF LoadData, Done, GiveUp, Finish, setVars
  <2>. QED BY <2>1 DEF Carried, Orders
<1>3. CASE StoreData
  <2>1. UNCHANGED <<driveReg, level, asked, wiped, request, drivePc, powered>>
    BY <1>3 DEF StoreData
  <2>2. powered => Rests
    BY <1>3 DEF StoreData, Alternate, Writing
  <2>. QED BY <2>1, <2>2 DEF Carried
<1>4. CASE Raise
  <2>1. UNCHANGED <<data, level, powered, drivePc, driveReg, wiped>> /\ request'
    BY <1>4 DEF Raise
  <2>2. powered => drivePc = "loop"
    BY <1>4 DEF Raise, Alternate, Writing
  <2>3. powered => Orders(data, p)'
    BY <1>4, <2>1, RaiseOrders
  <2>. QED BY <2>1, <2>2, <2>3
<1>5. CASE PruTake
  <2>1. /\ UNCHANGED <<data, level, asked, wiped, powered>>
        /\ powered /\ drivePc = "loop" /\ request /\ drivePc' = "read"
    BY <1>5 DEF PruTake, DriveStep
  <2>2. Orders(data, p)
    BY <2>1 DEF Carried
  <2>. QED BY <2>1, <2>2 DEF Orders
<1>6. CASE PruRead
  <2>1. /\ UNCHANGED <<level, asked, wiped>> /\ driveReg' = data
        /\ powered /\ drivePc = "read" /\ drivePc' = "drive"
    BY <1>6 DEF PruRead, DriveStep
  <2>2. Orders(data, p)
    BY <2>1 DEF Carried
  <2>. QED BY <2>1, <2>2 DEF Orders
<1>7. CASE PruDrive
  <2>1. /\ UNCHANGED <<asked, wiped>>
        /\ powered /\ drivePc = "drive" /\ drivePc' = "finish"
        /\ level'[p] = IF Mask(p) \in driveReg
                         THEN High(p) \in driveReg
                         ELSE level[p]
    BY <1>7 DEF PruDrive, DriveStep
  <2>2. Orders(driveReg, p)
    BY <2>1 DEF Carried
  <2>3. level'[p] = asked'[p]
    BY <2>1, <2>2 DEF Orders, SetTypeOK
  <2>. QED BY <2>1, <2>3
<1>8. CASE PruFinish
  <2>1. /\ UNCHANGED <<request, level, asked, wiped, powered>>
        /\ powered /\ drivePc = "finish" /\ drivePc' = "loop"
    BY <1>8 DEF PruFinish, DriveStep
  <2>2. level[p] = asked[p] /\ ~request
    BY <2>1 DEF Carried, Alternate
  <2>. QED BY <2>1, <2>2
<1>9. CASE PowerOff
  <2>1. UNCHANGED <<request, level, asked, wiped, drivePc>> /\ ~powered'
    BY <1>9 DEF PowerOff
  <2>. QED BY <2>1 DEF Carried
<1>10. CASE PowerOn
  <2>1. UNCHANGED <<level, asked>> /\ ~request' /\ drivePc' = "loop"
    BY <1>10 DEF PowerOn
  <2>2. Rests /\ p \notin wiped
    BY <1>10 DEF PowerOn
  <2>. QED BY <2>1, <2>2 DEF Carried
<1>. QED
  BY <1>1, <1>2, <1>3, <1>4, <1>5, <1>6, <1>7, <1>8, <1>9, <1>10
  DEF SetNext, Setter, Driver

LEMMA SetInvariant == SetSpec => []SetInv
<1>1. SetInit => SetInv
  <2> SUFFICES ASSUME SetInit PROVE SetInv
    OBVIOUS
  <2>1. SetTypeOK
    BY DEF SetInit, SetTypeOK, Low
  <2>2. Alternate /\ NothingLeft /\ Collected /\ Carried
    BY DEF SetInit, Alternate, NothingLeft, Collected, Carried, Rests, Writing
  <2>. QED BY <2>1, <2>2 DEF SetInv
<1>2. SetInv /\ [SetNext]_setVars => SetInv'
  BY SetTypeStep, AlternateStep, NothingLeftStep, CollectedStep, CarriedStep
  DEF SetInv
<1>. QED BY <1>1, <1>2, PTL DEF SetSpec

(* The words of a SET command have only bits that mean something.          *)
THEOREM SetTypeCorrect == SetSpec => []SetTypeOK
BY SetInvariant, PTL DEF SetInv

(* With PRU1 prompt, the pins follow the commands, for every set of pins:  *)
(* no command inherits a bit of an earlier one.                            *)
THEOREM PinsFollow == SetSpec => []AppliedAsAsked
<1>1. SetInv => AppliedAsAsked
  BY DEF SetInv, AppliedAsAsked, Carried, Rests
<1>. QED BY <1>1, SetInvariant, PTL
=============================================================================
