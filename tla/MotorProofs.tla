----------------------------- MODULE MotorProofs -----------------------------
(***************************************************************************)
(* Proofs about MotorSet, for any number of motors, lists of them, step    *)
(* periods and contents of uninitialised memory; and about MotorGet, for   *)
(* any number of motor_set commands.                                       *)
(***************************************************************************)
EXTENDS MotorSet, MotorGet, TLAPS

(* What a message says about a motor it names.                             *)
LEMMA CommandFacts ==
  ASSUME NEW c \in Commands
  PROVE  /\ Named(c) \subseteq Motors
         /\ \A m \in Named(c) :
              /\ About(c, m) \in DOMAIN c.motor
              /\ c.ena[About(c, m)] \in BOOLEAN
              /\ c.dir[About(c, m)] \in BOOLEAN
         /\ DOMAIN c.period = DOMAIN c.motor
         /\ \A i \in DOMAIN c.period : c.period[i] \in Periods
<1>1. PICK l \in MotorLists :
        c \in [motor : {l}, ena : [DOMAIN l -> BOOLEAN],
               dir : [DOMAIN l -> BOOLEAN], period : [DOMAIN l -> Periods]]
  BY DEF Commands
<1>2. /\ c.motor = l /\ c.ena \in [DOMAIN l -> BOOLEAN]
      /\ c.dir \in [DOMAIN l -> BOOLEAN] /\ c.period \in [DOMAIN l -> Periods]
  BY <1>1
<1>3. Named(c) \subseteq Motors
  <2>1. l \in Seq(Motors)
    BY MotorAssumption
  <2>. QED BY <1>2, <2>1 DEF Named
<1>4. \A m \in Named(c) : About(c, m) \in DOMAIN c.motor
  BY DEF Named, About
<1>. QED BY <1>2, <1>3, <1>4

-----------------------------------------------------------------------------
(***************************************************************************)
(* The invariant: where what was asked of a motor is found.                *)
(***************************************************************************)
TypeOK ==
  /\ flag \in BOOLEAN /\ pruOn \in BOOLEAN
  /\ ppc \in {"loop", "drive", "finish"}
  /\ period \in [Motors -> Counter] /\ reload \in [Motors -> Counter]
  /\ count \in [Motors -> Counter]
  /\ asked \in [Motors -> Request]

(* PRU1 takes one command at a time, and finds in the data word the motors *)
(* of this command alone.                                                  *)
OneCommand ==
  pruOn =>
    /\ ppc = "loop" /\ ~flag => mask = {} /\ ena = {} /\ dir = {}
    /\ (ppc = "loop" /\ flag) \/ ppc = "drive" => mask \subseteq named
    /\ ppc # "loop" => ~flag

(* A motor's pins are as asked ...                                         *)
PinsAsAsked(m) ==
  (m \in enabled <=> asked[m].ena) /\ (m \in direction <=> asked[m].dir)

(* ... or will be when PRU1 has driven them.                               *)
WordAsAsked(m) ==
  IF m \in mask
  THEN (m \in ena <=> asked[m].ena) /\ (m \in dir <=> asked[m].dir)
  ELSE PinsAsAsked(m)

PeriodAsAsked(m, periods) ==
  asked[m].period # 0 => periods[m] = asked[m].period

Served ==
  pruOn =>
    \A m \in Motors : asked[m].named =>
      /\ (ppc = "loop" /\ flag) \/ ppc = "drive" => WordAsAsked(m)
      /\ (ppc = "loop" /\ ~flag) \/ ppc = "finish" => PinsAsAsked(m)
      /\ PeriodAsAsked(m, period)
      /\ ~flag => PeriodAsAsked(m, reload)

MotorInv == TypeOK /\ OneCommand /\ Served

LEMMA InitInv == Init => MotorInv
<1> SUFFICES ASSUME Init PROVE MotorInv
  OBVIOUS
<1>1. TypeOK
  <2>1. 0 \in Counter /\ Initial \in Counter /\ Nothing \in Request
    BY MotorAssumption DEF Counter, Nothing, Request
  <2>. QED BY <2>1 DEF Init, TypeOK
<1>2. OneCommand /\ Served
  BY DEF Init, OneCommand, Served, Nothing
<1>. QED BY <1>1, <1>2 DEF MotorInv

(* A step counter keeps its width, 0 wrapping to the largest value.        *)
LEMMA TickType ==
  ASSUME count \in [Motors -> Counter], reload \in [Motors -> Counter], Tick
  PROVE  count' \in [Motors -> Counter]
<1>1. \A n \in Counter : Less(n) \in Counter
  BY MotorAssumption DEF Less, Counter
<1>. QED BY <1>1 DEF Tick

LEMMA TypeStep ==
  ASSUME TypeOK, [Next]_vars
  PROVE  TypeOK'
<1> USE DEF TypeOK, word, pins
<1>1. ASSUME NEW c \in Commands, NEW junk \in Junk, Command(c, junk)
      PROVE  TypeOK'
  <2>1. ASSUME NEW m \in Motors PROVE Block(c, junk)[m] \in Counter
    BY CommandFacts, MotorAssumption DEF Block
  <2>2. period' \in [Motors -> Counter]
    BY <1>1, <2>1 DEF Command
  <2>3. ASSUME NEW m \in Motors PROVE asked'[m] \in Request
    <3>1. CASE m \in Named(c)
      <4>1. InPlace(c, m) => c.period[m + 1] \in Periods
        BY <3>1, CommandFacts DEF InPlace
      <4>. QED BY <1>1, <3>1, <4>1, CommandFacts DEF Command, Request
    <3>2. CASE m \notin Named(c)
      BY <1>1, <3>2 DEF Command
    <3>. QED BY <3>1, <3>2
  <2>. QED BY <1>1, <2>2, <2>3 DEF Command
<1>2. CASE PruPass
  BY <1>2, TickType DEF PruPass, PruStep
<1>3. CASE PruTake
  BY <1>3 DEF PruTake, PruStep
<1>4. CASE PruDrive
  BY <1>4 DEF PruDrive, PruStep
<1>5. CASE PruFinish
  BY <1>5, TickType DEF PruFinish, PruStep
<1>6. CASE PruStop
  BY <1>6 DEF PruStop
<1>7. CASE PruStart
  <2>1. 0 \in Counter /\ Initial \in Counter /\ Nothing \in Request
    BY MotorAssumption DEF Counter, Nothing, Request
  <2>. QED BY <1>7, <2>1 DEF PruStart
<1>8. CASE UNCHANGED vars
  BY <1>8 DEF vars
<1>. QED
  BY <1>1, <1>2, <1>3, <1>4, <1>5, <1>6, <1>7, <1>8 DEF Next

LEMMA OneCommandStep ==
  ASSUME TypeOK, OneCommand, [Next]_vars
  PROVE  OneCommand'
<1> USE DEF OneCommand, word, pins
<1>1. ASSUME NEW c \in Commands, NEW junk \in Junk, Command(c, junk)
      PROVE  OneCommand'
  BY <1>1 DEF Command
<1>2. CASE PruPass
  BY <1>2 DEF PruPass, PruStep
<1>3. CASE PruTake
  BY <1>3 DEF PruTake, PruStep
<1>4. CASE PruDrive
  BY <1>4 DEF PruDrive, PruStep
<1>5. CASE PruFinish
  BY <1>5 DEF PruFinish, PruStep
<1>6. CASE PruStop
  BY <1>6 DEF PruStop
<1>7. CASE PruStart
  BY <1>7 DEF PruStart
<1>8. CASE UNCHANGED vars
  BY <1>8 DEF vars
<1>. QED
  BY <1>1, <1>2, <1>3, <1>4, <1>5, <1>6, <1>7, <1>8 DEF Next

(* A command puts into the word what it asks of its motors.                *)
LEMMA CommandServed ==
  ASSUME TypeOK, OneCommand, Served, pruOn,
         NEW c \in Commands, NEW junk \in Junk, Command(c, junk),
         NEW m \in Motors, asked'[m].named
  PROVE  WordAsAsked(m)' /\ PeriodAsAsked(m, period)'
<1> USE DEF TypeOK
<1>1. /\ mask' = Named(c)
      /\ ena' = {n \in Named(c) : c.ena[About(c, n)]}
      /\ dir' = {n \in Named(c) : c.dir[About(c, n)]}
      /\ UNCHANGED <<enabled, direction>>
      /\ ppc = "loop" /\ ~flag
  BY DEF Command, OneCommand, pins
<1>2. CASE m \in Named(c)
  <2>1. /\ asked'[m].ena = c.ena[About(c, m)]
        /\ asked'[m].dir = c.dir[About(c, m)]
        /\ asked'[m].period = IF InPlace(c, m) THEN c.period[m + 1] ELSE 0
        /\ period'[m] = Block(c, junk)[m]
    BY <1>2 DEF Command
  <2>2. WordAsAsked(m)'
    BY <1>1, <1>2, <2>1 DEF WordAsAsked
  <2>3. InPlace(c, m) => Block(c, junk)[m] = c.period[m + 1]
    BY <1>2, CommandFacts DEF InPlace, Block
  <2>. QED BY <2>1, <2>2, <2>3 DEF PeriodAsAsked
<1>3. CASE m \notin Named(c)
  <2>1. asked'[m] = asked[m] /\ period'[m] = period[m]
    BY <1>3 DEF Command
  <2>2. PinsAsAsked(m) /\ PeriodAsAsked(m, period)
    BY <1>1, <2>1 DEF Served
  <2>. QED
    BY <1>1, <1>3, <2>1, <2>2 DEF WordAsAsked, PinsAsAsked, PeriodAsAsked
<1>. QED BY <1>2, <1>3

LEMMA ServedStep ==
  ASSUME TypeOK, OneCommand, Served, [Next]_vars
  PROVE  Served'
<1> USE DEF Served, word, pins
<1>1. ASSUME NEW c \in Commands, NEW junk \in Junk, Command(c, junk)
      PROVE  Served'
  <2>1. flag' /\ pruOn' = pruOn /\ ppc' = ppc /\ (pruOn => ppc = "loop")
    BY <1>1 DEF Command
  <2>. QED BY <1>1, <2>1, CommandServed
<1>2. CASE PruPass \/ UNCHANGED vars
  <2>1. UNCHANGED <<flag, mask, ena, dir, period, asked, pruOn, ppc, reload,
                    enabled, direction>>
    BY <1>2 DEF PruPass, PruStep, vars
  <2>. QED BY <2>1 DEF WordAsAsked, PinsAsAsked, PeriodAsAsked
<1>3. CASE PruTake
  BY <1>3 DEF PruTake, PruStep, WordAsAsked, PinsAsAsked, PeriodAsAsked
<1>4. CASE PruDrive
  <2>1. /\ pruOn /\ ppc = "drive" /\ ppc' = "finish"
        /\ UNCHANGED <<flag, period, reload, asked, pruOn>>
        /\ enabled' = (enabled \ mask) \cup (ena \cap mask)
        /\ direction' = (direction \ mask) \cup (dir \cap mask)
    BY <1>4 DEF PruDrive, PruStep
  <2>2. ASSUME NEW m \in Motors, WordAsAsked(m) PROVE PinsAsAsked(m)'
    <3>1. CASE m \in mask
      BY <2>1, <2>2, <3>1 DEF WordAsAsked, PinsAsAsked
    <3>2. CASE m \notin mask
      BY <2>1, <2>2, <3>2 DEF WordAsAsked, PinsAsAsked
    <3>. QED BY <3>1, <3>2
  <2>. QED BY <2>1, <2>2 DEF PeriodAsAsked
<1>5. CASE PruFinish
  BY <1>5 DEF PruFinish, PruStep, PinsAsAsked, PeriodAsAsked, OneCommand
<1>6. CASE PruStop
  BY <1>6 DEF PruStop
<1>7. CASE PruStart
  BY <1>7 DEF PruStart, Nothing
<1>. QED
  BY <1>1, <1>2, <1>3, <1>4, <1>5, <1>6, <1>7 DEF Next

LEMMA Invariant == Spec => []MotorInv
<1>1. MotorInv /\ [Next]_vars => MotorInv'
  BY TypeStep, OneCommandStep, ServedStep DEF MotorInv
<1>. QED BY <1>1, InitInv, PTL DEF Spec

-----------------------------------------------------------------------------
(* Step periods and counters keep the width of PRU1's registers, whatever  *)
(* the messages ask for and however the counters wrap.                     *)
THEOREM TypeCorrect == Spec => []TypeOK
BY Invariant, PTL DEF MotorInv

(* Every motor is enabled, turns and steps as the last command about it    *)
(* asked, for any number of motors named in any order; its period only if  *)
(* it stood at the motor's own place.                                      *)
THEOREM MotorsFollow == Spec => []ServedAsAsked
<1>1. MotorInv => ServedAsAsked
  <2> SUFFICES ASSUME MotorInv, pruOn, ppc = "loop", ~flag,
                      NEW m \in Motors, asked[m].named
               PROVE  /\ (m \in enabled) = asked[m].ena
                      /\ (m \in direction) = asked[m].dir
                      /\ asked[m].period # 0 => reload[m] = asked[m].period
    BY DEF ServedAsAsked
  <2>1. PinsAsAsked(m) /\ PeriodAsAsked(m, reload)
    BY DEF MotorInv, Served
  <2>2. asked[m].ena \in BOOLEAN /\ asked[m].dir \in BOOLEAN
    BY DEF MotorInv, TypeOK, Request
  <2>. QED BY <2>1, <2>2 DEF PinsAsAsked, PeriodAsAsked
<1>. QED BY <1>1, Invariant, PTL

(* PRU1 never changes the pins of a motor that the command does not name.  *)
THEOREM OthersAreKept == Spec => OthersKept
<1>1. MotorInv /\ [Next]_vars =>
        (ppc = "drive" /\ ppc' = "finish" =>
           \A m \in Motors \ named :
             /\ (m \in enabled') = (m \in enabled)
             /\ (m \in direction') = (m \in direction))
  <2> SUFFICES ASSUME MotorInv, [Next]_vars, ppc = "drive", ppc' = "finish",
                      NEW m \in Motors \ named
               PROVE  /\ (m \in enabled') = (m \in enabled)
                      /\ (m \in direction') = (m \in direction)
    OBVIOUS
  <2>1. CASE PruDrive
    <3>1. mask \subseteq named
      BY <2>1 DEF PruDrive, PruStep, MotorInv, OneCommand
    <3>. QED BY <2>1, <3>1 DEF PruDrive
  <2>2. CASE ~PruDrive
    BY <2>2
    DEF Next, Command, PruPass, PruTake, PruFinish, PruStop, PruStart,
        PruStep, vars, pins
  <2>. QED BY <2>1, <2>2
<1>. QED BY <1>1, Invariant, PTL DEF Spec, OthersKept
-----------------------------------------------------------------------------
(***************************************************************************)
(* motor_get, beside motor_set: module MotorGet.                           *)
(***************************************************************************)
GetTypeOK ==
  /\ gpc \in {"idle", "wait", "dir", "speeds"}
  /\ spc \in {"idle", "speeds", "raise", "wait"} /\ sets \in Nat
  /\ sflag \in BOOLEAN /\ undone \in BOOLEAN /\ ready \in BOOLEAN
  /\ wordOld \in BOOLEAN /\ respOld \in BOOLEAN /\ mixed \in BOOLEAN
  /\ level \in {"gpio", "triggers", "motor", "set", "off"}
  /\ watched \in Sources
  /\ unanswered \in BOOLEAN /\ wiped \in BOOLEAN /\ skipped \in BOOLEAN
  /\ twice \in BOOLEAN

(***************************************************************************)
(* Trigger edges.                                                          *)
(***************************************************************************)
(* An edge that is still latched is still unanswered, and so are those     *)
(* that the rest of a loop will answer by what it has read.                *)
LatchedOpen == watched \in irq => unanswered

ReadOpen ==
  ~skipped /\ watched \in r23 =>
    /\ level = "triggers" => unanswered
    /\ level = "motor" /\ watched = "motor" => unanswered

EdgeInv == LatchedOpen /\ ReadOpen /\ NoEdgeLost /\ OnceInFreshLoop

(***************************************************************************)
(* Settings.                                                               *)
(***************************************************************************)
(* Until PRU1 has applied it, a setting is in the data word or undone by a *)
(* restart; and the word names the motor only while its flag is up or      *)
(* about to be.                                                            *)
Pending ==
  /\ sdata \in {0, sets}
  /\ sdata # 0 => spc \in {"speeds", "raise"} \/ sflag
  /\ sdata = 0 => motorPins = sets \/ undone
  /\ spc # "speeds" => speeds = sets

(* With no motor_set at work since a sample was taken, pins and speeds are *)
(* what they were then, and motor_get has read nothing else.               *)
SampleHolds ==
  ready /\ ~wordOld => ~SetAtWork /\ sample = motorPins

AnswerHolds ==
  gpc \in {"dir", "speeds"} /\ ~respOld =>
    /\ ~SetAtWork
    /\ gotEna = motorPins
    /\ gpc = "dir" => ready /\ ~wordOld
    /\ gpc = "speeds" => gotDir = motorPins

SettingInv == Pending /\ SampleHolds /\ AnswerHolds /\ Coherent

GetInv == GetTypeOK /\ EdgeInv /\ SettingInv

(* With no motor_set at work, the motor turns as the speeds say.           *)
LEMMA Settled ==
  ASSUME GetTypeOK, Pending, ~SetAtWork
  PROVE  motorPins = speeds
BY DEF GetTypeOK, Pending, SetAtWork

-----------------------------------------------------------------------------
LEMMA GetInitInv == GetInit => GetInv
<1> SUFFICES ASSUME GetInit PROVE GetInv
  OBVIOUS
<1>1. GetTypeOK
  BY DEF GetInit, GetTypeOK
<1>2. EdgeInv
  BY DEF GetInit, EdgeInv, LatchedOpen, ReadOpen, NoEdgeLost,
         OnceInFreshLoop
<1>3. SettingInv
  BY DEF GetInit, SettingInv, Pending, SampleHolds, AnswerHolds, Coherent
<1>. QED BY <1>1, <1>2, <1>3 DEF GetInv

(* What the steps do that leave the edges, or the settings, alone.         *)
LEMMA GetTypeStep ==
  ASSUME GetTypeOK, [GetNext]_getVars
  PROVE  GetTypeOK'
<1> USE DEF GetTypeOK, getter, setter, data, motors, edges,
            cpu
<1>1. CASE MotorGetter
  <2>1. CASE TakeSpeeds
    <3>1. mixed' \in BOOLEAN
      BY <2>1, Zenon DEF TakeSpeeds
    <3>2. ready' \in {ready, FALSE} /\ wordOld' \in {wordOld, FALSE}
      BY <2>1 DEF TakeSpeeds
    <3>3. ready' \in BOOLEAN /\ wordOld' \in BOOLEAN
      BY <3>2
    <3>4. /\ gpc' \in {"idle", "wait"} /\ respOld' = FALSE
          /\ UNCHANGED <<setter, sflag, motors, edges, cpu, level>>
      BY <2>1 DEF TakeSpeeds
    <3>5. /\ sflag' \in BOOLEAN /\ undone' \in BOOLEAN
          /\ unanswered' \in BOOLEAN /\ wiped' \in BOOLEAN
          /\ skipped' \in BOOLEAN /\ twice' \in BOOLEAN
      BY <3>4
    <3>. QED BY <3>1, <3>3, <3>4, <3>5
  <2>2. CASE ~TakeSpeeds
    BY <1>1, <2>2 DEF MotorGetter, Start, GiveUp, TakeEna,
                      TakeDir
  <2>. QED BY <2>1, <2>2
<1>2. CASE MotorSetter \/ GpioInput
  <2>1. CASE SetData
    <3>1. wordOld' = ready /\ respOld' = (gpc \in {"dir", "speeds"})
      BY <2>1 DEF SetData, Outdate
    <3>2. wordOld' \in BOOLEAN /\ respOld' \in BOOLEAN
      BY <3>1
    <3>. QED BY <2>1, <3>2 DEF SetData
  <2>2. CASE SetSpeeds
    BY <2>2 DEF SetSpeeds
  <2>3. CASE SetRaise
    BY <2>3 DEF SetRaise
  <2>4. CASE SetEnd
    BY <2>4 DEF SetEnd
  <2>5. CASE GpioInput
    BY <2>5 DEF GpioInput
  <2>. QED BY <1>2, <2>1, <2>2, <2>3, <2>4, <2>5 DEF MotorSetter
<1>3. CASE PruOnDemand \/ PruStatus \/ PruSet
  <2>1. CASE PruOnDemand
    BY <2>1 DEF PruOnDemand
  <2>2. CASE PruStatus
    <3>1. /\ UNCHANGED <<getter, setter, sflag, data, motors, edges>>
          /\ level' = "triggers" /\ skipped' = FALSE
      BY <2>2 DEF PruStatus
    <3>2. /\ sflag' \in BOOLEAN /\ undone' \in BOOLEAN
          /\ ready' \in BOOLEAN /\ wordOld' \in BOOLEAN
          /\ respOld' \in BOOLEAN /\ mixed' \in BOOLEAN
          /\ unanswered' \in BOOLEAN /\ wiped' \in BOOLEAN
          /\ twice' \in BOOLEAN
      BY <3>1
    <3>. QED BY <3>1, <3>2
  <2>3. CASE PruSet
    <3>1. undone' \in {undone, FALSE} /\ sflag' = FALSE
      BY <2>3 DEF PruSet
    <3>2. undone' \in BOOLEAN /\ sflag' \in BOOLEAN
      BY <3>1
    <3>3. /\ UNCHANGED <<getter, setter, data, edges, cpu>>
          /\ level' = "gpio"
      BY <2>3 DEF PruSet
    <3>4. /\ ready' \in BOOLEAN /\ wordOld' \in BOOLEAN
          /\ respOld' \in BOOLEAN /\ mixed' \in BOOLEAN
          /\ unanswered' \in BOOLEAN /\ wiped' \in BOOLEAN
          /\ skipped' \in BOOLEAN /\ twice' \in BOOLEAN
      BY <3>3
    <3>. QED BY <3>2, <3>3, <3>4
  <2>. QED BY <1>3, <2>1, <2>2, <2>3
<1>4. ASSUME NEW s, Serve(s)
      PROVE  /\ unanswered' \in BOOLEAN /\ wiped' \in BOOLEAN
             /\ twice' \in BOOLEAN /\ watched' = watched
  BY <1>4, Zenon DEF Serve
<1>5. CASE PruTriggers
  <2>1. /\ unanswered' \in BOOLEAN /\ wiped' \in BOOLEAN
        /\ twice' \in BOOLEAN /\ watched' = watched
    <3>1. CASE UNCHANGED edges
      BY <3>1
    <3>2. CASE \E s \in GpioServed : Serve(s)
      BY <1>4, <3>2, Zenon
    <3>. QED BY <1>5, <3>1, <3>2 DEF PruTriggers
  <2>. QED BY <1>5, <2>1 DEF PruTriggers
<1>6. CASE PruMotor
  <2>1. /\ unanswered' \in BOOLEAN /\ wiped' \in BOOLEAN
        /\ twice' \in BOOLEAN /\ watched' = watched
    <3>1. CASE UNCHANGED edges
      BY <3>1
    <3>2. CASE Serve("motor")
      BY <1>4, <3>2, Zenon
    <3>. QED BY <1>6, <3>1, <3>2 DEF PruMotor
  <2>2. wordOld' \in BOOLEAN /\ ready' \in BOOLEAN
    <3>1. CASE UNCHANGED data
      BY <3>1
    <3>2. CASE Sampled
      BY <3>2, Zenon DEF Sampled, SetAtWork
    <3>. QED BY <1>6, <3>1, <3>2 DEF PruMotor
  <2>. QED BY <1>6, <2>1, <2>2 DEF PruMotor
<1>7. ASSUME NEW s \in Sources, Edge(s) PROVE GetTypeOK'
  BY <1>7 DEF Edge
<1>8. CASE PowerOff
  BY <1>8 DEF PowerOff
<1>9. CASE PowerOn
  <2>1. undone' = (sets > 0) /\ respOld' = (gpc \in {"dir", "speeds"})
    BY <1>9 DEF PowerOn
  <2>2. undone' \in BOOLEAN /\ respOld' \in BOOLEAN
    BY <2>1
  <2>. QED BY <1>9, <2>2 DEF PowerOn
<1>10. CASE UNCHANGED getVars
  BY <1>10 DEF getVars
<1>. QED
  BY <1>1, <1>2, <1>3, <1>5, <1>6, <1>7, <1>8, <1>9, <1>10 DEF GetNext

-----------------------------------------------------------------------------
(* An acknowledge that the loop's reading of the register justifies.       *)
LEMMA ServeStep ==
  ASSUME GetTypeOK, EdgeInv, NEW s, Serve(s), s \in r23,
         \/ level = "triggers" /\ s # "motor" /\ level' = "motor"
         \/ level = "motor" /\ s = "motor" /\ level' = "set",
         UNCHANGED <<r23, skipped>>
  PROVE  EdgeInv'
BY DEF GetTypeOK, EdgeInv, LatchedOpen, ReadOpen, NoEdgeLost,
       OnceInFreshLoop, Serve

(* A step between two acknowledges.                                        *)
LEMMA EdgeFrame ==
  ASSUME GetTypeOK, EdgeInv, UNCHANGED <<edges, r23, skipped>>,
         level' = level \/ level' \notin {"triggers", "motor"}
           \/ (level = "triggers" /\ level' = "motor")
  PROVE  EdgeInv'
BY DEF GetTypeOK, edges, EdgeInv, LatchedOpen, ReadOpen, NoEdgeLost,
       OnceInFreshLoop

LEMMA EdgeStep ==
  ASSUME GetTypeOK, EdgeInv, [GetNext]_getVars
  PROVE  EdgeInv'
<1>1. CASE MotorGetter \/ MotorSetter \/ GpioInput \/ PruSet
           \/ PowerOff \/ UNCHANGED getVars
  <2>1. /\ UNCHANGED <<edges, r23, skipped>>
        /\ level' = level \/ level' \notin {"triggers", "motor"}
    BY <1>1
    DEF getVars, cpu, MotorGetter, Start, GiveUp, TakeEna,
        TakeDir, TakeSpeeds, MotorSetter, SetData,
        SetSpeeds, SetRaise, SetEnd, GpioInput, PruSet,
        PowerOff
  <2>. QED BY <2>1, EdgeFrame
<1>2. CASE PruOnDemand \/ PruStatus \/ PowerOn
  BY <1>2
  DEF GetTypeOK, EdgeInv, LatchedOpen, ReadOpen, NoEdgeLost,
      OnceInFreshLoop, edges, PruOnDemand, PruStatus,
      PowerOn
<1>3. CASE PruTriggers
  <2>1. /\ level = "triggers" /\ level' = "motor" /\ UNCHANGED <<r23, skipped>>
        /\ (\E s \in GpioServed : Serve(s)) \/ UNCHANGED edges
    BY <1>3 DEF PruTriggers, cpu
  <2>2. \A s \in GpioServed : s \in r23 /\ s # "motor"
    BY DEF GpioServed
  <2>3. ASSUME NEW s \in GpioServed, Serve(s) PROVE EdgeInv'
    BY <2>1, <2>2, <2>3, ServeStep
  <2>4. CASE UNCHANGED edges
    BY <2>1, <2>4, EdgeFrame
  <2>. QED BY <2>1, <2>3, <2>4
<1>4. CASE PruMotor
  <2>1. /\ level = "motor" /\ level' = "set" /\ UNCHANGED <<r23, skipped>>
        /\ ("motor" \in r23 /\ Serve("motor")) \/ UNCHANGED edges
    BY <1>4 DEF PruMotor, cpu, MotorServed
  <2>2. CASE "motor" \in r23 /\ Serve("motor")
    BY <2>1, <2>2, ServeStep
  <2>3. CASE UNCHANGED edges
    BY <2>1, <2>3, EdgeFrame
  <2>. QED BY <2>1, <2>2, <2>3
<1>5. ASSUME NEW s \in Sources, Edge(s) PROVE EdgeInv'
  BY <1>5
  DEF GetTypeOK, EdgeInv, LatchedOpen, ReadOpen, NoEdgeLost,
      OnceInFreshLoop, Edge, cpu
<1>. QED BY <1>1, <1>2, <1>3, <1>4, <1>5 DEF GetNext

-----------------------------------------------------------------------------
(* Steps that touch neither setting nor sample nor answer.                 *)
LEMMA SettingFrame ==
  ASSUME SettingInv,
         UNCHANGED <<getter, setter, sflag, data, motors>>
  PROVE  SettingInv'
BY DEF SettingInv, Pending, SampleHolds, AnswerHolds, Coherent,
       SetAtWork, getter, setter, data, motors

LEMMA SettingStep ==
  ASSUME GetTypeOK, SettingInv, [GetNext]_getVars
  PROVE  SettingInv'
<1>1. CASE GpioInput \/ PruOnDemand \/ PruStatus \/ PruTriggers
           \/ (\E s \in Sources : Edge(s)) \/ PowerOff
           \/ UNCHANGED getVars
  BY <1>1, SettingFrame
  DEF getVars, GpioInput, PruOnDemand, PruStatus, PruTriggers,
      Edge, PowerOff
<1> USE DEF GetTypeOK, SettingInv, getter, setter, data, motors,
            SetAtWork
<1>2. CASE MotorGetter
  <2>1. Pending'
    BY <1>2 DEF Pending, MotorGetter, Start, GiveUp, TakeEna,
                TakeDir, TakeSpeeds
  <2>2. SampleHolds'
    BY <1>2 DEF SampleHolds, MotorGetter, Start, GiveUp,
                TakeEna, TakeDir, TakeSpeeds
  <2>3. AnswerHolds'
    BY <1>2 DEF AnswerHolds, SampleHolds, MotorGetter, Start,
                GiveUp, TakeEna, TakeDir, TakeSpeeds
  <2>4. Coherent'
    BY <1>2, Settled
    DEF AnswerHolds, Coherent, MotorGetter, Start, GiveUp,
        TakeEna, TakeDir, TakeSpeeds
  <2>. QED BY <2>1, <2>2, <2>3, <2>4
<1>3. CASE MotorSetter
  <2>1. Pending'
    BY <1>3 DEF Pending, MotorSetter, SetData, SetSpeeds,
                SetRaise, SetEnd
  <2>2. SampleHolds' /\ AnswerHolds'
    <3>1. CASE SetData
      <4>1. /\ UNCHANGED <<gpc, ready>> /\ (wordOld' <=> ready)
            /\ respOld' <=> gpc \in {"dir", "speeds"}
        BY <3>1 DEF SetData, Outdate
      <4>. QED BY <4>1 DEF SampleHolds, AnswerHolds
    <3>2. CASE SetSpeeds \/ SetRaise \/ SetEnd
      BY <3>2 DEF SampleHolds, AnswerHolds, SetSpeeds, SetRaise,
                  SetEnd
    <3>. QED BY <1>3, <3>1, <3>2 DEF MotorSetter
  <2>3. Coherent'
    BY <1>3 DEF Coherent, MotorSetter, SetData, SetSpeeds,
                SetRaise, SetEnd
  <2>. QED BY <2>1, <2>2, <2>3
<1>4. CASE PruMotor
  <2>1. /\ UNCHANGED <<getter, setter, sflag, motors>>
        /\ Sampled \/ UNCHANGED data
    BY <1>4 DEF PruMotor
  <2>2. CASE UNCHANGED data
    BY <2>1, <2>2, SettingFrame
  <2>3. CASE Sampled
    <3>1. ready' /\ sample' = motorPins /\ (wordOld' <=> SetAtWork)
      BY <2>3 DEF Sampled
    <3>2. Pending' /\ Coherent'
      BY <2>1 DEF Pending, Coherent
    <3>3. SampleHolds'
      BY <2>1, <3>1 DEF SampleHolds
    <3>4. AnswerHolds'
      BY <2>1, <3>1 DEF AnswerHolds
    <3>. QED BY <3>2, <3>3, <3>4
  <2>. QED BY <2>1, <2>2, <2>3
<1>5. CASE PruSet
  BY <1>5 DEF Pending, SampleHolds, AnswerHolds, Coherent, PruSet
<1>6. CASE PowerOn
  <2>1. /\ ~ready' /\ UNCHANGED <<gpc, mixed>>
        /\ respOld' <=> gpc \in {"dir", "speeds"}
    BY <1>6 DEF PowerOn
  <2>2. SampleHolds' /\ AnswerHolds' /\ Coherent'
    BY <2>1 DEF SampleHolds, AnswerHolds, Coherent
  <2>3. Pending'
    <3>1. UNCHANGED <<sets, speeds, spc>> /\ sdata' = 0 /\ motorPins' = 0
      BY <1>6 DEF PowerOn
    <3>2. undone' <=> sets > 0
      BY <1>6 DEF PowerOn
    <3>. QED BY <3>1, <3>2 DEF Pending
  <2>. QED BY <2>2, <2>3
<1>. QED BY <1>1, <1>2, <1>3, <1>4, <1>5, <1>6 DEF GetNext

LEMMA GetInvariant == GetSpec => []GetInv
<1>1. GetInv /\ [GetNext]_getVars => GetInv'
  BY GetTypeStep, EdgeStep, SettingStep DEF GetInv
<1>. QED BY <1>1, GetInitInv, PTL DEF GetSpec

-----------------------------------------------------------------------------
(* The threads and PRU1 keep to their steps.                               *)
THEOREM GetTypeCorrect == GetSpec => []GetTypeOK
BY GetInvariant, PTL DEF GetInv

(* PRU1 forgets no trigger edge by itself, in any order of commands,       *)
(* restarts and loops: an edge that no answer has taken and that is no     *)
(* longer latched was cleared with another trigger's acknowledge.          *)
THEOREM EdgesWait == GetSpec => []NoEdgeLost
BY GetInvariant, PTL DEF GetInv, EdgeInv

(* No loop that has read the interrupt status answers an edge that an      *)
(* earlier one has answered.                                               *)
THEOREM AnsweredOnce == GetSpec => []OnceInFreshLoop
BY GetInvariant, PTL DEF GetInv, EdgeInv

(* Pins and speeds of an answer belong together, however motor_get reads   *)
(* them between the steps of motor_set, PRU1 and its restarts, for any     *)
(* number of motor_set commands.                                           *)
THEOREM AnswersAreCoherent == GetSpec => []Coherent
BY GetInvariant, PTL DEF GetInv, SettingInv
=============================================================================
