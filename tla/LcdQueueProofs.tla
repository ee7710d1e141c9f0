--------------------------- MODULE LcdQueueProofs ---------------------------
(***************************************************************************)
(* Proofs about LcdQueue, for every capacity and any number of messages.   *)
(***************************************************************************)
EXTENDS LcdQueue, TLAPS

(***************************************************************************)
(* The ring's arithmetic, without the modulus.                             *)
(***************************************************************************)
(* The place n places after h, once round at most.                         *)
Place(h, n) == IF h + n < Capacity THEN h + n ELSE h + n - Capacity

LEMMA PlaceIsModulo ==
  ASSUME NEW h \in Places, NEW n \in 0 .. Capacity
  PROVE  (h + n) % Capacity = Place(h, n) /\ Place(h, n) \in Places
<1> USE LcdAssumption
<1>1. Capacity \in Nat \ {0} /\ h \in 0 .. Capacity - 1 /\ n \in Nat
  BY DEF Places
<1>2. CASE h + n < Capacity
  BY <1>1, <1>2 DEF Place, Places
<1>3. CASE ~(h + n < Capacity)
  <2>1. h + n - Capacity \in 0 .. Capacity - 1
    BY <1>1, <1>3
  <2>2. (h + n) % Capacity = (h + n - Capacity) % Capacity
    BY <1>1, <2>1
  <2>. QED BY <1>1, <1>3, <2>1, <2>2 DEF Place, Places
<1>. QED BY <1>2, <1>3

LEMMA PlaceType == \A h \in Places, n \in 0 .. Capacity : Place(h, n) \in Places
BY LcdAssumption DEF Place, Places

(* The places counted from the head are distinct.                          *)
LEMMA PlaceOneToOne ==
  ASSUME NEW h \in Places, NEW i \in Places, NEW j \in Places,
         Place(h, i) = Place(h, j)
  PROVE  i = j
BY LcdAssumption DEF Place, Places

(* Moving the head on by one moves every place on by one.                  *)
LEMMA AfterPlace ==
  ASSUME NEW h \in Places, NEW n \in Places
  PROVE  /\ After(h) \in Places
         /\ Place(After(h), n) = Place(h, n + 1)
         /\ After(Place(h, n)) = Place(h, n + 1)
<1> USE LcdAssumption
<1>1. Capacity \in Nat \ {0} /\ h \in 0 .. Capacity - 1 /\ n \in 0 .. Capacity - 1
  BY DEF Places
<1>2. \A x \in Places : After(x) = Place(x, 1) /\ After(x) \in Places
  BY PlaceIsModulo DEF After
<1>3. Place(h, n) \in Places
  BY <1>1, PlaceIsModulo
<1>. QED BY <1>1, <1>2, <1>3 DEF Place

-----------------------------------------------------------------------------
(***************************************************************************)
(* The inductive invariant: the tail is count places after the head, and   *)
(* nothing is newer than the last message accepted.                        *)
(***************************************************************************)
TypeOK ==
  /\ buffer \in [Places -> Nat]
  /\ head \in Places /\ tail \in Places /\ count \in 0 .. Capacity
  /\ shutdown \in BOOLEAN /\ available \in BOOLEAN
  /\ accepted \in Nat /\ msg \in Nat /\ displayed \in Nat
  /\ lpc \in {"start", "dequeue", "asleep", "probe", "reset", "display",
              "exited"}

TailAfterLast == tail = Place(head, count)

NoneNewer == msg <= accepted /\ displayed <= accepted

(* The i-th message of the queue, without the modulus.                     *)
Waiting(i) == buffer[Place(head, i)]

LEMMA QueuedIsWaiting ==
  ASSUME TypeOK
  PROVE  \A i \in 0 .. count - 1 : Queued(i) = Waiting(i)
<1> SUFFICES ASSUME NEW i \in 0 .. count - 1 PROVE Queued(i) = Waiting(i)
  OBVIOUS
<1>1. head \in Places /\ i \in 0 .. Capacity
  BY LcdAssumption DEF TypeOK
<1>. QED BY <1>1, PlaceIsModulo DEF Queued, Waiting

(* AscendingQueue in these terms.                                          *)
Ascending ==
  /\ \A i, j \in 0 .. count - 1 : i < j => Waiting(i) < Waiting(j)
  /\ \A i \in 0 .. count - 1 : /\ Waiting(i) > msg /\ Waiting(i) > displayed
                               /\ Waiting(i) <= accepted
  /\ msg # NoMessage => msg > displayed

LcdInv == TypeOK /\ TailAfterLast /\ NoneNewer /\ Ascending /\ NoLostWakeup

LEMMA AscendingIsAscending == TypeOK => (Ascending <=> AscendingQueue)
<1> SUFFICES ASSUME TypeOK PROVE Ascending <=> AscendingQueue
  OBVIOUS
<1>. QED BY QueuedIsWaiting DEF Ascending, AscendingQueue

LEMMA InitInv == Init => LcdInv
<1> SUFFICES ASSUME Init PROVE LcdInv
  OBVIOUS
<1>1. TypeOK
  <2>1. 0 \in Places /\ 0 \in 0 .. Capacity /\ 0 \in Nat
    BY LcdAssumption DEF Places
  <2>2. buffer \in [Places -> Nat]
    BY <2>1 DEF Init, NoMessage
  <2>. QED BY <2>1, <2>2 DEF Init, TypeOK, NoMessage
<1>2. TailAfterLast
  BY LcdAssumption DEF Init, TailAfterLast, Place
<1>3. NoneNewer /\ Ascending /\ NoLostWakeup
  BY DEF Init, NoneNewer, Ascending, NoLostWakeup, NoMessage
<1>. QED BY <1>1, <1>2, <1>3 DEF LcdInv

(* A message is queued behind all others and newer than they.              *)
LEMMA ShowStep ==
  ASSUME LcdInv, Show
  PROVE  LcdInv'
<1> USE LcdAssumption
<1>1. /\ head \in Places /\ tail \in Places /\ count \in Places
      /\ accepted \in Nat /\ buffer \in [Places -> Nat]
      /\ tail = Place(head, count)
  BY DEF LcdInv, TypeOK, TailAfterLast, Show, Places
<1>2. /\ head' = head /\ tail' = After(tail) /\ count' = count + 1
      /\ accepted' = accepted + 1
      /\ buffer' = [buffer EXCEPT ![tail] = accepted + 1]
      /\ UNCHANGED <<shutdown, msg, available, displayed>>
      /\ lpc' = IF lpc = "asleep" THEN "dequeue" ELSE lpc
  BY DEF Show
<1>3. TypeOK'
  BY <1>1, <1>2, AfterPlace DEF LcdInv, TypeOK, Places
<1>4. TailAfterLast'
  BY <1>1, <1>2, AfterPlace DEF TailAfterLast, Place
<1>5. NoneNewer'
  BY <1>1, <1>2 DEF LcdInv, TypeOK, NoneNewer
<1>6. \A i \in 0 .. count : i \in Places /\ Place(head, i) \in Places
  <2>1. \A i \in 0 .. count : i \in 0 .. Capacity /\ i \in Places
    BY <1>1 DEF Places
  <2>. QED BY <1>1, <2>1, PlaceType
<1>7. \A i \in 0 .. count :
        Waiting(i)' = IF i = count THEN accepted + 1 ELSE Waiting(i)
  <2> SUFFICES ASSUME NEW i \in 0 .. count
               PROVE  Waiting(i)' = IF i = count THEN accepted + 1 ELSE Waiting(i)
    OBVIOUS
  <2>1. Waiting(i)' = buffer'[Place(head, i)]
    BY <1>2 DEF Waiting, Place
  <2>2. i # count => Place(head, i) # tail
    BY <1>1, <1>6, PlaceOneToOne
  <2>. QED BY <1>1, <1>2, <1>6, <2>1, <2>2 DEF Waiting
<1>9. Ascending'
  <2>1. \A i \in 0 .. count' - 1 :
          /\ i \in 0 .. count
          /\ i # count => i \in 0 .. count - 1
    BY <1>1, <1>2 DEF Places
  <2>2. \A i \in 0 .. count - 1 :
          /\ Waiting(i) \in Nat
          /\ Waiting(i) > msg /\ Waiting(i) > displayed /\ Waiting(i) <= accepted
    <3>1. \A i \in 0 .. count - 1 : Waiting(i) \in Nat
      BY <1>1, <1>6 DEF Waiting, Places
    <3>. QED BY <3>1 DEF LcdInv, Ascending
  <2>3. \A i, j \in 0 .. count - 1 : i < j => Waiting(i) < Waiting(j)
    BY DEF LcdInv, Ascending
  <2>4. \A i, j \in 0 .. count' - 1 : i < j => Waiting(i)' < Waiting(j)'
    <3> SUFFICES ASSUME NEW i \in 0 .. count' - 1, NEW j \in 0 .. count' - 1, i < j
                 PROVE  Waiting(i)' < Waiting(j)'
      OBVIOUS
    <3>1. i \in 0 .. count - 1 /\ j \in 0 .. count
      BY <1>1, <1>2, <2>1 DEF Places
    <3>. QED BY <1>1, <1>7, <2>1, <2>2, <2>3, <3>1
  <2>5. \A i \in 0 .. count' - 1 :
          /\ Waiting(i)' > msg /\ Waiting(i)' > displayed
          /\ Waiting(i)' <= accepted + 1
    BY <1>1, <1>7, <2>1, <2>2 DEF LcdInv, NoneNewer, TypeOK
  <2>6. msg # NoMessage => msg > displayed
    BY DEF LcdInv, Ascending
  <2>. QED BY <1>2, <2>4, <2>5, <2>6 DEF Ascending
<1>10. NoLostWakeup'
  BY <1>2 DEF NoLostWakeup
<1>. QED BY <1>3, <1>4, <1>5, <1>9, <1>10 DEF LcdInv

(* The display thread takes the oldest message.                            *)
LEMMA DequeueStep ==
  ASSUME LcdInv, Dequeue
  PROVE  LcdInv'
<1> USE LcdAssumption
<1>1. /\ head \in Places /\ tail \in Places /\ count \in 1 .. Capacity
      /\ buffer \in [Places -> Nat] /\ 0 \in Places
      /\ tail = Place(head, count)
  BY DEF LcdInv, TypeOK, TailAfterLast, Dequeue, Places
<1>2. /\ head' = After(head) /\ count' = count - 1 /\ msg' = buffer[head]
      /\ lpc' = "probe"
      /\ UNCHANGED <<buffer, tail, shutdown, accepted, available, displayed>>
  BY DEF Dequeue
<1>3. TypeOK'
  BY <1>1, <1>2, AfterPlace DEF LcdInv, TypeOK
<1>4. \A n \in 0 .. Capacity - 1 : Place(head, n)' = Place(head, n + 1)
  BY <1>1, <1>2, AfterPlace DEF Place, Places
<1>5. TailAfterLast'
  <2>1. count - 1 \in 0 .. Capacity - 1 /\ count - 1 + 1 = count
    BY <1>1
  <2>. QED BY <1>1, <1>2, <1>4, <2>1 DEF TailAfterLast, Place
<1>6. msg' = Waiting(0) /\ 0 \in 0 .. count - 1
  BY <1>1, <1>2 DEF Waiting, Place, Places
<1>7. \A i \in 0 .. count' - 1 :
        /\ Waiting(i)' = Waiting(i + 1)
        /\ i + 1 \in 0 .. count - 1 /\ 0 < i + 1
  BY <1>1, <1>2, <1>4 DEF Waiting
<1>8. NoneNewer'
  BY <1>2, <1>6 DEF LcdInv, Ascending, NoneNewer
<1>9. Ascending'
  <2>1. /\ \A i, j \in 0 .. count - 1 : i < j => Waiting(i) < Waiting(j)
        /\ \A i \in 0 .. count - 1 : /\ Waiting(i) > displayed
                                     /\ Waiting(i) <= accepted
    BY DEF LcdInv, Ascending
  <2>2. \A i, j \in 0 .. count' - 1 : i < j => i + 1 < j + 1
    OBVIOUS
  <2>3. \A i, j \in 0 .. count' - 1 : i < j => Waiting(i)' < Waiting(j)'
    BY <1>7, <2>1, <2>2
  <2>4. \A i \in 0 .. count' - 1 :
          /\ Waiting(i)' > displayed /\ Waiting(i)' <= accepted
          /\ Waiting(0) < Waiting(i)'
    BY <1>6, <1>7, <2>1
  <2>5. \A i \in 0 .. count - 1 : Waiting(i) \in Nat
    <3>1. \A i \in 0 .. count - 1 : i \in 0 .. Capacity
      BY <1>1
    <3>. QED BY <1>1, <3>1, PlaceType DEF Waiting
  <2>. QED
    BY <1>2, <1>6, <1>7, <2>1, <2>3, <2>4, <2>5 DEF Ascending
<1>10. NoLostWakeup'
  BY <1>2 DEF NoLostWakeup
<1>. QED BY <1>3, <1>5, <1>8, <1>9, <1>10 DEF LcdInv

(* The queue stays as it is when the display thread shows the message in   *)
(* its hand, or drops it.                                                  *)
LEMMA QueueKept ==
  ASSUME LcdInv, UNCHANGED <<buffer, head, tail, count, accepted>>,
         \/ UNCHANGED <<msg, displayed>>
         \/ msg' = NoMessage /\ displayed' \in {msg, displayed}
  PROVE  TailAfterLast' /\ NoneNewer' /\ Ascending'
<1> USE DEF LcdInv, TypeOK
<1>1. TailAfterLast'
  BY DEF TailAfterLast, Place
<1>2. NoneNewer'
  BY DEF NoneNewer, NoMessage
<1>3. \A i \in 0 .. count - 1 : Waiting(i)' = Waiting(i) /\ Waiting(i) \in Nat
  <2>1. \A i \in 0 .. count - 1 : i \in 0 .. Capacity
    BY LcdAssumption
  <2>2. \A i \in 0 .. count - 1 : Waiting(i) \in Nat
    BY <2>1, PlaceType DEF Waiting
  <2>. QED BY <2>2 DEF Waiting, Place
<1>4. CASE UNCHANGED <<msg, displayed>>
  BY <1>1, <1>2, <1>3, <1>4 DEF Ascending
<1>5. CASE msg' = NoMessage /\ displayed' \in {msg, displayed}
  BY <1>1, <1>2, <1>3, <1>5 DEF Ascending, NoMessage
<1>. QED BY <1>4, <1>5

(* The other steps: the ring is left alone, or thrown away.                *)
LEMMA OtherSteps ==
  ASSUME LcdInv, [Next]_vars, ~Show, ~Dequeue
  PROVE  LcdInv'
<1> USE DEF NoLostWakeup, TypeOK, LcdInv
<1>1. CASE Shutdown
  BY <1>1, QueueKept DEF Shutdown
<1>2. CASE Start
  BY <1>2, QueueKept DEF Start, queueVars
<1>3. CASE DequeueWait
  BY <1>3, QueueKept DEF DequeueWait, queueVars
<1>4. CASE DequeueEnd
  BY <1>4, QueueKept DEF DequeueEnd, queueVars
<1>5. CASE Probe
  <2>1. TypeOK' /\ NoLostWakeup'
    BY <1>5 DEF Probe, queueVars, NoMessage
  <2>2. msg' \in {msg, NoMessage}
    BY <1>5 DEF Probe
  <2>. QED BY <1>5, <2>1, <2>2, QueueKept DEF Probe, queueVars
<1>6. CASE Reset
  BY <1>6, LcdAssumption
  DEF Reset, TailAfterLast, NoneNewer, Ascending, Places, Place
<1>7. CASE Display
  BY <1>7, QueueKept DEF Display, queueVars, NoMessage
<1>8. CASE SpuriousWakeup
  BY <1>8, QueueKept DEF SpuriousWakeup, queueVars
<1>9. CASE UNCHANGED vars
  BY <1>9, QueueKept DEF vars, queueVars
<1>. QED
  BY <1>1, <1>2, <1>3, <1>4, <1>5, <1>6, <1>7, <1>8, <1>9
  DEF Next, DisplayStep

LEMMA Invariant == Spec => []LcdInv
<1>1. LcdInv /\ [Next]_vars => LcdInv'
  BY ShowStep, DequeueStep, OtherSteps
<1>. QED BY <1>1, InitInv, PTL DEF Spec

(* Messages are displayed in the order in which they were shown and none   *)
(* twice, for every capacity: the old texts in the ring are never taken    *)
(* again, whenever the display thread resets it.                           *)
THEOREM AscendingForEver == Spec => []AscendingQueue
<1>1. LcdInv => AscendingQueue
  BY AscendingIsAscending DEF LcdInv
<1>. QED BY <1>1, Invariant, PTL

(* The ring's indices stay within it, whatever is shown and reset.         *)
THEOREM TypeCorrect == Spec => []TypeOK
BY Invariant, PTL DEF LcdInv

(* The display thread never sleeps with a message to display or a shutdown *)
(* to see.                                                                 *)
THEOREM NobodyOversleeps == Spec => []NoLostWakeup
BY Invariant, PTL DEF LcdInv

-----------------------------------------------------------------------------
(***************************************************************************)
(* What a reader of the display sees.                                      *)
(***************************************************************************)
(* From dequeue to display the thread has a message in hand, and a newer   *)
(* one than the one on the display.                                        *)
InHand == lpc \in {"probe", "reset", "display"} => msg > displayed

LEMMA InHandStep ==
  ASSUME LcdInv, InHand, [Next]_vars
  PROVE  InHand'
<1>1. CASE Dequeue
  <2>1. count \in 1 .. Capacity /\ head \in Places
    BY <1>1, LcdAssumption DEF LcdInv, TypeOK, Dequeue
  <2>2. Place(head, 0) = head /\ 0 \in 0 .. count - 1
    BY <2>1, LcdAssumption DEF Place, Places
  <2>3. buffer[head] > displayed
    BY <2>2 DEF LcdInv, Ascending, Waiting
  <2>. QED BY <1>1, <2>3 DEF Dequeue, InHand
<1>2. CASE ~Dequeue
  BY <1>2
  DEF InHand, Next, Show, Shutdown, SpuriousWakeup, DisplayStep, Start,
      DequeueWait, DequeueEnd, Probe, Reset, Display, vars
<1>. QED BY <1>1, <1>2

(* What the display shows is always followed by a message shown later:     *)
(* nothing out of order and nothing again, through full rings, display     *)
(* failures, resets and the shutdown.                                      *)
THEOREM DisplayedInOrder ==
  Spec => [][displayed' # displayed => displayed' > displayed]_vars
<1>1. Init => InHand
  BY DEF Init, InHand
<1>2. LcdInv /\ InHand /\ [Next]_vars => InHand'
  BY InHandStep
<1>3. InHand /\ [Next]_vars
        => [displayed' # displayed => displayed' > displayed]_vars
  <2>1. ASSUME InHand, [Next]_vars, displayed' # displayed
        PROVE  displayed' > displayed
    <3>1. CASE Display
      BY <2>1, <3>1 DEF InHand, Display
    <3>2. CASE ~Display
      BY <2>1, <3>2
      DEF Next, Show, Shutdown, SpuriousWakeup, DisplayStep, Start,
          DequeueWait, Dequeue, DequeueEnd, Probe, Reset, vars, queueVars
    <3>. QED BY <3>1, <3>2
  <2>. QED BY <2>1
<1>. QED BY <1>1, <1>2, <1>3, Invariant, PTL DEF Spec
=============================================================================
