-------------------------- MODULE AdcBufferProofs --------------------------
(***************************************************************************)
(* Proofs about AdcBuffer, for every size and number of samples that the   *)
(* validator accepts, whatever its limits and the length of a half.        *)
(***************************************************************************)
EXTENDS AdcBuffer, TLAPS

(* The half that PRU0 is filling, the samples it has in it, and the half   *)
(* that is copied next.                                                    *)
Filling == IF filled < Limit THEN 0 ELSE 1
Begun   == IF filled < Limit THEN filled ELSE filled - Limit
NextHalf == IF marked = {} THEN Filling ELSE 1 - Filling

Base(h) == IF h = 0 THEN 0 ELSE HalfWords

(* Samples in halves that have been full.                                  *)
InHalves == (IF marked = {} THEN copies ELSE copies + 1) * Limit

(* Samples first, first + 1, ... of the signal from word w on.             *)
Holds(w, n, first) ==
  \A i \in Nat : i < n =>
    \A ch \in Channels : ram[w + 4 * i + ch] = <<first + i, ch>>

TypeOK ==
  /\ size \in Nat /\ samples \in Nat /\ Accepted(size, samples)
  /\ iteration \in Nat /\ offset \in Nat /\ filled \in Nat /\ now \in Nat
  /\ copies \in Nat /\ start \in BOOLEAN

(* PRU0 writes where the half begins, never into one that waits for its    *)
(* copy, and its count tells which half that is.                           *)
Layout ==
  /\ filled < 2 * Limit
  /\ offset = Base(Filling) + 4 * Begun
  /\ marked \in {{}, {1 - Filling}}
  /\ now = InHalves + Begun

Contents ==
  /\ Holds(Base(Filling), Begun, InHalves)
  /\ marked # {} => Holds(Base(1 - Filling), Limit, copies * Limit)

(* Halves are copied in pairs, and as many as the message asked for.       *)
Pairs ==
  /\ copies = 2 * iteration + NextHalf
  /\ iteration <= samples \div size
  /\ iteration = samples \div size => copies = 2 * iteration
  /\ ~start => iteration = samples \div size

BufferInv == TypeOK /\ Layout /\ Contents /\ Pairs /\ PublishedIsSignal

-----------------------------------------------------------------------------
(* The arithmetic of the accepted sizes.                                   *)
LEMMA DivFacts ==
  /\ \A s, t \in Nat : s <= t => s \div 2 <= t \div 2
  /\ \A s \in Nat : s % 4 = 0 => s = 2 * (s \div 2) /\ s \div 2 \in Nat
  /\ \A p \in Nat : p - (p % 4) \in Nat /\ p - (p % 4) <= p
  /\ \A p \in Nat : p >= 4 => p - (p % 4) >= 1
OBVIOUS

LEMMA SizeFacts ==
  ASSUME TypeOK
  PROVE  /\ PerHalf \in Nat /\ size = 2 * PerHalf
         /\ Limit \in Nat /\ Limit >= 1 /\ Limit <= PerHalf
         /\ HalfWords \in Nat /\ 4 * Limit <= HalfWords
<1>1. /\ size \in Nat /\ size >= 8 /\ size <= SizeMax /\ size % 4 = 0
      /\ HalfWords \in Nat /\ 4 * (SizeMax \div 2) <= HalfWords
      /\ SizeMax \in Nat
  BY BufferAssumption DEF TypeOK, Accepted
<1>2. PerHalf \in Nat /\ size = 2 * PerHalf /\ PerHalf <= SizeMax \div 2
  BY <1>1, DivFacts DEF PerHalf
<1>3. SizeMax \div 2 \in Nat
  BY <1>1
<1>4. PerHalf >= 4
  BY <1>1, <1>2
<1>5. Limit \in Nat /\ Limit <= PerHalf /\ Limit >= 1
  BY <1>2, <1>4, DivFacts DEF Limit
<1>. QED BY <1>1, <1>2, <1>3, <1>5

LEMMA SamplesFacts ==
  ASSUME TypeOK
  PROVE  samples \div size \in Nat /\ samples = size * (samples \div size)
<1>1. size \in Nat \ {0} /\ samples \in Nat /\ samples % size = 0
  BY BufferAssumption DEF TypeOK, Accepted
<1>. QED BY <1>1

LEMMA InitInv == Init => BufferInv
<1> SUFFICES ASSUME Init PROVE BufferInv
  OBVIOUS
<1>1. TypeOK
  BY BufferAssumption DEF Init, TypeOK
<1>2. Limit \in Nat /\ Limit >= 1 /\ samples \div size \in Nat
  BY <1>1, SizeFacts, SamplesFacts
<1>3. /\ Filling = 0 /\ Begun = 0 /\ NextHalf = 0
      /\ marked = {} /\ copies = 0 /\ filled = 0 /\ offset = 0 /\ now = 0
  BY <1>2 DEF Init, Filling, Begun, NextHalf
<1>4. InHalves = 0
  BY <1>2, <1>3 DEF InHalves
<1>5. Layout
  BY <1>2, <1>3, <1>4 DEF Layout, Base
<1>6. Contents
  BY <1>3 DEF Contents, Holds
<1>7. Pairs
  BY <1>2, <1>3 DEF Init, Pairs
<1>8. PublishedIsSignal
  BY DEF Init, PublishedIsSignal
<1>. QED BY <1>1, <1>5, <1>6, <1>7, <1>8 DEF BufferInv

LEMMA TypeStep ==
  ASSUME TypeOK, [Next]_vars
  PROVE  TypeOK'
<1> USE DEF TypeOK, Accepted
<1>1. CASE Sample
  <2>1. offset' \in Nat /\ filled' \in Nat /\ now' \in Nat
    BY <1>1, BufferAssumption DEF Sample, Full
  <2>. QED BY <1>1, <2>1 DEF Sample
<1>2. CASE Copy
  BY <1>2 DEF Copy, Half
<1>3. CASE Done
  BY <1>3 DEF Done
<1>4. CASE UNCHANGED vars
  BY <1>4 DEF vars
<1>. QED BY <1>1, <1>2, <1>3, <1>4 DEF Next

-----------------------------------------------------------------------------
(***************************************************************************)
(* PRU0 takes a sample.                                                    *)
(***************************************************************************)
(* It stores it behind the others of its half, and the word that it spoils *)
(* is part of none.                                                        *)
LEMMA StoredAt ==
  ASSUME TypeOK, Layout
  PROVE  /\ offset \in Nat
         /\ \A ch \in Channels : Stored[offset + ch] = <<now, ch>>
         /\ \A w \in Words : w < offset \/ w > offset + 4 => Stored[w] = ram[w]
<1>1. /\ HalfWords \in Nat /\ 4 * Limit <= HalfWords /\ Limit \in Nat
      /\ filled \in Nat /\ filled < 2 * Limit
  BY SizeFacts DEF TypeOK, Layout
<1>2. Begun \in Nat /\ Begun < Limit
  BY <1>1 DEF Begun
<1>3. Base(Filling) \in {0, HalfWords}
  BY DEF Base
<1>4. offset \in Nat /\ offset + 3 <= 2 * HalfWords
  BY <1>1, <1>2, <1>3 DEF Layout
<1>5. \A ch \in Channels : offset + ch \in Words /\ offset + ch \in offset .. offset + 3
  BY <1>1, <1>4 DEF Words, Channels
<1>6. ASSUME NEW ch \in Channels PROVE Stored[offset + ch] = <<now, ch>>
  <2>1. (offset + ch) - offset = ch
    BY <1>4 DEF Channels
  <2>. QED BY <1>5, <2>1 DEF Stored
<1>7. ASSUME NEW w \in Words, w < offset \/ w > offset + 4
      PROVE  Stored[w] = ram[w]
  <2>1. w \notin offset .. offset + 3 /\ w # offset + 4
    BY <1>1, <1>4, <1>7 DEF Words
  <2>. QED BY <2>1 DEF Stored
<1>. QED BY <1>4, <1>6, <1>7

(* Samples elsewhere stay ...                                              *)
LEMMA Untouched ==
  ASSUME TypeOK, Layout, Sample,
         NEW w \in Nat, NEW n \in Nat, NEW first \in Nat, Holds(w, n, first),
         w + 4 * n <= 2 * HalfWords + 1,
         w + 4 * n <= offset \/ w > offset + 4
  PROVE  Holds(w, n, first)'
<1> SUFFICES ASSUME NEW i \in Nat, i < n, NEW ch \in Channels
             PROVE  ram'[w + 4 * i + ch] = <<first + i, ch>>
  BY DEF Holds
<1>1. ram[w + 4 * i + ch] = <<first + i, ch>>
  BY DEF Holds
<1>2. /\ w + 4 * i + ch \in Words
      /\ w + 4 * i + ch < offset \/ w + 4 * i + ch > offset + 4
  <2>1. ch \in Nat /\ ch <= 3 /\ HalfWords \in Nat /\ offset \in Nat
    BY SizeFacts DEF Channels, TypeOK
  <2>2. 4 * i + 4 <= 4 * n
    OBVIOUS
  <2>. QED BY <2>1, <2>2 DEF Words
<1>3. ram' = Stored
  BY DEF Sample
<1>. QED BY <1>1, <1>2, <1>3, StoredAt

(* ... and those of the half are one more.                                 *)
LEMMA Appended ==
  ASSUME TypeOK, Layout, Contents, Sample,
         NEW w \in Nat, NEW n \in Nat, NEW first \in Nat,
         w = Base(Filling), n = Begun, first = InHalves
  PROVE  Holds(w, n + 1, first)'
<1>1. /\ offset = w + 4 * n /\ now = first + n /\ Holds(w, n, first)
      /\ ram' = Stored
  BY DEF Layout, Contents, Sample
<1>2. n + 1 <= Limit /\ w <= HalfWords /\ 4 * Limit <= HalfWords
      /\ Limit \in Nat /\ HalfWords \in Nat
  BY SizeFacts DEF Layout, TypeOK, Begun, Base
<1>3. Holds(w, n, first)'
  <2>1. w + 4 * n <= 2 * HalfWords + 1
    BY <1>2
  <2>. QED BY <1>1, <2>1, Untouched
<1>. SUFFICES ASSUME NEW i \in Nat, i < n + 1, NEW ch \in Channels
              PROVE  ram'[w + 4 * i + ch] = <<first + i, ch>>
  BY DEF Holds
<1>4. CASE i < n
  BY <1>3, <1>4 DEF Holds
<1>5. CASE i = n
  BY <1>1, <1>5, StoredAt
<1>. QED BY <1>4, <1>5

LEMMA SampleStep ==
  ASSUME TypeOK, TypeOK', Layout, Contents, Pairs, Sample
  PROVE  Layout' /\ Contents' /\ Pairs'
<1>1. /\ UNCHANGED <<size, samples, iteration, start, copies, node>>
      /\ now' = now + 1 /\ marked' = marked \cup Full
      /\ Full # {} => marked = {}
      /\ offset' = CASE Full = {0} -> HalfWords
                     [] Full = {1} -> 0
                     [] OTHER -> offset + 4
      /\ filled' = IF Full = {1} THEN 0 ELSE filled + 1
  BY DEF Sample
<1>2. PerHalf' = PerHalf /\ Limit' = Limit
  BY <1>1 DEF PerHalf, Limit
<1>3. /\ Limit \in Nat /\ Limit >= 1 /\ HalfWords \in Nat
      /\ 4 * Limit <= HalfWords /\ filled \in Nat /\ filled < 2 * Limit
      /\ copies \in Nat
  BY SizeFacts DEF TypeOK, Layout
<1>4. \A h : Base(h)' = Base(h)
  BY DEF Base
<1>5. Begun \in Nat /\ Begun < Limit
  BY <1>3 DEF Begun
<1>6. /\ copies * Limit \in Nat /\ (copies + 1) * Limit = copies * Limit + Limit
  BY <1>3
<1>7. /\ InHalves \in Nat
      /\ InHalves = IF marked = {} THEN copies * Limit
                    ELSE copies * Limit + Limit
  BY <1>3, <1>6 DEF InHalves
<1>8. Base(Filling) \in Nat
  BY <1>3 DEF Base
<1>9. \A w, n, first \in Nat :
        w = Base(Filling) /\ n = Begun /\ first = InHalves
          => Holds(w, n + 1, first)'
  BY Appended
<1>10. CASE Begun + 1 < Limit
  <2>1. Full = {} /\ filled' = filled + 1 /\ offset' = offset + 4 /\ marked' = marked
    <3>1. filled + 1 # Limit /\ filled + 1 # 2 * Limit
      BY <1>3, <1>10 DEF Begun
    <3>2. Full = {}
      BY <3>1 DEF Full
    <3>. QED BY <1>1, <3>2
  <2>2. Filling' = Filling /\ Begun' = Begun + 1 /\ NextHalf' = NextHalf
    BY <1>2, <1>3, <1>10, <2>1 DEF Filling, Begun, NextHalf
  <2>3. InHalves' = InHalves
    BY <1>1, <1>2, <2>1 DEF InHalves
  <2>4. Layout'
    <3>1. filled' < 2 * Limit'
      BY <1>2, <1>3, <1>10, <2>1 DEF Begun
    <3>2. offset' = Base(Filling) + 4 * (Begun + 1)
      BY <1>5, <1>8, <2>1 DEF Layout
    <3>3. now' = InHalves + (Begun + 1)
      BY <1>1, <1>5, <1>7 DEF Layout
    <3>. QED BY <1>4, <2>1, <2>2, <2>3, <3>1, <3>2, <3>3 DEF Layout
  <2>5. Contents'
    <3>1. Holds(Base(Filling), Begun, InHalves)'
      BY <1>4, <1>5, <1>7, <1>8, <1>9, <2>2, <2>3
    <3>2. ASSUME marked # {}
          PROVE  Holds(Base(1 - Filling), Limit, copies * Limit)'
      <4>1. Base(1 - Filling) \in Nat /\ Holds(Base(1 - Filling), Limit, copies * Limit)
        BY <1>3, <3>2 DEF Contents, Base
      <4>2. /\ Base(1 - Filling) + 4 * Limit <= 2 * HalfWords + 1
            /\ \/ Base(1 - Filling) + 4 * Limit <= offset
               \/ Base(1 - Filling) > offset + 4
        BY <1>3, <1>5, <1>10 DEF Layout, Base, Filling
      <4>3. \A w, n, first \in Nat :
              w = Base(1 - Filling) /\ n = Limit /\ first = copies * Limit
                => Holds(w, n, first)'
        BY <4>1, <4>2, Untouched
      <4>. QED BY <1>1, <1>2, <1>3, <1>4, <1>6, <2>2, <4>1, <4>3
    <3>. QED BY <2>1, <3>1, <3>2 DEF Contents
  <2>6. Pairs'
    BY <1>1, <2>2 DEF Pairs
  <2>. QED BY <2>4, <2>5, <2>6
<1>11. CASE Begun + 1 = Limit
  <2>1. Full = {Filling} /\ marked = {} /\ marked' = {Filling}
    <3>1. Full = {Filling}
      BY <1>3, <1>11 DEF Begun, Filling, Full
    <3>. QED BY <1>1, <3>1
  <2>2. /\ Filling' = 1 - Filling /\ Begun' = 0 /\ filled' < 2 * Limit
        /\ offset' = Base(1 - Filling) /\ 1 - (1 - Filling) = Filling
    <3>1. CASE Filling = 0
      <4>1. Full = {0} /\ Full # {1}
        BY <2>1, <3>1
      <4>2. filled + 1 = Limit
        BY <1>3, <1>11, <3>1 DEF Begun, Filling
      <4>3. filled' = Limit /\ offset' = HalfWords
        BY <1>1, <4>1, <4>2
      <4>. QED BY <1>2, <1>3, <3>1, <4>3 DEF Begun, Filling, Base
    <3>2. CASE Filling = 1
      <4>1. filled' = 0 /\ offset' = 0
        BY <1>1, <2>1, <3>2
      <4>. QED BY <1>2, <1>3, <3>2, <4>1 DEF Begun, Filling, Base
    <3>. QED BY <3>1, <3>2 DEF Filling
  <2>3. NextHalf' = NextHalf
    BY <2>1, <2>2 DEF NextHalf
  <2>4. InHalves' = copies * Limit + Limit /\ InHalves = copies * Limit
    BY <1>1, <1>2, <1>6, <1>7, <2>1 DEF InHalves
  <2>5. Layout'
    <3>1. now' = InHalves' + 0
      <4>1. now = InHalves + Begun /\ now' = now + 1
        BY <1>1 DEF Layout
      <4>2. InHalves' = InHalves + Limit
        BY <2>4
      <4>. QED BY <1>3, <1>5, <1>7, <1>11, <4>1, <4>2
    <3>2. offset' = Base(1 - Filling) + 4 * 0
      BY <1>3, <2>2 DEF Base
    <3>. QED BY <1>2, <1>4, <2>1, <2>2, <3>1, <3>2 DEF Layout
  <2>6. Contents'
    <3>1. Holds(Base(Filling), Begun, InHalves)'
      BY <2>2 DEF Holds
    <3>2. Holds(Base(1 - Filling), Limit, copies * Limit)'
      BY <1>1, <1>2, <1>4, <1>5, <1>7, <1>8, <1>9, <1>11, <2>2, <2>4
    <3>. QED BY <3>1, <3>2 DEF Contents
  <2>7. Pairs'
    BY <1>1, <2>3 DEF Pairs
  <2>. QED BY <2>5, <2>6, <2>7
<1>. QED BY <1>3, <1>5, <1>10, <1>11

-----------------------------------------------------------------------------
(***************************************************************************)
(* The producer copies a half.                                             *)
(***************************************************************************)
LEMMA CopyStep ==
  ASSUME TypeOK, TypeOK', Layout, Contents, Pairs, Copy
  PROVE  Layout' /\ Contents' /\ Pairs' /\ PublishedIsSignal'
<1>1. /\ UNCHANGED <<size, samples, start, ram, offset, filled, now>>
      /\ iteration < samples \div size /\ marked # {}
      /\ marked' = marked \ {Half} /\ iteration' = iteration + Half
      /\ node' = Copied /\ copies' = copies + 1
  BY DEF Copy
<1>2. /\ PerHalf' = PerHalf /\ Limit' = Limit
      /\ Filling' = Filling /\ Begun' = Begun
  BY <1>1 DEF PerHalf, Limit, Filling, Begun
<1>3. /\ Limit \in Nat /\ PerHalf \in Nat /\ HalfWords \in Nat
      /\ copies \in Nat /\ iteration \in Nat /\ samples \div size \in Nat
  BY SizeFacts, SamplesFacts DEF TypeOK
<1>4. Filling \in {0, 1} /\ marked = {1 - Filling} /\ Half = 1 - Filling
  BY <1>1 DEF Layout, Filling, Half
<1>5. marked' = {} /\ Half \in {0, 1} /\ NextHalf = Half /\ NextHalf' = 1 - Half
  BY <1>1, <1>2, <1>4 DEF NextHalf
<1>6. InHalves' = InHalves
  BY <1>1, <1>2, <1>5 DEF InHalves
<1>7. \A h : Base(h)' = Base(h)
  BY DEF Base
<1>8. Layout'
  BY <1>1, <1>2, <1>5, <1>6, <1>7 DEF Layout
<1>9. Contents'
  BY <1>1, <1>2, <1>5, <1>6, <1>7 DEF Contents, Holds
<1>10. Pairs'
  <2>1. copies' = 2 * iteration' + NextHalf' /\ iteration' <= samples \div size
    BY <1>1, <1>3, <1>5 DEF Pairs
  <2>2. iteration' = samples \div size => NextHalf' = 0
    BY <1>1, <1>3, <1>5
  <2>3. iteration' \in Nat
    BY <1>1, <1>3, <1>5
  <2>4. start
    BY DEF Copy
  <2>. QED BY <1>1, <1>3, <2>1, <2>2, <2>3, <2>4 DEF Pairs
<1>11. PublishedIsSignal'
  <2> SUFFICES ASSUME NEW i \in DOMAIN node', NEW ch \in Channels, i < Limit
               PROVE  node'[i][ch] = <<copies * Limit + i, ch>>
    <3>1. (copies' - 1) * Limit' = copies * Limit
      BY <1>1, <1>2, <1>3
    <3>. QED BY <1>2, <3>1 DEF PublishedIsSignal
  <2>1. i \in 0 .. PerHalf - 1 /\ i \in Nat
    BY <1>1, <1>3 DEF Copied
  <2>2. node'[i][ch] = ram[Half * HalfWords + 4 * i + ch]
    BY <1>1, <2>1 DEF Copied
  <2>3. Half * HalfWords = Base(1 - Filling)
    BY <1>3, <1>4, <1>5 DEF Base
  <2>4. Holds(Base(1 - Filling), Limit, copies * Limit)
    BY <1>1 DEF Contents
  <2>. QED BY <2>1, <2>2, <2>3, <2>4 DEF Holds
<1>. QED BY <1>8, <1>9, <1>10, <1>11

-----------------------------------------------------------------------------
LEMMA InvStep ==
  ASSUME BufferInv, [Next]_vars
  PROVE  BufferInv'
<1>1. TypeOK /\ Layout /\ Contents /\ Pairs /\ PublishedIsSignal /\ TypeOK'
  BY TypeStep DEF BufferInv
<1>2. CASE Sample
  <2>1. PublishedIsSignal'
    <3>1. UNCHANGED <<node, copies, Limit>>
      BY <1>2 DEF Sample, Limit, PerHalf
    <3>. QED BY <1>1, <3>1 DEF PublishedIsSignal
  <2>. QED BY <1>1, <1>2, <2>1, SampleStep DEF BufferInv
<1>3. CASE Copy
  BY <1>1, <1>3, CopyStep DEF BufferInv
<1>4. CASE Done \/ UNCHANGED vars
  <2>1. UNCHANGED <<size, samples, iteration, marked, ram, offset, filled, now,
                    copies, node>>
    BY <1>4 DEF Done, vars
  <2>2. /\ UNCHANGED <<PerHalf, Limit, Filling, Begun, NextHalf, InHalves>>
        /\ \A h : Base(h)' = Base(h)
    BY <2>1 DEF PerHalf, Limit, Filling, Begun, NextHalf, InHalves, Base
  <2>3. Layout' /\ Contents' /\ PublishedIsSignal'
    BY <1>1, <2>1, <2>2 DEF Layout, Contents, Holds, PublishedIsSignal
  <2>4. ~start' => iteration = samples \div size
    <3>1. iteration \in Nat /\ samples \div size \in Nat
      BY <1>1, SamplesFacts DEF TypeOK
    <3>. QED BY <1>1, <1>4, <3>1 DEF Done, vars, Pairs
  <2>5. Pairs'
    BY <1>1, <2>1, <2>2, <2>4 DEF Pairs
  <2>. QED BY <1>1, <2>3, <2>5 DEF BufferInv
<1>. QED BY <1>2, <1>3, <1>4 DEF Next

LEMMA Invariant == Spec => []BufferInv
<1>. QED BY InitInv, InvStep, PTL DEF Spec

(* What the producer publishes of a half is the next stretch of the        *)
(* signal, each sample under its channel, as far as PRU0 fills the half:   *)
(* the two count samples and words alike for every accepted size.          *)
THEOREM BatchesAreSignal == Spec => []PublishedIsSignal
<1>1. BufferInv => PublishedIsSignal
  BY DEF BufferInv
<1>. QED BY <1>1, Invariant, PTL

(* What PRU0's rounding of half the size takes away.                       *)
LEMMA Rounding ==
  ASSUME NEW s \in Nat, s % 4 = 0
  PROVE  /\ s % 8 = 0 => (s \div 2) % 4 = 0
         /\ s % 8 # 0 => (s \div 2) % 4 = 2
OBVIOUS

(* A finished acquisition has published as many samples a channel as the   *)
(* message asked for, less 4 for every buffer_size of them when half the   *)
(* size is no multiple of 4: no size that the validator accepts loses more *)
(* than PRU0's rounding does.                                              *)
THEOREM CountIsPublished == Spec => []SamplesPublished
<1>1. ASSUME BufferInv PROVE SamplesPublished
  <2>1. SUFFICES ASSUME ~start PROVE copies * Limit + Missing = samples
    BY DEF SamplesPublished
  <2>2. /\ PerHalf \in Nat /\ size = 2 * PerHalf /\ size \in Nat /\ size % 4 = 0
        /\ samples \div size \in Nat /\ samples = size * (samples \div size)
    BY <1>1, SizeFacts, SamplesFacts DEF BufferInv, TypeOK, Accepted
  <2>3. copies = 2 * (samples \div size)
    BY <1>1, <2>1 DEF BufferInv, Pairs
  <2>4. \A n, p \in Nat : (2 * n) * p = (2 * p) * n
    OBVIOUS
  <2>5. CASE size % 8 = 0
    <3>1. Limit = PerHalf /\ Missing = 0
      BY <2>2, <2>5, Rounding DEF Limit, PerHalf, Missing
    <3>2. copies * Limit = (2 * (samples \div size)) * PerHalf
      BY <2>3, <3>1
    <3>3. (2 * (samples \div size)) * PerHalf = (2 * PerHalf) * (samples \div size)
      BY <2>2, <2>4
    <3>. QED BY <2>2, <3>1, <3>2, <3>3
  <2>6. CASE size % 8 # 0
    <3>1. Limit = PerHalf - 2 /\ Missing = 4 * (samples \div size)
      BY <2>2, <2>6, Rounding DEF Limit, PerHalf, Missing
    <3>2. \A n, p \in Nat : (2 * n) * (p - 2) + 4 * n = (2 * p) * n
      OBVIOUS
    <3>3. copies * Limit = (2 * (samples \div size)) * (PerHalf - 2)
      BY <2>3, <3>1
    <3>. QED BY <2>2, <3>1, <3>2, <3>3
  <2>. QED BY <2>5, <2>6
<1>. QED BY <1>1, Invariant, PTL

-----------------------------------------------------------------------------
(***************************************************************************)
(* What PRU0 leaves alone.                                                 *)
(***************************************************************************)
(* The words of half h that the producer copies samples from.              *)
Stretch(h) == Base(h) .. Base(h) + 4 * Limit - 1

LEMMA MarkedStep ==
  ASSUME TypeOK, Layout, [Next]_vars,
         NEW h \in marked, NEW w \in Stretch(h)
  PROVE  ram'[w] = ram[w]
<1>1. CASE Sample
  <2>1. /\ h = 1 - Filling /\ Full = {} /\ ram' = Stored
    BY <1>1 DEF Layout, Sample
  <2>2. /\ HalfWords \in Nat /\ 4 * Limit <= HalfWords /\ Limit \in Nat
        /\ filled \in Nat /\ filled < 2 * Limit
    BY SizeFacts DEF TypeOK, Layout
  <2>3. filled + 1 # Limit
    BY <2>1 DEF Full
  <2>4. w \in Words /\ (w < offset \/ w > offset + 4)
    <3>1. CASE filled < Limit
      <4>1. /\ offset = 4 * filled
            /\ w \in HalfWords .. HalfWords + 4 * Limit - 1
        <5>1. Filling = 0 /\ Begun = filled /\ h = 1
          BY <2>1, <3>1 DEF Filling, Begun
        <5>. QED BY <2>2, <5>1 DEF Layout, Base, Stretch
      <4>2. filled + 2 <= Limit
        BY <2>2, <2>3, <3>1
      <4>. QED BY <2>2, <4>1, <4>2 DEF Words
    <3>2. CASE ~(filled < Limit)
      <4>1. /\ offset = HalfWords + 4 * (filled - Limit)
            /\ w \in 0 .. 4 * Limit - 1
        <5>1. Filling = 1 /\ Begun = filled - Limit /\ h = 0
          BY <2>1, <3>2 DEF Filling, Begun
        <5>. QED BY <2>2, <5>1 DEF Layout, Base, Stretch
      <4>. QED BY <2>2, <3>2, <4>1 DEF Words
    <3>. QED BY <3>1, <3>2
  <2>. QED BY <2>1, <2>4, StoredAt
<1>2. CASE ~Sample
  BY <1>2 DEF Next, Copy, Done, vars
<1>. QED BY <1>1, <1>2

(* PRU0 changes no sample of a half that waits for its copy, although the  *)
(* entry it stores is wider than a sample and may spill into the other     *)
(* half: that happens only when it makes a half full, which it does not do *)
(* while one waits.                                                        *)
THEOREM MarkedIsKept ==
  Spec => [][\A h \in marked : \A w \in Stretch(h) : ram'[w] = ram[w]]_vars
<1>1. BufferInv /\ [Next]_vars
        => [\A h \in marked : \A w \in Stretch(h) : ram'[w] = ram[w]]_vars
  BY MarkedStep DEF BufferInv
<1>. QED BY <1>1, Invariant, PTL DEF Spec

(* Nor does it ever write beyond the word that follows RAM0.               *)
THEOREM WritesStayInside == Spec => [](offset .. offset + 4 \subseteq Words)
<1>1. ASSUME BufferInv PROVE offset .. offset + 4 \subseteq Words
  <2>1. /\ HalfWords \in Nat /\ 4 * Limit <= HalfWords /\ Limit \in Nat
        /\ filled \in Nat /\ filled < 2 * Limit /\ offset \in Nat
    BY <1>1, SizeFacts DEF BufferInv, TypeOK, Layout
  <2>2. offset + 4 <= 2 * HalfWords
    BY <1>1, <2>1 DEF BufferInv, Layout, Begun, Base, Filling
  <2>. QED BY <2>1, <2>2 DEF Words
<1>. QED BY <1>1, Invariant, PTL

(* The sizes of an acquisition stay those that were accepted.              *)
THEOREM TypeCorrect == Spec => []TypeOK
BY Invariant, PTL DEF BufferInv
=============================================================================
