----------------------------- MODULE TrackProofs ----------------------------
(***************************************************************************)
(* Proofs about TrackSamples, for every number of slots and every drive.   *)
(*                                                                         *)
(* LooksInv says at each place of a turn which of the slots passed between *)
(* two looks of a lap have their samples already.  AgeInv ties what is in  *)
(* the buffers to the lap: no copy is a lap old, so neither is what is     *)
(* stored after the lap was read.                                          *)
(***************************************************************************)
EXTENDS TrackSamples, TLAPS

(* Every slot passed between two looks of one lap has a sample, but for    *)
(* those at the places in "owed", which this turn still has to see to.     *)
SampledBut(owed) ==
  \A l, m \in looks :
    LapOf(l) = LapOf(m) => \A d \in l + 1 .. m : Sampled(d) \/ PlaceOf(d) \in owed

(* What the turn still owes, and where its looks were.                     *)
Owed ==
  CASE rpc = "store" -> {s \in Slots : lastpos < s /\ s <= pos}
    [] rpc = "fill"  -> {s \in Slots : lastpos <= s /\ s < pos}
    [] OTHER         -> {}

LooksInv ==
  /\ SampledBut(Owed)
  /\ look <= sim["playerspline"]
  /\ \A l \in looks : l <= look
  /\ looks # {} => look \in looks
  /\ rpc = "pos" /\ looks # {} => lastpos = PlaceOf(look)
  /\ rpc \in {"store", "fill", "lap"} => pos = PlaceOf(look) /\ looks # {}
  /\ rpc = "fill" => lastpos < pos

(* No copy is ahead of the car, or a lap behind it.                        *)
CopyInv == \A f \in Fields : sim[f] <= car /\ car < sim[f] + Samples

(* The lap that was read has begun, and no sample is a lap older.          *)
AgeInv ==
  /\ Samples * lastlap <= car
  /\ \A s \in Slots : buffer[s] # Empty => Samples * lastlap < buffer[s] + Samples

SamplesInv == TypeOK /\ CopyInv /\ LooksInv /\ AgeInv

(* A distance falls into one slot of one lap.                              *)
LEMMA PlaceFacts ==
  ASSUME NEW d \in Nat
  PROVE  /\ PlaceOf(d) \in Slots
         /\ LapOf(d) \in Nat
         /\ Samples * LapOf(d) <= d
         /\ d < Samples * LapOf(d) + Samples
  BY SamplesAssumption, SMTT(30) DEF PlaceOf, LapOf, Slots

(* A distance past the k-th line is in lap k or a later one.               *)
LEMMA LapAtLeast ==
  ASSUME NEW d \in Nat, NEW k \in Nat, Samples * k < d + Samples
  PROVE  LapOf(d) >= k - 1
<1>1. Samples * k < Samples * LapOf(d) + Samples + Samples
  BY PlaceFacts, SamplesAssumption, SMT
<1> DEFINE q == LapOf(d) + 2
<1>2. Samples * k < Samples * q
  BY <1>1, PlaceFacts, SamplesAssumption, SMT
<1>3. k < q
  <2>1. q \in Nat /\ Samples \in Nat
    BY PlaceFacts, SamplesAssumption, SMT
  <2> HIDE DEF q
  <2>2. QED
    BY <1>2, <2>1, SMTT(30)
<1>4. QED
  BY <1>3, PlaceFacts, SMT

(* A later distance is in no earlier lap.                                  *)
LEMMA LapMono ==
  ASSUME NEW d \in Nat, NEW m \in Nat, d <= m
  PROVE  LapOf(d) <= LapOf(m)
<1> DEFINE j == LapOf(d)
           k == LapOf(m) + 1
<1>1. j \in Nat /\ k \in Nat /\ Samples \in Nat
  BY PlaceFacts, SamplesAssumption, SMT
<1>2. Samples * j < Samples * k
  BY PlaceFacts, SamplesAssumption, SMT
<1> HIDE DEF j, k
<1>3. j < k
  BY <1>1, <1>2, SMTT(30)
<1>4. QED
  BY <1>1, <1>3, PlaceFacts, SMT DEF j, k

(* In one lap the places come in the order of the distances.               *)
LEMMA PlacesInOrder ==
  ASSUME NEW l \in Nat, NEW d \in Nat, NEW m \in Nat,
         l < d, d <= m, LapOf(l) = LapOf(m)
  PROVE  PlaceOf(l) < PlaceOf(d) /\ PlaceOf(d) <= PlaceOf(m)
<1>1. LapOf(d) = LapOf(l) /\ LapOf(d) = LapOf(m)
  BY LapMono, PlaceFacts, SMT
<1>2. \A x \in Nat : x = Samples * LapOf(x) + PlaceOf(x) /\ PlaceOf(x) \in Nat
  BY SamplesAssumption, SMTT(30) DEF PlaceOf, LapOf
<1> DEFINE line == Samples * LapOf(l)
<1>3. l = line + PlaceOf(l) /\ d = line + PlaceOf(d) /\ m = line + PlaceOf(m)
  BY <1>1, <1>2, Zenon
<1>4. line \in Nat
  BY PlaceFacts, SamplesAssumption, SMT
<1> HIDE DEF line
<1>5. QED
  BY <1>2, <1>3, <1>4, SMT

(* The fields that are copied.                                             *)
LEMMA FieldFacts ==
  Fields # {} /\ "playerspline" \in Fields /\ "lap" \in Fields /\ "channel" \in Fields
  BY DEF Fields

(* The same of what the recorder reads.                                    *)
LEMMA ReadFacts ==
  ASSUME TypeOK
  PROVE  PlaceOf(sim["playerspline"]) \in Slots /\ LapOf(sim["lap"]) \in Nat
<1>1. sim["playerspline"] \in Nat /\ sim["lap"] \in Nat
  BY SMT DEF TypeOK, Fields
<1>2. QED
  BY <1>1, PlaceFacts, Zenon

(* The lap that is read has begun.                                         *)
LEMMA LapBegun ==
  ASSUME TypeOK
  PROVE  Samples * LapOf(sim["lap"]) <= sim["lap"]
<1>1. sim["lap"] \in Nat
  BY SMT DEF TypeOK, Fields
<1>2. QED
  BY <1>1, PlaceFacts, Zenon

-----------------------------------------------------------------------------
(* The inductive invariant.                                                *)

(* The recorder starts with empty buffers and copies that are up to date.  *)
LEMMA InvInit == Init => SamplesInv
<1> SUFFICES ASSUME Init PROVE SamplesInv
  OBVIOUS
<1> USE SamplesAssumption DEF Init, Slots, Blank, Empty
<1>1. TypeOK
  BY FieldFacts, SMT DEF TypeOK
<1>2. CopyInv
  BY SMT DEF CopyInv
<1>3. LooksInv
  BY FieldFacts, SMT DEF LooksInv, SampledBut
<1>4. AgeInv
  BY SMT DEF AgeInv
<1>5. QED
  BY <1>1, <1>2, <1>3, <1>4 DEF SamplesInv

(* Every step keeps the types.                                             *)
LEMMA TypeStep == ASSUME TypeOK, LooksInv, [Next]_vars PROVE TypeOK'
<1> USE SamplesAssumption DEF vars, carVars, Slots, TypeOK, Empty
<1>1. CASE Drive
  BY <1>1, FieldFacts, SMT DEF Drive
<1>2. CASE Copy
  <2>1. PICK f \in uncopied : Copy!(f)
    BY <1>2 DEF Copy
  <2>2. uncopied' \subseteq Fields /\ uncopied' # {}
    BY <2>1, FieldFacts, SMT
  <2>3. sim' \in [Fields -> Nat]
    BY <2>1, SMT
  <2>4. QED
    BY <1>2, <2>2, <2>3, FieldFacts, SMT DEF Copy
<1>3. CASE ReadPos
  <2>1. sim["playerspline"] \in Nat
    BY FieldFacts, SMT
  <2>2. look' \in Nat /\ looks' \subseteq Nat
    <3>1. look' = sim["playerspline"] /\ looks' = looks \cup {look'}
      BY <1>3, Zenon DEF ReadPos
    <3>2. looks \subseteq Nat
      BY Zenon
    <3>3. QED
      BY <2>1, <3>1, <3>2, Zenon
  <2>3. QED
    BY <1>3, <2>2, ReadFacts, FieldFacts, SMT DEF ReadPos
<1>4. CASE StoreSample
  BY <1>4, FieldFacts, SMT DEF StoreSample, StoreIfGap
<1>5. CASE FillSlot
  BY <1>5, FieldFacts, SMT DEF FillSlot, FillUpTo, LooksInv
<1>6. CASE ReadLap
  BY <1>6, ReadFacts, FieldFacts, SMT DEF ReadLap, EndTurn, Blank, Empty
<1>7. CASE Stop
  BY <1>7, FieldFacts, SMT DEF Stop
<1>8. CASE UNCHANGED vars
  BY <1>8, FieldFacts, SMT
<1>9. QED
  BY <1>1, <1>2, <1>3, <1>4, <1>5, <1>6, <1>7, <1>8 DEF Next, Stopped

(* The car waits for the copies, and a copy is of where the car is.        *)
LEMMA CopyStep == ASSUME TypeOK, CopyInv, [Next]_vars PROVE CopyInv'
<1> USE SamplesAssumption DEF vars, carVars, Slots, TypeOK, CopyInv
<1>1. CASE Drive
  BY <1>1, FieldFacts, SMT DEF Drive
<1>2. CASE Copy
  BY <1>2, FieldFacts, SMT DEF Copy
<1>3. CASE ReadPos
  BY <1>3, ReadFacts, FieldFacts, SMT DEF ReadPos
<1>4. CASE StoreSample
  BY <1>4, FieldFacts, SMT DEF StoreSample, StoreIfGap
<1>5. CASE FillSlot
  BY <1>5, FieldFacts, SMT DEF FillSlot, FillUpTo
<1>6. CASE ReadLap
  BY <1>6, ReadFacts, FieldFacts, SMT DEF ReadLap, EndTurn, Blank, Empty
<1>7. CASE Stop
  BY <1>7, FieldFacts, SMT DEF Stop
<1>8. CASE UNCHANGED vars
  BY <1>8, FieldFacts, SMT
<1>9. QED
  BY <1>1, <1>2, <1>3, <1>4, <1>5, <1>6, <1>7, <1>8 DEF Next, Stopped

(* What a turn stores in a slot is recent enough for all that was passed.  *)
LEMMA Stored ==
  ASSUME TypeOK, CopyInv, look <= sim["playerspline"], NEW slot \in Slots,
         buffer' = [buffer EXCEPT ![slot] = sim["channel"]],
         NEW d \in Nat, d <= look, Sampled(d) \/ PlaceOf(d) = slot
  PROVE  Sampled(d)'
<1>1. /\ sim["channel"] \in Nat /\ sim["playerspline"] \in Nat
      /\ car < sim["channel"] + Samples /\ sim["playerspline"] <= car
  BY FieldFacts, SMT DEF TypeOK, CopyInv
<1>2. d < sim["channel"] + Samples
  BY <1>1, SamplesAssumption, SMT DEF TypeOK
<1>3. PlaceOf(d) \in Slots
  BY PlaceFacts
<1>4. CASE PlaceOf(d) = slot
  BY <1>1, <1>2, <1>3, <1>4, SMT DEF TypeOK, Sampled, Empty
<1>5. CASE PlaceOf(d) # slot
  BY <1>3, <1>5, SMT DEF TypeOK, Sampled
<1>6. QED
  BY <1>4, <1>5

(* So it takes the slot from what the turn owes.                           *)
LEMMA Paid ==
  ASSUME TypeOK, CopyInv, LooksInv, NEW slot \in Slots, looks' = looks,
         buffer' = [buffer EXCEPT ![slot] = sim["channel"]],
         Owed \subseteq Owed' \cup {slot}
  PROVE  SampledBut(Owed)'
<1> SUFFICES ASSUME NEW l \in looks, NEW m \in looks, LapOf(l) = LapOf(m),
                    NEW d \in l + 1 .. m, PlaceOf(d) \notin Owed'
             PROVE  Sampled(d)'
  BY Zenon DEF SampledBut
<1>1. d \in Nat /\ d <= look
  BY SMT DEF TypeOK, LooksInv
<1>2. Sampled(d) \/ PlaceOf(d) \in Owed
  BY Zenon DEF LooksInv, SampledBut
<1>3. QED
  BY <1>1, <1>2, Stored DEF LooksInv

(* A look adds the slots passed since the last one, if that is in the lap. *)
LEMMA Looked ==
  ASSUME TypeOK, CopyInv, LooksInv, ReadPos
  PROVE  SampledBut(Owed)'
<1>1. /\ rpc = "pos" /\ rpc' = "store" /\ buffer' = buffer /\ lastpos' = lastpos
      /\ look' = sim["playerspline"] /\ looks' = looks \cup {look'}
      /\ pos' = PlaceOf(look')
  BY Zenon DEF ReadPos
<1>2. look \in Nat /\ look' \in Nat /\ looks \subseteq Nat /\ look <= look'
  BY <1>1, FieldFacts, SMT DEF TypeOK, LooksInv
<1>3. Owed' = {s \in Slots : lastpos < s /\ s <= pos'}
  BY <1>1, SMT DEF Owed
<1>4. \A l, m \in looks : LapOf(l) = LapOf(m) => \A d \in l + 1 .. m : Sampled(d)
  BY <1>1, SMT DEF LooksInv, SampledBut, Owed
<1>5. SUFFICES ASSUME NEW l \in looks', NEW m \in looks', LapOf(l) = LapOf(m),
                      NEW d \in l + 1 .. m
               PROVE  Sampled(d) \/ PlaceOf(d) \in Owed'
  BY <1>1, Zenon DEF SampledBut, Sampled
<1>6. l \in Nat /\ m \in Nat /\ l <= look' /\ m <= look' /\ d \in Nat /\ l < d /\ d <= m
  BY <1>1, <1>2, SMT DEF LooksInv
<1>7. CASE m \in looks
  <2>1. m <= look
    BY <1>7 DEF LooksInv
  <2>2. CASE l \in looks
    BY <1>4, <1>5, <1>7, <2>2, Zenon
  <2>3. CASE l \notin looks
    BY <1>1, <1>2, <1>6, <2>1, <2>3, SMT
  <2>4. QED
    BY <2>2, <2>3
<1>8. CASE m \notin looks
  <2>1. m = look' /\ l # look'
    BY <1>1, <1>6, <1>8, SMT
  <2>2. l \in looks /\ l <= look /\ look \in looks /\ lastpos = PlaceOf(look)
    BY <1>1, <2>1, Zenon DEF LooksInv
  <2>3. LapOf(l) = LapOf(look) /\ LapOf(look) = LapOf(look')
    BY <1>2, <1>5, <1>6, <2>1, <2>2, LapMono, PlaceFacts, SMT
  <2>4. CASE d <= look
    <3>1. d \in l + 1 .. look
      BY <1>2, <1>6, <2>4, SMT
    <3>2. QED
      BY <1>4, <2>2, <2>3, <3>1, Zenon
  <2>5. CASE ~(d <= look)
    <3>1. PlaceOf(look) < PlaceOf(d) /\ PlaceOf(d) <= PlaceOf(look')
      BY <1>2, <1>6, <2>1, <2>3, <2>5, PlacesInOrder, SMT
    <3>2. PlaceOf(d) \in Slots
      BY <1>6, PlaceFacts
    <3>3. QED
      BY <1>1, <1>3, <2>2, <3>1, <3>2, Zenon
  <2>6. QED
    BY <2>4, <2>5
<1>9. QED
  BY <1>7, <1>8

(* A turn samples what it owes slot by slot.                               *)
LEMMA LooksStep == ASSUME TypeOK, CopyInv, LooksInv, [Next]_vars PROVE LooksInv'
<1> USE SamplesAssumption DEF vars, carVars
<1>1. CASE Drive
  BY <1>1, SMT DEF Drive, LooksInv, SampledBut, Sampled, Owed
<1>2. CASE Copy
  <2>1. sim'["playerspline"] \in Nat /\ sim'["playerspline"] >= sim["playerspline"]
    BY <1>2, FieldFacts, SMT DEF Copy, TypeOK, CopyInv
  <2>2. UNCHANGED <<rpc, pos, lastpos, buffer, look, looks>>
    BY <1>2 DEF Copy
  <2>3. look <= sim'["playerspline"]
    BY <2>1, FieldFacts, SMT DEF LooksInv, TypeOK
  <2>4. QED
    BY <2>2, <2>3, Zenon DEF LooksInv, SampledBut, Sampled, Owed
<1>3. CASE ReadPos
  <2>1. SampledBut(Owed)'
    BY <1>3, Looked
  <2>2. \A l \in looks' : l <= look'
    BY <1>3, FieldFacts, SMT DEF ReadPos, LooksInv, TypeOK
  <2>3. look' <= sim'["playerspline"]
    BY <1>3, FieldFacts, SMT DEF ReadPos, TypeOK
  <2>4. /\ rpc' = "store" /\ look' \in looks' /\ pos' = PlaceOf(look')
    BY <1>3, Zenon DEF ReadPos
  <2>5. QED
    BY <2>1, <2>2, <2>3, <2>4 DEF LooksInv
<1>4. CASE StoreSample
  <2>1. /\ rpc = "store" /\ UNCHANGED <<sim, pos, lastpos, look, looks>>
        /\ buffer' = [buffer EXCEPT ![pos] = sim["channel"]]
        /\ rpc' = IF lastpos < pos - 1 THEN "fill" ELSE "lap"
    BY <1>4, Zenon DEF StoreSample, StoreIfGap
  <2>2. pos \in Slots /\ lastpos \in Slots /\ Slots \subseteq Int
    BY SMT DEF TypeOK, Slots
  <2>3. Owed \subseteq Owed' \cup {pos}
    BY <2>1, <2>2, SMT DEF Owed
  <2>4. SampledBut(Owed)'
    BY <2>1, <2>2, <2>3, Paid
  <2>5. rpc' \in {"fill", "lap"} /\ (rpc' = "fill" => lastpos < pos)
    BY <2>1, <2>2, SMT
  <2>6. QED
    BY <2>1, <2>4, <2>5, Zenon DEF LooksInv
<1>5. CASE FillSlot
  <2>1. /\ rpc = "fill" /\ UNCHANGED <<sim, pos, look, looks>>
        /\ buffer' = [buffer EXCEPT ![lastpos] = sim["channel"]]
        /\ lastpos' = lastpos + 1
        /\ rpc' = IF lastpos' < pos THEN "fill" ELSE "lap"
    BY <1>5, Zenon DEF FillSlot, FillUpTo
  <2>2. pos \in Slots /\ lastpos \in Slots /\ Slots \subseteq Int
    BY SMT DEF TypeOK, Slots
  <2>3. Owed \subseteq Owed' \cup {lastpos}
    BY <2>1, <2>2, SMT DEF Owed
  <2>4. SampledBut(Owed)'
    BY <2>1, <2>2, <2>3, Paid
  <2>5. rpc' \in {"fill", "lap"} /\ (rpc' = "fill" => lastpos' < pos)
    BY <2>1, <2>2, SMT
  <2>6. QED
    BY <2>1, <2>4, <2>5, Zenon DEF LooksInv
<1>6. CASE ReadLap
  <2>1. /\ rpc = "lap" /\ rpc' = "pos" /\ UNCHANGED <<sim, pos, look>> /\ lastpos' = pos
    BY <1>6, Zenon DEF ReadLap, EndTurn
  <2>2. \/ looks' = looks /\ buffer' = buffer
        \/ looks' = {look}
    BY <1>6, Zenon DEF ReadLap, EndTurn
  <2>3. Owed = {} /\ Owed' = {}
    BY <2>1, SMT DEF Owed
  <2>4. SampledBut(Owed)'
    <3>1. CASE looks' = {look}
      <4>1. look \in Nat
        BY DEF TypeOK
      <4>2. \A l, m \in looks' : l + 1 .. m = {}
        BY <3>1, <4>1, SMT
      <4>3. QED
        BY <4>2, Zenon DEF SampledBut
    <3>2. CASE looks' = looks /\ buffer' = buffer
      BY <2>3, <3>2, Zenon DEF LooksInv, SampledBut, Sampled
    <3>3. QED
      BY <2>2, <3>1, <3>2
  <2>5. look \in Nat /\ (\A l \in looks' : l <= look) /\ look \in looks'
    <3>1. look \in Nat /\ (\A l \in looks : l <= look) /\ look \in looks
      BY <2>1, Zenon DEF LooksInv, TypeOK
    <3>2. look <= look
      BY <3>1, SMT
    <3>3. QED
      BY <2>2, <3>1, <3>2, Zenon
  <2>6. QED
    BY <2>1, <2>4, <2>5, Zenon DEF LooksInv
<1>7. CASE Stop
  BY <1>7, SMT DEF Stop, LooksInv, SampledBut, Sampled, Owed
<1>8. CASE UNCHANGED vars
  BY <1>8, SMT DEF LooksInv, SampledBut, Sampled, Owed
<1>9. QED
  BY <1>1, <1>2, <1>3, <1>4, <1>5, <1>6, <1>7, <1>8 DEF Next, Stopped

(* What is stored is no lap older than the car, which has begun the lap.   *)
LEMMA AgeStep == ASSUME TypeOK, CopyInv, AgeInv, [Next]_vars PROVE AgeInv'
<1> USE SamplesAssumption DEF vars, carVars, Slots, TypeOK, CopyInv, AgeInv, Empty
<1>1. CASE Drive
  BY <1>1, FieldFacts, SMT DEF Drive
<1>2. CASE Copy
  BY <1>2, FieldFacts, SMT DEF Copy
<1>3. CASE ReadPos
  BY <1>3, ReadFacts, FieldFacts, SMT DEF ReadPos
<1>4. CASE StoreSample
  BY <1>4, FieldFacts, SMT DEF StoreSample, StoreIfGap
<1>5. CASE FillSlot
  BY <1>5, FieldFacts, SMT DEF FillSlot, FillUpTo
<1>6. CASE ReadLap
  <2>1. Samples * lastlap' <= car /\ car' = car
    <3>1. lastlap' = LapOf(sim["lap"]) /\ car' = car
      BY <1>6, Zenon DEF ReadLap, EndTurn
    <3>2. Samples * LapOf(sim["lap"]) <= sim["lap"] /\ LapOf(sim["lap"]) \in Nat
      BY ReadFacts, LapBegun, Zenon
    <3>3. sim["lap"] <= car /\ sim["lap"] \in Nat /\ car \in Nat
      BY FieldFacts, SMT
    <3> DEFINE start == Samples * LapOf(sim["lap"])
    <3>4. start \in Nat /\ start <= sim["lap"]
      BY <3>2, SMT
    <3> HIDE DEF start
    <3>5. start <= car
      BY <3>3, <3>4, SMT
    <3>6. QED
      BY <3>1, <3>5, Zenon DEF start
  <2>2. CASE lastlap' = lastlap
    BY <1>6, <2>1, <2>2, SMT DEF ReadLap, EndTurn
  <2>3. CASE lastlap' # lastlap
    BY <1>6, <2>1, <2>3, SMT DEF ReadLap, EndTurn, Blank
  <2>4. QED
    BY <2>2, <2>3
<1>7. CASE Stop
  BY <1>7, FieldFacts, SMT DEF Stop
<1>8. CASE UNCHANGED vars
  BY <1>8, FieldFacts, SMT
<1>9. QED
  BY <1>1, <1>2, <1>3, <1>4, <1>5, <1>6, <1>7, <1>8 DEF Next, Stopped

(* SamplesInv holds in every reachable state.                              *)
LEMMA InvCorrect == Spec => []SamplesInv
<1>1. SamplesInv /\ [Next]_vars => SamplesInv'
  BY TypeStep, CopyStep, LooksStep, AgeStep DEF SamplesInv
<1>2. QED
  BY <1>1, InvInit, PTL DEF Spec

-----------------------------------------------------------------------------
(* What follows from it.                                                   *)

(* gameloop.c:905-929: pos and lastpos stay inside the buffers as long as  *)
(* the car's place is less than a whole lap, and all else has its type.    *)
THEOREM TypeCorrect == Spec => []TypeOK
<1>1. SamplesInv => TypeOK
  BY DEF SamplesInv
<1>2. QED
  BY <1>1, InvCorrect, PTL

(* gameloop.c:905-929: between two looks at the car in one lap no slot it  *)
(* passes is left without a sample of that lap, or less than a lap old.    *)
THEOREM PassedCorrect == Spec => []PassedSlotsSampled
<1>1. SamplesInv => PassedSlotsSampled
  <2> SUFFICES ASSUME SamplesInv, rpc \in {"pos", "lap", "stopped"},
                      NEW l \in looks, NEW m \in looks, LapOf(l) = LapOf(m),
                      NEW d \in l + 1 .. m
               PROVE  Sampled(d)
    BY Zenon DEF PassedSlotsSampled
  <2>1. Owed = {}
    BY SMT DEF Owed
  <2>2. QED
    BY <2>1, Zenon DEF SamplesInv, LooksInv, SampledBut
<1>2. QED
  BY <1>1, InvCorrect, PTL

(* gameloop.c:995-1000: with new buffers for each lap, nothing older than  *)
(* the lap before it is left in them.                                      *)
THEOREM OldSamplesCorrect == Spec => []OldSamplesGone
<1>1. SamplesInv => OldSamplesGone
  BY LapAtLeast, SMT DEF SamplesInv, TypeOK, AgeInv, OldSamplesGone, Empty
<1>2. QED
  BY <1>1, InvCorrect, PTL
=============================================================================
