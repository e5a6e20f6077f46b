----------------------------- MODULE DumpProofs -----------------------------
(***************************************************************************)
(* Proofs about TelemetryDump: laps of any number of points, of any kinds, *)
(* stored while the dump runs, and any number of failing calls.            *)
(***************************************************************************)
EXTENDS TelemetryDump, FiniteSetTheorems, SequenceTheorems, WellFoundedInduction, TLAPS

(* A channel is stored only under a row, so a lap that is complete does    *)
(* not get its row, and its points, afterwards.                            *)
StoredInv == \A l \in Laps : stored[l] # {} => kinds[l] # <<>>

(* What has not happened yet at each place of the dump, and where points   *)
(* comes from: the first query, or a later one that was answered.          *)
PathInv ==
  /\ Querying => i = 0 /\ out = <<>> /\ lastgear = [s \in Sides |-> NoGear] /\ ~whole[2]
  /\ dpc \in {"points", "first"} => ~whole[1]
  /\ dpc = "first"  => points = size
  /\ dpc = "second" => points \in {size, got[1]}
  /\ dpc \in {"rows", "done"} => points \in {size, got[1], got[2]}
  /\ dpc = "done" => i = points

(* The three fields of a lap are one behind the other, point by point.     *)
Holds(memory, order, lap) ==
  LET n == Len(kinds[lap]) IN
  \A p \in 0 .. n - 1, place \in 0 .. 2 :
    memory[p + n * place] = Value(lap, order[place + 1], p)

(* What a query leaves behind that found all channels; a lap that is whole *)
(* does not change any more.                                               *)
WholeInv ==
  \A s \in Sides : whole[s] =>
    /\ stored[chosen[s]] = Channels
    /\ got[s] = Len(kinds[chosen[s]]) /\ got[s] <= size
    /\ Holds(ints[s], IntOrder, chosen[s])
    /\ Holds(doubles[s], DoubleOrder, chosen[s])

(* One of the laps has a steer of 0.00 at a point.                         *)
Dropped(p) == \E s \in Sides : kinds[chosen[s]][p + 1] \in ZeroSteer

(* What the loop has written so far, and the gear it remembers.            *)
WrittenInv ==
  /\ out \in Seq(Range(out))
  /\ Sound =>
       /\ {out[r].point : r \in DOMAIN out} = {p \in 0 .. i - 1 : ~Dropped(p)}
       /\ \A s \in Sides : lastgear[s] = GearUpTo(Len(out), s)

(* The inductive invariant.                                                *)
DumpInv ==
  /\ TypeOK /\ StoredInv /\ PathInv /\ StaysInBuffers
  /\ WholeInv /\ WrittenInv /\ RowsPairTheLaps /\ NeutralIsHidden

-----------------------------------------------------------------------------
(* The buffers.                                                            *)

(* The columns the queries ask for are channels of the store.              *)
LEMMA OrdersAre ==
  /\ Channels = {"steer", "accel", "brake", "rpms", "gear", "speed"}
  /\ Len(StoreOrder) = 6 /\ \A k \in 1 .. 6 : StoreOrder[k] \in Channels
  /\ \A order \in {IntOrder, DoubleOrder} :
       DOMAIN order = 1 .. 3 /\ \A k \in 1 .. 3 : order[k] \in Channels
<1>1. Channels = {"steer", "accel", "brake", "rpms", "gear", "speed"}
  <2>1. DOMAIN StoreOrder = {1, 2, 3, 4, 5, 6}
    BY DEF StoreOrder
  <2>2. QED
    BY <2>1 DEF Channels, Range, StoreOrder
<1>2. QED
  BY <1>1 DEF IntOrder, DoubleOrder, StoreOrder

(* There are three fields.                                                 *)
LEMMA UpToThree == IsFiniteSet(1 .. 3) /\ Cardinality(1 .. 3) = 3
<1>1. \A n \in Nat : IsFiniteSet(1 .. n) /\ Cardinality(1 .. n) = n
  BY FS_Interval
<1>2. 3 \in Nat
  OBVIOUS
<1>3. QED
  BY <1>1, <1>2, Zenon

(* A row has at most three of the columns that are asked for.              *)
LEMMA BlobsAre ==
  ASSUME NEW lap, NEW order \in {IntOrder, DoubleOrder}
  PROVE  /\ Blobs(order, lap) \subseteq 1 .. 3
         /\ Cardinality(Blobs(order, lap)) \in 0 .. 3
<1>1. Blobs(order, lap) \subseteq 1 .. 3
  BY OrdersAre DEF Blobs
<1>2. IsFiniteSet(1 .. 3) /\ Cardinality(1 .. 3) = 3
  BY UpToThree
<1>3. QED
  BY <1>1, <1>2, FS_Subset, FS_CardinalityType

(* When all channels are stored they come in the order of the query.       *)
LEMMA WholeBlobs ==
  ASSUME NEW lap, NEW order \in {IntOrder, DoubleOrder}, stored[lap] = Channels
  PROVE  /\ Cardinality(Blobs(order, lap)) = 3
         /\ \A place \in 0 .. 2 : BlobAt(place, order, lap) = place + 1
<1>1. Blobs(order, lap) = 1 .. 3
  BY OrdersAre DEF Blobs
<1>2. Cardinality(1 .. 3) = 3
  BY UpToThree
<1>3. \A k \in 1 .. 3 : Cardinality({j \in 1 .. 3 : j < k}) = k - 1
  <2>1. TAKE k \in 1 .. 3
  <2>2. {j \in 1 .. 3 : j < k} = 1 .. k - 1
    OBVIOUS
  <2>3. Cardinality(1 .. k - 1) = k - 1
    BY FS_Interval
  <2>4. QED
    BY <2>2, <2>3
<1>4. ASSUME NEW place \in 0 .. 2
      PROVE  BlobAt(place, order, lap) = place + 1
  <2>1. place + 1 \in 1 .. 3 /\ Cardinality({j \in 1 .. 3 : j < place + 1}) = place
    BY <1>3
  <2>2. \A k \in 1 .. 3 : Cardinality({j \in 1 .. 3 : j < k}) = place => k = place + 1
    BY <1>3
  <2>3. QED
    BY <1>1, <2>1, <2>2 DEF BlobAt
<1>5. QED
  BY <1>1, <1>2, <1>4

(* A buffer for n points has 3n places.                                    *)
LEMMA MemorySize ==
  ASSUME NEW n \in Nat, NEW memory, DOMAIN memory = 0 .. 3 * n - 1
  PROVE  Cardinality(DOMAIN memory) = 3 * n
  BY FS_Interval

(* What fits has no more points than the buffers were made for, or not all *)
(* of its channels; what does not fit has more.                            *)
LEMMA FitsBound ==
  ASSUME NEW lap, NEW order \in {IntOrder, DoubleOrder}, kinds[lap] \in Seq(Kinds),
         NEW n \in Nat, NEW memory, DOMAIN memory = 0 .. 3 * n - 1
  PROVE  /\ ~Fits(memory, order, lap) => Len(kinds[lap]) > n
         /\ Fits(memory, order, lap) /\ stored[lap] = Channels => Len(kinds[lap]) <= n
<1> DEFINE l == Len(kinds[lap])
           c == Cardinality(Blobs(order, lap))
<1>1. l \in Nat
  OBVIOUS
<1>2. c \in {0, 1, 2, 3}
  BY BlobsAre
<1>3. Fits(memory, order, lap) <=> l * c <= 3 * n
  BY MemorySize DEF Fits
<1>4. stored[lap] = Channels => c = 3
  BY WholeBlobs
<1> HIDE DEF l, c
<1>5. /\ ~(l * c <= 3 * n) => l > n
      /\ l * 3 <= 3 * n => l <= n
  BY <1>1, <1>2
<1>6. QED
  BY <1>3, <1>4, <1>5 DEF l

(* A query keeps the size of the buffer and puts values of its lap there.  *)
LEMMA FilledType ==
  ASSUME NEW lap, NEW order, NEW memory
  PROVE  /\ DOMAIN Filled(memory, order, lap) = DOMAIN memory
         /\ \A x \in DOMAIN memory :
              Filled(memory, order, lap)[x].lap \in {lap, memory[x].lap}
  BY DEF Filled, Value

(* Of a row that is complete each field is in its place.                   *)
LEMMA FilledHolds ==
  ASSUME NEW lap, NEW order \in {IntOrder, DoubleOrder}, kinds[lap] \in Seq(Kinds),
         stored[lap] = Channels,
         NEW n \in Nat, NEW memory, DOMAIN memory = 0 .. 3 * n - 1, Len(kinds[lap]) <= n
  PROVE  Holds(Filled(memory, order, lap), order, lap)
<1> DEFINE l == Len(kinds[lap])
<1>1. l \in Nat
  OBVIOUS
<1> HIDE DEF l
<1>2. ASSUME NEW p \in 0 .. l - 1, NEW place \in 0 .. 2
      PROVE  Filled(memory, order, lap)[p + l * place] = Value(lap, order[place + 1], p)
  <2> DEFINE x == p + l * place
  <2>1. l \in Nat \ {0}
    BY <1>1
  <2>2. /\ x \in 0 .. 3 * l - 1
        /\ x \div l = place
        /\ x % l = p
    <3>1. CASE place = 0
      BY <2>1, <3>1, SMTT(30)
    <3>2. CASE place = 1
      BY <2>1, <3>2, SMTT(30)
    <3>3. CASE place = 2
      BY <2>1, <3>3, SMTT(30)
    <3>4. QED
      BY <3>1, <3>2, <3>3
  <2>3. x \in DOMAIN memory
    BY <1>1, <2>2 DEF l
  <2> HIDE DEF x
  <2>4. Cardinality(Blobs(order, lap)) = 3 /\ BlobAt(place, order, lap) = place + 1
    BY WholeBlobs
  <2>5. x < l * Cardinality(Blobs(order, lap))
    BY <1>1, <2>2, <2>4
  <2>6. Filled(memory, order, lap)[x] = Value(lap, order[BlobAt(x \div l, order, lap)], x % l)
    BY <2>3, <2>5, Zenon DEF Filled, l
  <2>7. QED
    BY <2>2, <2>4, <2>6, Zenon DEF x
<1>3. QED
  BY <1>2 DEF Holds, l

-----------------------------------------------------------------------------
(* What a step does.                                                       *)

(* The laps of the dump are laps, and each has a sequence of points.       *)
LEMMA LapsAre ==
  ASSUME TypeOK
  PROVE  /\ \A l \in Laps : kinds[l] \in Seq(Kinds) /\ Len(kinds[l]) \in Nat
         /\ \A s \in Sides : chosen[s] \in Laps
         /\ Range(chosen) \subseteq Laps
<1>1. \A sh \in Shapes \cup {<<>>} : sh \in Seq(Kinds)
  BY DumpAssumption, EmptySeq
<1>2. \A l \in Laps : kinds[l] \in Shapes \cup {<<>>}
  BY DEF TypeOK
<1>3. \A l \in Laps : kinds[l] \in Seq(Kinds) /\ Len(kinds[l]) \in Nat
  BY <1>1, <1>2
<1>4. chosen \in [Sides -> Laps]
  BY DEF TypeOK
<1>5. QED
  BY <1>3, <1>4 DEF Range

(* The three outcomes of a query: the lap is loaded, it has more points    *)
(* than the buffers, or the call fails.                                    *)
Loads(side) ==
  LET lap == chosen[side] IN
  /\ Fits(ints[side], IntOrder, lap) /\ Fits(doubles[side], DoubleOrder, lap)
  /\ points' = Len(kinds[lap])
  /\ ints' = [ints EXCEPT ![side] = Filled(@, IntOrder, lap)]
  /\ doubles' = [doubles EXCEPT ![side] = Filled(@, DoubleOrder, lap)]
  /\ got' = [got EXCEPT ![side] = Len(kinds[lap])]
  /\ whole' = [whole EXCEPT ![side] = stored[lap] = Channels]

Overruns(side) ==
  /\ Len(kinds[chosen[side]]) > size
  /\ got' = [got EXCEPT ![side] = Len(kinds[chosen[side]])]
  /\ UNCHANGED <<points, ints, doubles, whole>>

Misses == UNCHANGED <<points, ints, doubles, got, whole>>

(* A query has one of them, and touches neither the loop nor the database. *)
LEMMA LoadCases ==
  ASSUME TypeOK, NEW side \in Sides, NEW from, NEW to, LoadSide(side, from, to)
  PROVE  /\ dpc = from /\ faults' \in 0 .. MaxFaults
         /\ UNCHANGED <<kinds, stored, next, latest, chosen, size, i, lastgear, out>>
         /\ \/ dpc' = to /\ Loads(side)
            \/ dpc' = "undefined" /\ Overruns(side)
            \/ dpc' = to /\ Misses
<1> DEFINE lap == chosen[side]
           fits == Fits(ints[side], IntOrder, lap) /\ Fits(doubles[side], DoubleOrder, lap)
<1>1. /\ dpc = from
      /\ UNCHANGED <<kinds, stored, next, latest, chosen, size, i, lastgear, out>>
  BY DEF LoadSide, dbVars
<1>2. faults' \in 0 .. MaxFaults
  <2>1. faults \in 0 .. MaxFaults /\ MaxFaults \in Nat
    BY DumpAssumption DEF TypeOK
  <2>2. UNCHANGED faults \/ Fail
    BY Zenon DEF LoadSide
  <2>3. QED
    BY <2>1, <2>2 DEF Fail
<1>3. CASE fits /\ Load(side, lap) /\ dpc' = to
  BY <1>1, <1>2, <1>3, Zenon DEF Load, LoadInto, Loads
<1>4. CASE ~fits /\ dpc' = "undefined" /\ UNCHANGED <<points, ints, doubles, whole>>
           /\ got' = [got EXCEPT ![side] = Len(kinds[lap])]
  <2>1. /\ kinds[lap] \in Seq(Kinds) /\ size \in Nat
        /\ DOMAIN ints[side] = 0 .. 3 * size - 1 /\ DOMAIN doubles[side] = 0 .. 3 * size - 1
    BY LapsAre DEF TypeOK
  <2>2. Len(kinds[lap]) > size
    BY <1>4, <2>1, FitsBound
  <2>3. QED
    BY <1>1, <1>2, <1>4, <2>2 DEF Overruns
<1>5. CASE dpc' = to /\ UNCHANGED <<points, ints, doubles, got, whole>>
  BY <1>1, <1>2, <1>5 DEF Misses
<1>6. QED
  BY <1>1, <1>2, <1>3, <1>4, <1>5, Zenon DEF LoadSide, Loads

(* Whatever its outcome, the buffers keep their size and hold values of    *)
(* their own lap.                                                          *)
LEMMA LoadTypes ==
  ASSUME TypeOK, NEW side \in Sides, NEW from, NEW to, LoadSide(side, from, to)
  PROVE  /\ points' \in Nat
         /\ DOMAIN ints' = Sides /\ DOMAIN doubles' = Sides
         /\ \A s \in Sides :
              /\ DOMAIN ints'[s] = 0 .. 3 * size - 1
              /\ DOMAIN doubles'[s] = 0 .. 3 * size - 1
              /\ \A x \in DOMAIN ints'[s] : ints'[s][x].lap \in {0, chosen[s]}
              /\ \A x \in DOMAIN doubles'[s] : doubles'[s][x].lap \in {0, chosen[s]}
         /\ got' \in [Sides -> Nat] /\ whole' \in [Sides -> BOOLEAN]
<1> DEFINE lap == chosen[side]
<1>1. /\ points \in Nat /\ DOMAIN ints = Sides /\ DOMAIN doubles = Sides
      /\ got \in [Sides -> Nat] /\ whole \in [Sides -> BOOLEAN]
      /\ \A s \in Sides :
           /\ DOMAIN ints[s] = 0 .. 3 * size - 1
           /\ DOMAIN doubles[s] = 0 .. 3 * size - 1
           /\ \A x \in DOMAIN ints[s] : ints[s][x].lap \in {0, chosen[s]}
           /\ \A x \in DOMAIN doubles[s] : doubles[s][x].lap \in {0, chosen[s]}
  BY DEF TypeOK
<1>2. Len(kinds[lap]) \in Nat
  BY LapsAre
<1>3. CASE Loads(side)
  <2>1. /\ ints' = [ints EXCEPT ![side] = Filled(ints[side], IntOrder, lap)]
        /\ doubles' = [doubles EXCEPT ![side] = Filled(doubles[side], DoubleOrder, lap)]
        /\ points' = Len(kinds[lap])
        /\ got' = [got EXCEPT ![side] = Len(kinds[lap])]
        /\ whole' = [whole EXCEPT ![side] = stored[lap] = Channels]
    BY <1>3 DEF Loads
  <2>3. DOMAIN ints' = Sides /\ DOMAIN doubles' = Sides /\ points' \in Nat
    BY <1>1, <1>2, <2>1
  <2>4. got' \in [Sides -> Nat] /\ whole' \in [Sides -> BOOLEAN]
    BY <1>1, <1>2, <2>1
  <2> HIDE DEF lap
  <2>5. ASSUME NEW s \in Sides
        PROVE  /\ DOMAIN ints'[s] = 0 .. 3 * size - 1
               /\ DOMAIN doubles'[s] = 0 .. 3 * size - 1
               /\ \A x \in DOMAIN ints'[s] : ints'[s][x].lap \in {0, chosen[s]}
               /\ \A x \in DOMAIN doubles'[s] : doubles'[s][x].lap \in {0, chosen[s]}
    <3>1. CASE s = side
      <4>1. /\ ints'[s] = Filled(ints[s], IntOrder, lap)
            /\ doubles'[s] = Filled(doubles[s], DoubleOrder, lap)
            /\ lap = chosen[s]
        BY <1>1, <2>1, <3>1 DEF lap
      <4>2. /\ DOMAIN ints'[s] = DOMAIN ints[s]
            /\ \A x \in DOMAIN ints[s] : ints'[s][x].lap \in {lap, ints[s][x].lap}
        BY <4>1, FilledType
      <4>3. /\ DOMAIN doubles'[s] = DOMAIN doubles[s]
            /\ \A x \in DOMAIN doubles[s] : doubles'[s][x].lap \in {lap, doubles[s][x].lap}
        BY <4>1, FilledType
      <4>4. QED
        BY <1>1, <4>1, <4>2, <4>3
    <3>2. CASE s # side
      BY <1>1, <2>1, <3>2
    <3>3. QED
      BY <3>1, <3>2
  <2>6. QED
    BY <2>3, <2>4, <2>5
<1>4. CASE Overruns(side)
  BY <1>1, <1>2, <1>4 DEF Overruns
<1>5. CASE Misses
  BY <1>1, <1>5 DEF Misses
<1>6. QED
  BY <1>3, <1>4, <1>5, LoadCases, Zenon

(* A comparison says yes or no.                                            *)
LEMMA IsBoolean ==
  ASSUME NEW value, NEW these
  PROVE  Is(value, these) \subseteq BOOLEAN
<1>1. CASE value = Junk
  BY <1>1, Zenon DEF Is
<1>2. CASE value # Junk
  <2>1. Is(value, these) = {kinds[value.lap][value.point + 1] \in these}
    BY <1>2, Zenon DEF Is
  <2>2. (kinds[value.lap][value.point + 1] \in these) \in BOOLEAN
    OBVIOUS
  <2>3. QED
    BY <2>1, <2>2, Zenon
<1>3. QED
  BY <1>1, <1>2

(* A turn of the loop leaves a row out or appends one.                     *)
LEMMA RowCases ==
  ASSUME TypeOK, WriteRow
  PROVE  /\ dpc = "rows" /\ dpc' = "rows" /\ i < points /\ i' = i + 1
         /\ UNCHANGED <<kinds, stored, next, latest, faults, chosen, points, size>>
         /\ UNCHANGED <<ints, doubles, got, whole>>
         /\ \E zero, neutral \in [Sides -> BOOLEAN] :
              /\ \A s \in Sides :
                   /\ zero[s] \in Is(At(doubles[s], 2), ZeroSteer)
                   /\ neutral[s] \in Is(At(ints[s], 2), {"neutral"})
              /\ \/ Skipped(zero) /\ UNCHANGED <<out, lastgear>>
                 \/ /\ ~Skipped(zero)
                    /\ lastgear' = [s \in Sides |-> Shown(s, neutral[s])]
                    /\ out' = Append(out, [point |-> i,
                         side |-> [s \in Sides |-> RowOf(s, Shown(s, neutral[s]))]])
<1>1. /\ dpc = "rows" /\ i < points /\ i' = i + 1
      /\ UNCHANGED <<kinds, stored, next, latest, faults, chosen, points, size>>
      /\ UNCHANGED <<ints, doubles, got, whole>>
  BY DEF WriteRow, Advance, dbVars
<1>2. PICK zero1 \in Is(At(doubles[1], 2), ZeroSteer),
           zero2 \in Is(At(doubles[2], 2), ZeroSteer),
           neutral1 \in Is(At(ints[1], 2), {"neutral"}),
           neutral2 \in Is(At(ints[2], 2), {"neutral"}) :
        LET gear == <<Shown(1, neutral1), Shown(2, neutral2)>> IN
        IF Skipped(<<zero1, zero2>>)
        THEN Leave(dpc)
        ELSE /\ out' = Append(out,
                  [point |-> i, side |-> [s \in Sides |-> RowOf(s, gear[s])]])
             /\ lastgear' = [s \in Sides |-> Kept(s, gear[s])]
             /\ UNCHANGED dpc
  BY Zenon DEF WriteRow
<1>3. zero1 \in BOOLEAN /\ zero2 \in BOOLEAN /\ neutral1 \in BOOLEAN /\ neutral2 \in BOOLEAN
  BY IsBoolean, Zenon
<1> DEFINE zero == [s \in Sides |-> IF s = 1 THEN zero1 ELSE zero2]
           neutral == [s \in Sides |-> IF s = 1 THEN neutral1 ELSE neutral2]
           gear == <<Shown(1, neutral1), Shown(2, neutral2)>>
<1>4. zero \in [Sides -> BOOLEAN] /\ neutral \in [Sides -> BOOLEAN]
  BY <1>3
<1>5. /\ zero[1] = zero1 /\ zero[2] = zero2 /\ neutral[1] = neutral1 /\ neutral[2] = neutral2
      /\ Sides = {1, 2}
  BY DEF Sides
<1>6. \A s \in Sides : gear[s] = Shown(s, neutral[s])
  BY <1>5
<1>7. \A s \in Sides : zero[s] \in Is(At(doubles[s], 2), ZeroSteer)
                     /\ neutral[s] \in Is(At(ints[s], 2), {"neutral"})
  BY <1>5
<1>8. Skipped(zero) <=> Skipped(<<zero1, zero2>>)
  BY <1>5 DEF Skipped
<1> HIDE DEF zero, neutral, gear
<1>9. \/ Skipped(zero) /\ UNCHANGED <<out, lastgear>> /\ dpc' = dpc
      \/ /\ ~Skipped(zero) /\ dpc' = dpc
         /\ lastgear' = [s \in Sides |-> Shown(s, neutral[s])]
         /\ out' = Append(out, [point |-> i,
              side |-> [s \in Sides |-> RowOf(s, Shown(s, neutral[s]))]])
  <2>1. CASE Skipped(<<zero1, zero2>>)
    BY <1>2, <1>8, <2>1 DEF Leave
  <2>2. CASE ~Skipped(<<zero1, zero2>>)
    <3>1. /\ out' = Append(out, [point |-> i, side |-> [s \in Sides |-> RowOf(s, gear[s])]])
          /\ lastgear' = [s \in Sides |-> gear[s]] /\ dpc' = dpc
      BY <1>2, <2>2, Zenon DEF Kept, gear
    <3>2. /\ [s \in Sides |-> RowOf(s, gear[s])]
               = [s \in Sides |-> RowOf(s, Shown(s, neutral[s]))]
          /\ [s \in Sides |-> gear[s]] = [s \in Sides |-> Shown(s, neutral[s])]
      BY <1>6, Zenon
    <3>3. QED
      BY <1>8, <2>2, <3>1, <3>2, Zenon
  <2>3. QED
    BY <2>1, <2>2
<1>10. QED
  BY <1>1, <1>4, <1>7, <1>9, Zenon

-----------------------------------------------------------------------------
(* Each part of the invariant is kept by every step.                       *)

(* The types, action by action.                                            *)
LEMMA TypeStep ==
  ASSUME DumpInv, [Next]_vars
  PROVE  TypeOK'
<1>0. TypeOK /\ out \in Seq(Range(out)) /\ PathInv
  BY DEF DumpInv, WrittenInv
<1>1. CASE AddTelemetry
  <2>1. PICK l \in Range(chosen), shape \in Shapes :
          kinds' = [kinds EXCEPT ![l] = shape] /\ latest' = l
    BY <1>1, Zenon DEF AddTelemetry
  <2>2. l \in Laps
    BY <1>0, LapsAre
  <2>3. kinds' \in [Laps -> Shapes \cup {<<>>}] /\ latest' \in Laps
    BY <1>0, <2>1, <2>2 DEF TypeOK
  <2>4. UNCHANGED <<stored, next, faults, dumpVars>>
    BY <1>1 DEF AddTelemetry
  <2>5. QED
    BY <1>0, <2>3, <2>4 DEF TypeOK, dumpVars
<1>2. CASE StoreChannel
  <2>1. /\ next[latest] \in 1 .. 6 /\ next' = [next EXCEPT ![latest] = next[latest] + 1]
        /\ latest \in Laps /\ Len(StoreOrder) = 6
        /\ UNCHANGED <<kinds, latest, dumpVars>>
    BY <1>0, <1>2, OrdersAre DEF StoreChannel, TypeOK
  <2>2. next' \in [Laps -> 1 .. Len(StoreOrder) + 1]
    BY <1>0, <2>1 DEF TypeOK
  <2>3. StoreOrder[next[latest]] \in Channels
    BY <2>1, OrdersAre
  <2>4. stored' \in [Laps -> SUBSET Channels] /\ faults' \in 0 .. MaxFaults
    <3>1. stored \in [Laps -> SUBSET Channels] /\ faults \in 0 .. MaxFaults
      BY <1>0 DEF TypeOK
    <3>2. \/ stored' = [stored EXCEPT ![latest] = stored[latest] \cup {StoreOrder[next[latest]]}]
          \/ stored' = stored
      BY <1>2, Zenon DEF StoreChannel
    <3>3. UNCHANGED faults \/ Fail
      BY <1>2, Zenon DEF StoreChannel
    <3>4. MaxFaults \in Nat
      BY DumpAssumption, Zenon
    <3>5. stored' \in [Laps -> SUBSET Channels]
      BY <2>1, <2>3, <3>1, <3>2
    <3>6. faults' \in 0 .. MaxFaults
      BY <3>1, <3>3, <3>4 DEF Fail
    <3>7. QED
      BY <3>5, <3>6
  <2>5. QED
    BY <1>0, <2>1, <2>2, <2>4 DEF TypeOK, dumpVars
<1>3. CASE QueryPoints
  <2>1. /\ dpc = "points" /\ dpc' = "first"
        /\ AllocateFor(points')
        /\ UNCHANGED <<kinds, stored, next, latest, chosen, i, lastgear, out, got, whole>>
    BY <1>3 DEF QueryPoints, dbVars
  <2>2. /\ \/ points' = Len(kinds[chosen[1]]) /\ UNCHANGED faults
           \/ points' = 0 /\ Fail
    BY <1>3, Zenon DEF QueryPoints
  <2>3. chosen[1] \in Laps
    BY <1>0, LapsAre DEF Sides
  <2>4. points' \in Nat
    BY <1>0, <2>2, <2>3, LapsAre
  <2>5. faults' \in 0 .. MaxFaults
    BY <1>0, <2>2, DumpAssumption DEF Fail, TypeOK
  <2>6. i = 0
    BY <1>0, <2>1 DEF PathInv, Querying
  <2>7. /\ size' = points'
        /\ ints' = [s \in Sides |-> Fresh(points')]
        /\ doubles' = [s \in Sides |-> Fresh(points')]
    BY <2>1 DEF AllocateFor
  <2>8. /\ DOMAIN ints' = Sides /\ DOMAIN doubles' = Sides
        /\ \A s \in Sides :
             /\ DOMAIN ints'[s] = 0 .. 3 * size' - 1
             /\ DOMAIN doubles'[s] = 0 .. 3 * size' - 1
             /\ \A x \in DOMAIN ints'[s] : ints'[s][x].lap = 0
             /\ \A x \in DOMAIN doubles'[s] : doubles'[s][x].lap = 0
    BY <2>7 DEF Fresh, Junk, Value
  <2>9. QED
    BY <1>0, <2>1, <2>4, <2>5, <2>6, <2>7, <2>8 DEF TypeOK
<1>4. ASSUME NEW side \in Sides, NEW from \in {"first", "second"},
             NEW to \in {"second", "rows"}, LoadSide(side, from, to)
      PROVE  TypeOK'
  <2>1. /\ dpc = from /\ faults' \in 0 .. MaxFaults /\ dpc' \in {to, "undefined"}
        /\ UNCHANGED <<kinds, stored, next, latest, chosen, size, i, lastgear, out>>
    BY <1>0, <1>4, LoadCases, Zenon
  <2>2. i = 0
    BY <1>0, <2>1 DEF PathInv, Querying
  <2>3. /\ points' \in Nat
        /\ DOMAIN ints' = Sides /\ DOMAIN doubles' = Sides
        /\ \A s \in Sides :
             /\ DOMAIN ints'[s] = 0 .. 3 * size - 1
             /\ DOMAIN doubles'[s] = 0 .. 3 * size - 1
             /\ \A x \in DOMAIN ints'[s] : ints'[s][x].lap \in {0, chosen[s]}
             /\ \A x \in DOMAIN doubles'[s] : doubles'[s][x].lap \in {0, chosen[s]}
        /\ got' \in [Sides -> Nat] /\ whole' \in [Sides -> BOOLEAN]
    BY <1>0, <1>4, LoadTypes
  <2>4. QED
    BY <1>0, <2>1, <2>2, <2>3 DEF TypeOK
<1>5. CASE LoadFirst
  BY <1>4, <1>5 DEF LoadFirst, Sides
<1>6. CASE LoadSecond
  BY <1>4, <1>6 DEF LoadSecond, Sides
<1>7. CASE WriteRow
  <2>1. /\ dpc = "rows" /\ dpc' = "rows" /\ i < points /\ i' = i + 1
        /\ UNCHANGED <<kinds, stored, next, latest, faults, chosen, points, size>>
        /\ UNCHANGED <<ints, doubles, got, whole>>
        /\ \/ UNCHANGED <<out, lastgear>>
           \/ DOMAIN lastgear' = Sides /\ \E row : out' = Append(out, row)
    BY <1>0, <1>7, RowCases
  <2>2. Len(out') <= i'
    <3>1. Len(out) <= i /\ i \in Nat
      BY <1>0 DEF TypeOK
    <3>2. ASSUME NEW row, out' = Append(out, row)
          PROVE  Len(out') = Len(out) + 1
      BY <1>0, <3>2
    <3>3. Len(out) \in Nat
      BY <1>0
    <3>4. QED
      BY <2>1, <3>1, <3>2, <3>3
  <2>3. i' \in 0 .. points'
    BY <1>0, <2>1 DEF TypeOK
  <2>4. DOMAIN lastgear' = Sides
    BY <1>0, <2>1 DEF TypeOK
  <2>5. QED
    BY <1>0, <2>1, <2>2, <2>3, <2>4 DEF TypeOK
<1>8. CASE ReadOutside
  <2>1. /\ i < points /\ i' = i + 1 /\ dpc' = "undefined"
        /\ UNCHANGED <<kinds, stored, next, latest, faults, chosen, points, size>>
        /\ UNCHANGED <<ints, doubles, got, whole, lastgear, out>>
    BY <1>8 DEF ReadOutside, Advance, Leave, dbVars
  <2>2. i' \in 0 .. points' /\ Len(out') <= i'
    BY <1>0, <2>1 DEF TypeOK
  <2>3. QED
    BY <1>0, <2>1, <2>2 DEF TypeOK
<1>9. CASE CloseFile
  BY <1>0, <1>9 DEF TypeOK, CloseFile, Leave, dbVars
<1>10. CASE UNCHANGED vars
  BY <1>0, <1>10 DEF TypeOK, vars, dbVars, dumpVars
<1>11. QED
  BY <1>1, <1>2, <1>3, <1>5, <1>6, <1>7, <1>8, <1>9, <1>10 DEF Next, Over

(* The recorder stores channels of the row it has; the dump stores none.   *)
LEMMA StoredStep ==
  ASSUME DumpInv, [Next]_vars
  PROVE  StoredInv'
<1>0. /\ StoredInv /\ kinds \in [Laps -> Shapes \cup {<<>>}] /\ latest \in Laps
      /\ stored \in [Laps -> SUBSET Channels] /\ \A shape \in Shapes : shape # <<>>
  BY DumpAssumption DEF DumpInv, TypeOK
<1>1. CASE AddTelemetry
  BY <1>0, <1>1 DEF AddTelemetry, StoredInv
<1>2. CASE StoreChannel
  BY <1>0, <1>2 DEF StoreChannel, StoredInv
<1>3. CASE UNCHANGED dbVars
  BY <1>0, <1>3 DEF dbVars, StoredInv
<1>4. QED
  BY <1>1, <1>2, <1>3 DEF Next, Over, vars, QueryPoints, LoadFirst, LoadSecond, LoadSide,
     WriteRow, ReadOutside, CloseFile, Advance

(* points is what one of the queries found.                                *)
LEMMA PathStep ==
  ASSUME DumpInv, [Next]_vars
  PROVE  PathInv'
<1>0. TypeOK /\ PathInv
  BY DEF DumpInv
<1>1. CASE AddTelemetry
  BY <1>0, <1>1 DEF AddTelemetry, PathInv, Querying, dumpVars
<1>2. CASE StoreChannel
  BY <1>0, <1>2 DEF StoreChannel, PathInv, Querying, dumpVars
<1>3. CASE QueryPoints
  BY <1>0, <1>3 DEF QueryPoints, AllocateFor, PathInv, Querying
<1>4. CASE LoadFirst
  <2>1. /\ dpc = "first"
        /\ UNCHANGED <<chosen, size, i, lastgear, out>>
        /\ \/ dpc' = "second" /\ Loads(1)
           \/ dpc' = "undefined" /\ Overruns(1)
           \/ dpc' = "second" /\ Misses
    BY <1>0, <1>4, LoadCases DEF LoadFirst, Sides
  <2>2. whole'[2] = whole[2]
    BY <1>0, <2>1 DEF Loads, Overruns, Misses, TypeOK, Sides
  <2>3. dpc' = "second" => points' \in {size, got'[1]}
    BY <1>0, <2>1 DEF Loads, Overruns, Misses, TypeOK, Sides, PathInv
  <2>4. QED
    BY <1>0, <2>1, <2>2, <2>3 DEF PathInv, Querying
<1>5. CASE LoadSecond
  <2>1. /\ dpc = "second"
        /\ UNCHANGED <<chosen, size, i, lastgear, out>>
        /\ \/ dpc' = "rows" /\ Loads(2)
           \/ dpc' = "undefined" /\ Overruns(2)
           \/ dpc' = "rows" /\ Misses
    BY <1>0, <1>5, LoadCases DEF LoadSecond, Sides
  <2>2. dpc' = "rows" => points' \in {size, got'[1], got'[2]}
    BY <1>0, <2>1 DEF Loads, Overruns, Misses, TypeOK, Sides, PathInv
  <2>3. QED
    BY <1>0, <2>1, <2>2 DEF PathInv, Querying
<1>6. CASE WriteRow
  <2>1. /\ dpc = "rows" /\ dpc' = "rows"
        /\ UNCHANGED <<points, size, got>>
    BY <1>0, <1>6, RowCases
  <2>2. QED
    BY <1>0, <2>1 DEF PathInv, Querying
<1>7. CASE ReadOutside
  BY <1>0, <1>7 DEF ReadOutside, Advance, Leave, PathInv, Querying
<1>8. CASE CloseFile
  <2>1. i \in 0 .. points /\ points \in Nat
    BY <1>0 DEF TypeOK
  <2>2. QED
    BY <1>0, <1>8, <2>1 DEF CloseFile, Leave, PathInv, Querying
<1>9. CASE UNCHANGED vars
  BY <1>0, <1>9 DEF PathInv, Querying, vars, dumpVars
<1>10. QED
  BY <1>1, <1>2, <1>3, <1>4, <1>5, <1>6, <1>7, <1>8, <1>9 DEF Next, Over

(* The loop leaves the buffers only when it follows more points than they  *)
(* were made for.                                                          *)
LEMMA OutsideOnlyIfMore ==
  ASSUME TypeOK, ReadOutside
  PROVE  points > size
<1>1. PICK s \in Sides : ~Inside(ints[s]) \/ ~Inside(doubles[s])
  BY DEF ReadOutside
<1>2. /\ size \in Nat /\ points \in Nat /\ i \in Nat /\ i < points
      /\ DOMAIN ints[s] = 0 .. 3 * size - 1 /\ DOMAIN doubles[s] = 0 .. 3 * size - 1
  BY DEF TypeOK, ReadOutside, Advance
<1>3. i + points * 2 \notin 0 .. 3 * size - 1
  BY <1>1, <1>2 DEF Inside
<1>4. QED
  BY <1>2, <1>3

(* What is undefined is so because a lap has more points than the first    *)
(* query found.                                                            *)
LEMMA StaysStep ==
  ASSUME DumpInv, [Next]_vars
  PROVE  StaysInBuffers'
<1>0. TypeOK /\ PathInv /\ StaysInBuffers
  BY DEF DumpInv
<1>1. CASE AddTelemetry \/ StoreChannel
  BY <1>0, <1>1 DEF AddTelemetry, StoreChannel, StaysInBuffers, dumpVars
<1>2. CASE QueryPoints
  BY <1>2 DEF QueryPoints, StaysInBuffers
<1>3. ASSUME NEW side \in Sides, NEW from, NEW to \in {"second", "rows"},
             LoadSide(side, from, to)
      PROVE  StaysInBuffers'
  <2>1. /\ UNCHANGED size
        /\ dpc' = to \/ Overruns(side)
    BY <1>0, <1>3, LoadCases, Zenon
  <2>2. Overruns(side) => got'[side] > size
    BY <1>0 DEF Overruns, TypeOK
  <2>3. QED
    BY <2>1, <2>2 DEF StaysInBuffers
<1>4. CASE LoadFirst \/ LoadSecond
  BY <1>3, <1>4 DEF LoadFirst, LoadSecond, Sides
<1>5. CASE WriteRow
  <2>1. dpc' = "rows"
    BY <1>0, <1>5, RowCases
  <2>2. QED
    BY <2>1 DEF StaysInBuffers
<1>6. CASE ReadOutside
  <2>1. /\ dpc = "rows" /\ UNCHANGED <<size, got>>
    BY <1>6 DEF ReadOutside, Advance
  <2>2. points \in {size, got[1], got[2]} /\ points > size
    BY <1>0, <1>6, <2>1, OutsideOnlyIfMore DEF PathInv
  <2>3. size \in Nat
    BY <1>0 DEF TypeOK
  <2>4. QED
    BY <2>1, <2>2, <2>3 DEF StaysInBuffers, Sides
<1>7. CASE CloseFile
  BY <1>7 DEF CloseFile, Leave, StaysInBuffers
<1>8. CASE UNCHANGED vars
  BY <1>0, <1>8 DEF StaysInBuffers, vars, dumpVars
<1>9. QED
  BY <1>1, <1>2, <1>4, <1>5, <1>6, <1>7, <1>8 DEF Next, Over

(* WholeInv for one of the laps.                                           *)
WholeSide(s) ==
  /\ stored[chosen[s]] = Channels
  /\ got[s] = Len(kinds[chosen[s]]) /\ got[s] <= size
  /\ Holds(ints[s], IntOrder, chosen[s])
  /\ Holds(doubles[s], DoubleOrder, chosen[s])

(* A lap that was loaded whole is complete and stays as it is.             *)
LEMMA WholeStep ==
  ASSUME DumpInv, [Next]_vars
  PROVE  WholeInv'
<1>0. /\ TypeOK /\ PathInv /\ StoredInv
      /\ \A s \in Sides : whole[s] => WholeSide(s)
  BY DEF DumpInv, WholeInv, WholeSide
<1>1. SUFFICES ASSUME NEW s \in Sides, whole'[s]
               PROVE  WholeSide(s)'
  BY DEF WholeInv, WholeSide
<1>2. chosen[s] \in Laps /\ chosen \in [Sides -> Laps]
  BY <1>0 DEF TypeOK
<1>3. ASSUME UNCHANGED <<chosen, got, whole, size, ints, doubles>>,
             stored'[chosen[s]] = stored[chosen[s]] \/ stored'[chosen[s]] = Channels,
             whole[s] => kinds'[chosen[s]] = kinds[chosen[s]]
      PROVE  WholeSide(s)'
  <2>1. WholeSide(s) /\ kinds'[chosen[s]] = kinds[chosen[s]]
    BY <1>0, <1>1, <1>3
  <2>2. QED
    BY <1>3, <2>1 DEF WholeSide, Holds
<1>4. CASE AddTelemetry
  <2>1. PICK l \in Range(chosen), shape \in Shapes :
          kinds[l] = <<>> /\ kinds' = [kinds EXCEPT ![l] = shape]
    BY <1>4, Zenon DEF AddTelemetry
  <2>2. whole[s] => kinds[chosen[s]] # <<>>
    BY <1>0, <1>2, OrdersAre DEF WholeSide, StoredInv
  <2>3. whole[s] => kinds'[chosen[s]] = kinds[chosen[s]]
    BY <1>0, <1>2, <2>1, <2>2 DEF TypeOK
  <2>4. UNCHANGED <<stored, chosen, got, whole, size, ints, doubles>>
    BY <1>4 DEF AddTelemetry, dumpVars
  <2>5. QED
    BY <1>3, <2>3, <2>4
<1>5. CASE StoreChannel
  <2>1. UNCHANGED <<kinds, chosen, got, whole, size, ints, doubles>>
    BY <1>5 DEF StoreChannel, dumpVars
  <2>2. stored[chosen[s]] = Channels
    BY <1>0, <1>1, <2>1 DEF WholeSide
  <2>3. stored'[chosen[s]] = Channels
    <3>1. /\ latest \in Laps /\ next[latest] \in 1 .. 6
          /\ stored \in [Laps -> SUBSET Channels]
      BY <1>0, <1>5, OrdersAre DEF StoreChannel, TypeOK
    <3>2. StoreOrder[next[latest]] \in Channels
      BY <3>1, OrdersAre
    <3>3. \/ stored' = [stored EXCEPT ![latest] = stored[latest] \cup {StoreOrder[next[latest]]}]
          \/ stored' = stored
      BY <1>5, Zenon DEF StoreChannel
    <3>4. Channels \cup {StoreOrder[next[latest]]} = Channels
      BY <3>2
    <3>5. QED
      BY <1>2, <2>2, <3>1, <3>3, <3>4
  <2>4. QED
    BY <1>3, <2>1, <2>3
<1>6. CASE QueryPoints
  <2>1. ~whole'[1] /\ ~whole'[2]
    BY <1>0, <1>6 DEF QueryPoints, PathInv, Querying
  <2>2. QED
    BY <1>1, <2>1 DEF Sides
<1>7. ASSUME NEW side \in Sides, NEW from, NEW to, LoadSide(side, from, to)
      PROVE  WholeSide(s)'
  <2>1. UNCHANGED <<kinds, stored, chosen, size>>
    BY <1>0, <1>7, LoadCases
  <2>2. CASE Loads(side) /\ s = side
    <3> DEFINE lap == chosen[s]
    <3>1. /\ ints'[s] = Filled(ints[s], IntOrder, lap)
          /\ doubles'[s] = Filled(doubles[s], DoubleOrder, lap)
          /\ got'[s] = Len(kinds[lap]) /\ stored[lap] = Channels
          /\ Fits(ints[s], IntOrder, lap)
      BY <1>0, <1>1, <2>2 DEF Loads, TypeOK
    <3>2. /\ kinds[lap] \in Seq(Kinds) /\ size \in Nat
          /\ DOMAIN ints[s] = 0 .. 3 * size - 1 /\ DOMAIN doubles[s] = 0 .. 3 * size - 1
      BY <1>0, LapsAre DEF TypeOK
    <3> HIDE DEF lap
    <3>3. Len(kinds[lap]) <= size
      BY <3>1, <3>2, FitsBound
    <3>4. /\ Holds(Filled(ints[s], IntOrder, lap), IntOrder, lap)
          /\ Holds(Filled(doubles[s], DoubleOrder, lap), DoubleOrder, lap)
      BY <3>1, <3>2, <3>3, FilledHolds
    <3>5. lap = chosen'[s] /\ kinds' = kinds /\ stored' = stored /\ size' = size
      BY <2>1 DEF lap
    <3>6. QED
      BY <3>1, <3>3, <3>4, <3>5 DEF WholeSide, Holds
  <2>3. CASE ~(Loads(side) /\ s = side)
    <3>1. /\ ints'[s] = ints[s] /\ doubles'[s] = doubles[s] /\ whole'[s] = whole[s]
      <4>1. DOMAIN ints = Sides /\ DOMAIN doubles = Sides /\ whole \in [Sides -> BOOLEAN]
        BY <1>0 DEF TypeOK
      <4>2. Loads(side) \/ Overruns(side) \/ Misses
        BY <1>0, <1>7, LoadCases, Zenon
      <4>3. CASE Loads(side)
        <5>1. s # side
          BY <2>3, <4>3
        <5>2. /\ ints' = [ints EXCEPT ![side] = Filled(ints[side], IntOrder, chosen[side])]
              /\ doubles' = [doubles EXCEPT ![side] = Filled(doubles[side], DoubleOrder, chosen[side])]
              /\ whole' = [whole EXCEPT ![side] = stored[chosen[side]] = Channels]
          BY <4>3, Zenon DEF Loads
        <5>3. QED
          BY <4>1, <5>1, <5>2, Zenon
      <4>4. CASE Overruns(side) \/ Misses
        BY <4>4, Zenon DEF Overruns, Misses
      <4>5. QED
        BY <4>2, <4>3, <4>4
    <3>2. got'[s] = got[s]
      <4>1. Overruns(side) => s # side
        BY <1>0, <1>1, <3>1 DEF WholeSide, Overruns, TypeOK
      <4>2. QED
        BY <1>0, <1>7, <2>3, <4>1, LoadCases DEF Loads, Overruns, Misses, TypeOK
    <3>3. WholeSide(s)
      BY <1>0, <1>1, <3>1
    <3>4. QED
      BY <2>1, <3>1, <3>2, <3>3 DEF WholeSide, Holds
  <2>4. QED
    BY <2>2, <2>3
<1>8. CASE LoadFirst \/ LoadSecond
  BY <1>7, <1>8 DEF LoadFirst, LoadSecond, Sides
<1>9. CASE WriteRow \/ ReadOutside \/ CloseFile
  BY <1>3, <1>9 DEF WriteRow, ReadOutside, CloseFile, Advance, dbVars
<1>10. CASE UNCHANGED vars
  BY <1>3, <1>10 DEF vars, dbVars, dumpVars
<1>11. QED
  BY <1>4, <1>5, <1>6, <1>8, <1>9, <1>10 DEF Next, Over

-----------------------------------------------------------------------------
(* The rows of two laps that were loaded whole.                            *)

(* The loop then reads the samples of its point, and no other outcome of a *)
(* comparison is left.                                                     *)
LEMMA SoundValues ==
  ASSUME DumpInv, Sound, dpc = "rows", i < points, NEW s \in Sides
  PROVE  /\ points = size /\ kinds[chosen[s]][i + 1] \in Kinds
         /\ At(ints[s], 0) = Value(chosen[s], "speed", i)
         /\ At(ints[s], 1) = Value(chosen[s], "rpms", i)
         /\ At(ints[s], 2) = Value(chosen[s], "gear", i)
         /\ At(doubles[s], 0) = Value(chosen[s], "brake", i)
         /\ At(doubles[s], 1) = Value(chosen[s], "accel", i)
         /\ At(doubles[s], 2) = Value(chosen[s], "steer", i)
         /\ Is(At(doubles[s], 2), ZeroSteer) = {kinds[chosen[s]][i + 1] \in ZeroSteer}
         /\ Is(At(ints[s], 2), {"neutral"}) = {kinds[chosen[s]][i + 1] = "neutral"}
<1> DEFINE lap == chosen[s]
           n == Len(kinds[lap])
<1>1. TypeOK /\ PathInv /\ WholeInv
  BY DEF DumpInv
<1>2. /\ points = size /\ n = points /\ lap \in Laps /\ kinds[lap] \in Seq(Kinds)
      /\ Holds(ints[s], IntOrder, lap) /\ Holds(doubles[s], DoubleOrder, lap)
  <2>1. \A t \in Sides : got[t] = size /\ whole[t]
    BY DEF Sound
  <2>2. points = size
    BY <1>1, <2>1 DEF PathInv, Sides
  <2>3. QED
    BY <1>1, <2>1, <2>2, LapsAre DEF WholeInv
<1>3. i \in 0 .. n - 1 /\ n \in Nat
  BY <1>1, <1>2 DEF TypeOK
<1>4. kinds[lap][i + 1] \in Kinds
  BY <1>2, <1>3
<1> HIDE DEF n
<1>5. \A place \in 0 .. 2 :
        /\ At(ints[s], place) = Value(lap, IntOrder[place + 1], i)
        /\ At(doubles[s], place) = Value(lap, DoubleOrder[place + 1], i)
  BY <1>2, <1>3 DEF Holds, At, n
<1>6. /\ At(ints[s], 0) = Value(lap, "speed", i)
      /\ At(ints[s], 1) = Value(lap, "rpms", i)
      /\ At(ints[s], 2) = Value(lap, "gear", i)
      /\ At(doubles[s], 0) = Value(lap, "brake", i)
      /\ At(doubles[s], 1) = Value(lap, "accel", i)
      /\ At(doubles[s], 2) = Value(lap, "steer", i)
  BY <1>5 DEF IntOrder, DoubleOrder
<1>7. \A channel : /\ Value(lap, channel, i) # Junk
                  /\ Value(lap, channel, i).lap = lap
                  /\ Value(lap, channel, i).point = i
  BY <1>2 DEF Value, Junk, Laps
<1>8. QED
  BY <1>2, <1>4, <1>6, <1>7 DEF Is

(* The gear a row shows at the point of the loop.                          *)
GearOf(s) ==
  IF kinds[chosen[s]][i + 1] = "neutral" THEN lastgear[s]
  ELSE Value(chosen[s], "gear", i)

(* A point with a steer of 0.00 is left out; any other gives a row.        *)
LEMMA SoundRow ==
  ASSUME DumpInv, Sound, WriteRow
  PROVE  \/ Dropped(i) /\ UNCHANGED <<out, lastgear>>
         \/ /\ ~Dropped(i)
            /\ lastgear' = [s \in Sides |-> GearOf(s)]
            /\ out' = Append(out, [point |-> i, side |-> [s \in Sides |-> RowOf(s, GearOf(s))]])
<1>1. TypeOK /\ dpc = "rows" /\ i < points
  BY DEF DumpInv, WriteRow, Advance
<1>2. PICK zero, neutral \in [Sides -> BOOLEAN] :
        /\ \A s \in Sides :
             /\ zero[s] \in Is(At(doubles[s], 2), ZeroSteer)
             /\ neutral[s] \in Is(At(ints[s], 2), {"neutral"})
        /\ \/ Skipped(zero) /\ UNCHANGED <<out, lastgear>>
           \/ /\ ~Skipped(zero)
              /\ lastgear' = [s \in Sides |-> Shown(s, neutral[s])]
              /\ out' = Append(out, [point |-> i,
                   side |-> [s \in Sides |-> RowOf(s, Shown(s, neutral[s]))]])
  BY <1>1, RowCases, Zenon
<1>3. ASSUME NEW s \in Sides
      PROVE  /\ zero[s] <=> kinds[chosen[s]][i + 1] \in ZeroSteer
             /\ Shown(s, neutral[s]) = GearOf(s)
  <2>1. /\ zero[s] = (kinds[chosen[s]][i + 1] \in ZeroSteer)
        /\ neutral[s] = (kinds[chosen[s]][i + 1] = "neutral")
        /\ At(ints[s], 2) = Value(chosen[s], "gear", i)
    <3>1. /\ Is(At(doubles[s], 2), ZeroSteer) = {kinds[chosen[s]][i + 1] \in ZeroSteer}
          /\ Is(At(ints[s], 2), {"neutral"}) = {kinds[chosen[s]][i + 1] = "neutral"}
          /\ At(ints[s], 2) = Value(chosen[s], "gear", i)
      BY <1>1, SoundValues
    <3>2. /\ zero[s] \in {kinds[chosen[s]][i + 1] \in ZeroSteer}
          /\ neutral[s] \in {kinds[chosen[s]][i + 1] = "neutral"}
      BY <1>2, <3>1, Zenon
    <3>3. QED
      BY <3>1, <3>2, Zenon
  <2>2. QED
    BY <2>1, Zenon DEF Shown, GearOf
<1>4. Skipped(zero) <=> Dropped(i)
  BY <1>3 DEF Skipped, Dropped, Sides
<1>5. /\ [s \in Sides |-> Shown(s, neutral[s])] = [s \in Sides |-> GearOf(s)]
      /\ [s \in Sides |-> RowOf(s, Shown(s, neutral[s]))] = [s \in Sides |-> RowOf(s, GearOf(s))]
  BY <1>3, Zenon
<1>6. QED
  BY <1>2, <1>4, <1>5, Zenon

(* A row that is appended leaves the ones before it and their number.      *)
LEMMA Appended ==
  ASSUME out \in Seq(Range(out)), NEW row, out' = Append(out, row)
  PROVE  /\ out' \in Seq(Range(out'))
         /\ Len(out) \in Nat /\ Len(out') = Len(out) + 1
         /\ DOMAIN out = 1 .. Len(out) /\ DOMAIN out' = 1 .. Len(out) + 1
         /\ \A r \in 1 .. Len(out) : out'[r] = out[r]
         /\ out'[Len(out) + 1] = row
<1> DEFINE S == Range(out) \cup {row}
<1>1. out \in Seq(S)
  BY SeqMonotonic
<1> HIDE DEF S
<1>2. row \in S
  BY DEF S
<1>3. /\ out' \in Seq(S)
      /\ Len(out') = Len(out) + 1
      /\ \A r \in 1 .. Len(out) : out'[r] = out[r]
      /\ out'[Len(out) + 1] = row
  BY <1>1, <1>2, AppendProperties
<1>4. out' \in Seq(Range(out'))
  BY <1>3, SeqOfRange
<1>5. QED
  BY <1>1, <1>3, <1>4

(* A non-empty set of numbers up to n has a greatest one.                  *)
LEMMA GreatestUpTo ==
  ASSUME NEW n \in Nat, NEW S \in SUBSET (1 .. n), S # {}
  PROVE  \E k \in S : \A l \in S : l <= k
<1> DEFINE R == OpToRel(<, Nat)
           T == {n - k : k \in S}
<1>1. T \in SUBSET Nat /\ T # {}
  <2>1. \A k \in S : n - k \in Nat
    BY SMT
  <2>2. QED
    BY <2>1, Zenon
<1>2. \E t \in T : \A u \in T : ~(<<u, t>> \in R)
  <2>1. IsWellFoundedOn(R, Nat)
    BY NatLessThanWellFounded, Zenon
  <2> HIDE DEF R, T
  <2>2. QED
    BY <1>1, <2>1, WFMin, Zenon
<1>3. PICK t \in T : \A u \in T : ~(<<u, t>> \in R)
  BY <1>2, Zenon
<1>4. PICK k \in S : t = n - k
  BY Zenon
<1>5. ASSUME NEW l \in S
      PROVE  l <= k
  <2>1. <<n - l, n - k>> \notin R
    BY <1>3, <1>4, Zenon
  <2>2. ~(n - l < n - k)
    BY <2>1, SMT DEF OpToRel
  <2>3. QED
    BY <2>2, SMT
<1>6. QED
  BY <1>5, Zenon

(* The gear a row should show does not depend on the rows after it.        *)
LEMMA GearKept ==
  ASSUME out \in Seq(Range(out)), UNCHANGED <<kinds, chosen>>,
         NEW r \in 0 .. Len(out), \A q \in 1 .. Len(out) : out'[q] = out[q],
         NEW s \in Sides
  PROVE  GearUpTo(r, s)' = GearUpTo(r, s)
<1> DEFINE driven == {q \in 1 .. r : kinds[chosen[s]][out[q].point + 1] = "driven"}
<1>1. Len(out) \in Nat
  OBVIOUS
<1>2. driven' = driven
  BY <1>1
<1>3. CASE driven = {}
  BY <1>2, <1>3 DEF GearUpTo
<1>4. CASE driven # {}
  <2>1. PICK m \in driven : \A q \in driven : q <= m
    <3>1. driven \in SUBSET (1 .. r) /\ r \in Nat
      BY <1>1
    <3> HIDE DEF driven
    <3>2. QED
      BY <1>4, <3>1, GreatestUpTo
  <2>2. Max(driven) \in driven
    <3>1. \A q \in driven : m >= q
      BY <1>1, <2>1
    <3> HIDE DEF driven
    <3>2. QED
      BY <3>1, Zenon DEF Max
  <2>3. out'[Max(driven)] = out[Max(driven)]
    BY <1>1, <2>2
  <2>4. QED
    BY <1>2, <1>4, <2>3, Zenon DEF GearUpTo
<1>5. QED
  BY <1>3, <1>4

(* A row in gear shows its own gear, any other that of the row before.     *)
LEMMA GearNext ==
  ASSUME out \in Seq(Range(out)), NEW row, out' = Append(out, row),
         UNCHANGED <<kinds, chosen>>, NEW s \in Sides, NEW n, n = Len(out)
  PROVE  GearUpTo(n + 1, s)' =
           IF kinds[chosen[s]][row.point + 1] = "driven"
           THEN Value(chosen[s], "gear", row.point)
           ELSE GearUpTo(n, s)
<1> DEFINE driven == {q \in 1 .. n : kinds[chosen[s]][out[q].point + 1] = "driven"}
           drivennow == {q \in 1 .. n + 1 : kinds[chosen[s]][out'[q].point + 1] = "driven"}
           isdriven == kinds[chosen[s]][row.point + 1] = "driven"
<1>1. /\ n \in Nat /\ out'[n + 1] = row
      /\ \A q \in 1 .. n : out'[q] = out[q]
  BY Appended
<1>2. GearUpTo(n + 1, s)' = IF drivennow = {} THEN NoGear
                            ELSE Value(chosen[s], "gear", out'[Max(drivennow)].point)
  BY Zenon DEF GearUpTo
<1>3. CASE isdriven
  <2>1. n + 1 \in drivennow /\ \A q \in drivennow : n + 1 >= q
    BY <1>1, <1>3
  <2>2. Max(drivennow) = n + 1
    <3>1. drivennow \subseteq Nat
      BY <1>1
    <3> HIDE DEF drivennow
    <3>2. \A x \in drivennow : (\A y \in drivennow : x >= y) => x = n + 1
      BY <1>1, <2>1, <3>1
    <3>3. QED
      BY <2>1, <3>2, Zenon DEF Max
  <2>3. QED
    BY <1>1, <1>2, <1>3, <2>1, <2>2, Zenon
<1>4. CASE ~isdriven
  <2>1. drivennow = driven
    BY <1>1, <1>4
  <2>2. GearUpTo(n, s)' = IF driven' = {} THEN NoGear
                          ELSE Value(chosen[s], "gear", out'[Max(driven')].point)
    BY Zenon DEF GearUpTo
  <2>3. driven' = driven
    BY <1>1
  <2>4. GearUpTo(n, s)' = GearUpTo(n, s)
    BY <1>1, GearKept
  <2>5. QED
    BY <1>2, <1>4, <2>1, <2>2, <2>3, <2>4, Zenon
<1>5. QED
  BY <1>3, <1>4

(* The rows stay right while no row is written and no query answered.      *)
LEMMA SameRows ==
  ASSUME UNCHANGED <<kinds, chosen, size, out, got, whole>>
  PROVE  /\ Sound' <=> Sound
         /\ \A p : Dropped(p)' <=> Dropped(p)
         /\ \A r, s : GearUpTo(r, s)' = GearUpTo(r, s)
         /\ RowsPairTheLaps => RowsPairTheLaps'
         /\ NeutralIsHidden => NeutralIsHidden'
<1>1. Sound' <=> Sound
  BY DEF Sound
<1>2. \A p : Dropped(p)' <=> Dropped(p)
  BY DEF Dropped
<1>3. \A r, s : GearUpTo(r, s)' = GearUpTo(r, s)
  BY Zenon DEF GearUpTo
<1>4. RowsPairTheLaps => RowsPairTheLaps'
  BY <1>1 DEF RowsPairTheLaps
<1>5. NeutralIsHidden => NeutralIsHidden'
  BY <1>1, <1>3, Zenon DEF NeutralIsHidden
<1>6. QED
  BY <1>1, <1>2, <1>3, <1>4, <1>5, Zenon

(* The parts of the invariant that are about the file.                     *)
RowsInv == WrittenInv /\ RowsPairTheLaps /\ NeutralIsHidden

(* The rows, their order and their gears, turn by turn.                    *)
LEMMA WriteRowStep ==
  ASSUME DumpInv, WriteRow
  PROVE  RowsInv'
<1>1. /\ TypeOK /\ out \in Seq(Range(out)) /\ RowsInv
      /\ dpc = "rows" /\ i < points /\ i' = i + 1
      /\ UNCHANGED <<kinds, chosen, size, got, whole>>
  BY DEF DumpInv, WrittenInv, RowsInv, WriteRow, Advance, dbVars
<1>2. Sound' <=> Sound
  BY <1>1 DEF Sound
<1>3. out' \in Seq(Range(out'))
  <2>1. UNCHANGED out \/ \E row : out' = Append(out, row)
    BY <1>1, RowCases, Zenon
  <2>2. QED
    BY <1>1, <2>1, Appended
<1>4. ASSUME Sound, Dropped(i), UNCHANGED <<out, lastgear>>
      PROVE  RowsInv'
  <2>1. {p \in 0 .. i' - 1 : ~Dropped(p)'} = {p \in 0 .. i - 1 : ~Dropped(p)}
    <3>1. \A p : Dropped(p)' <=> Dropped(p)
      BY <1>1 DEF Dropped
    <3>2. i \in Nat
      BY <1>1 DEF TypeOK
    <3>3. \A p : p \in 0 .. i' - 1 <=> p \in 0 .. i - 1 \/ p = i
      BY <1>1, <3>2
    <3>4. QED
      BY <1>4, <3>1, <3>3, Zenon
  <2>2. /\ {out'[r].point : r \in DOMAIN out'} = {p \in 0 .. i' - 1 : ~Dropped(p)'}
        /\ \A s \in Sides : lastgear'[s] = GearUpTo(Len(out), s)'
    BY <1>1, <1>4, <2>1 DEF RowsInv, WrittenInv, GearUpTo
  <2>3. RowsPairTheLaps' /\ NeutralIsHidden'
    BY <1>1, <1>4, SameRows DEF RowsInv
  <2>4. QED
    BY <1>3, <2>2, <2>3 DEF RowsInv, WrittenInv
<1>5. ASSUME Sound, ~Dropped(i), lastgear' = [s \in Sides |-> GearOf(s)],
             out' = Append(out, [point |-> i, side |-> [s \in Sides |-> RowOf(s, GearOf(s))]])
      PROVE  RowsInv'
  <2> DEFINE row == [point |-> i, side |-> [s \in Sides |-> RowOf(s, GearOf(s))]]
  <2>0. row.point = i /\ \A s \in Sides : row.side[s] = RowOf(s, GearOf(s))
    OBVIOUS
  <2>a. out' = Append(out, row)
    BY <1>5
  <2> HIDE DEF row
  <2>1. PICK n : n = Len(out)
    OBVIOUS
  <2>2. /\ n \in Nat /\ Len(out') = n + 1
        /\ DOMAIN out = 1 .. n /\ DOMAIN out' = 1 .. n + 1
        /\ \A r \in 1 .. n : out'[r] = out[r]
        /\ out'[n + 1] = row
    BY <1>1, <2>a, <2>1, Appended
  <2>3. {out'[r].point : r \in DOMAIN out'} = {p \in 0 .. i' - 1 : ~Dropped(p)'}
    <3>1. \A p : Dropped(p)' <=> Dropped(p)
      BY <1>1 DEF Dropped
    <3>2. i \in Nat
      BY <1>1 DEF TypeOK
    <3>3. \A p : p \in 0 .. i' - 1 <=> p \in 0 .. i - 1 \/ p = i
      BY <1>1, <3>2
    <3>4. {out[r].point : r \in 1 .. n} = {p \in 0 .. i - 1 : ~Dropped(p)}
      BY <1>1, <1>5, <2>2 DEF RowsInv, WrittenInv
    <3>5. {out'[r].point : r \in 1 .. n + 1} = {out[r].point : r \in 1 .. n} \cup {i}
      <4>1. \A r : r \in 1 .. n + 1 <=> r \in 1 .. n \/ r = n + 1
        BY <2>2
      <4>2. QED
        BY <2>0, <2>2, <4>1, Zenon
    <3>6. QED
      BY <1>5, <2>2, <3>1, <3>3, <3>4, <3>5, Zenon
  <2>4. \A s \in Sides : /\ GearUpTo(n + 1, s)' = GearOf(s)
                        /\ \A r \in 1 .. n : GearUpTo(r, s)' = GearUpTo(r, s)
    <3>1. TAKE s \in Sides
    <3>2. kinds[chosen[s]][i + 1] \in Kinds \ ZeroSteer
      BY <1>1, <1>5, SoundValues DEF Dropped
    <3>3. GearUpTo(n + 1, s)' =
            IF kinds[chosen[s]][i + 1] = "driven" THEN Value(chosen[s], "gear", i)
            ELSE GearUpTo(n, s)
      BY <1>1, <2>0, <2>a, <2>1, GearNext
    <3>4. lastgear[s] = GearUpTo(n, s)
      BY <1>1, <1>5, <2>1 DEF RowsInv, WrittenInv
    <3>5. GearUpTo(n + 1, s)' = GearOf(s)
      BY <3>2, <3>3, <3>4 DEF GearOf, Kinds, ZeroSteer
    <3>6. \A r \in 0 .. n : GearUpTo(r, s)' = GearUpTo(r, s)
      BY <1>1, <2>1, <2>2, GearKept
    <3>7. QED
      BY <2>2, <3>5, <3>6
  <2>5. \A s \in Sides : lastgear'[s] = GearUpTo(Len(out), s)'
    <3>1. \A s \in Sides : GearUpTo(Len(out), s)' = GearUpTo(n + 1, s)'
      BY <2>2
    <3>2. QED
      BY <1>5, <2>4, <3>1
  <2>6. RowsPairTheLaps'
    <3>1. SUFFICES ASSUME NEW r \in 1 .. n + 1, NEW s \in Sides,
                          NEW channel \in Channels \ {"gear"}
                   PROVE  out'[r].side[s][channel] = Value(chosen[s], channel, out'[r].point)
      BY <1>1, <2>2 DEF RowsPairTheLaps
    <3>2. CASE r \in 1 .. n
      <4>1. out[r].side[s][channel] = Value(chosen[s], channel, out[r].point)
        BY <1>1, <1>5, <2>2, <3>2 DEF RowsInv, RowsPairTheLaps
      <4>2. QED
        BY <2>2, <3>2, <4>1
    <3>3. CASE r = n + 1
      <4>1. /\ At(ints[s], 0) = Value(chosen[s], "speed", i)
            /\ At(ints[s], 1) = Value(chosen[s], "rpms", i)
            /\ At(doubles[s], 0) = Value(chosen[s], "brake", i)
            /\ At(doubles[s], 1) = Value(chosen[s], "accel", i)
            /\ At(doubles[s], 2) = Value(chosen[s], "steer", i)
        BY <1>1, <1>5, SoundValues
      <4>2. out'[r].side[s] = RowOf(s, GearOf(s)) /\ out'[r].point = i
        BY <2>0, <2>2, <3>3
      <4>3. channel \in {"speed", "rpms", "brake", "accel", "steer"}
        BY OrdersAre
      <4>4. RowOf(s, GearOf(s))[channel] = Value(chosen[s], channel, i)
        BY <4>1, <4>3 DEF RowOf
      <4>5. QED
        BY <4>2, <4>4
    <3>4. QED
      BY <2>2, <3>2, <3>3
  <2>7. NeutralIsHidden'
    <3>1. SUFFICES ASSUME NEW r \in 1 .. n + 1, NEW s \in Sides
                   PROVE  out'[r].side[s].gear = GearUpTo(r, s)'
      BY <1>1, <2>2 DEF NeutralIsHidden
    <3>2. CASE r \in 1 .. n
      <4>1. out[r].side[s].gear = GearUpTo(r, s)
        BY <1>1, <1>5, <2>2, <3>2 DEF RowsInv, NeutralIsHidden
      <4>2. QED
        BY <2>2, <2>4, <3>2, <4>1
    <3>3. CASE r = n + 1
      <4>1. out'[r].side[s] = RowOf(s, GearOf(s))
        BY <2>0, <2>2, <3>3
      <4>2. RowOf(s, GearOf(s)).gear = GearOf(s)
        BY DEF RowOf
      <4>3. GearUpTo(r, s)' = GearUpTo(n + 1, s)'
        BY <3>3
      <4>4. GearUpTo(n + 1, s)' = GearOf(s)
        BY <2>4
      <4>5. QED
        BY <4>1, <4>2, <4>3, <4>4, Zenon
    <3>4. QED
      BY <2>2, <3>2, <3>3
  <2>8. QED
    BY <1>3, <2>3, <2>5, <2>6, <2>7 DEF RowsInv, WrittenInv
<1>6. CASE ~Sound
  BY <1>2, <1>3, <1>6 DEF RowsInv, WrittenInv, RowsPairTheLaps, NeutralIsHidden
<1>7. QED
  BY <1>4, <1>5, <1>6, SoundRow

(* The same for every other step: rows are written by WriteRow only, and   *)
(* none is there before the last query.                                    *)
LEMMA RowsStep ==
  ASSUME DumpInv, [Next]_vars
  PROVE  RowsInv'
<1>0. TypeOK /\ PathInv /\ RowsInv
  BY DEF DumpInv, RowsInv
<1>1. ASSUME UNCHANGED out, ~whole'[2]
      PROVE  RowsInv'
  BY <1>0, <1>1 DEF RowsInv, WrittenInv, RowsPairTheLaps, NeutralIsHidden, Sound, Sides
<1>2. CASE AddTelemetry \/ StoreChannel \/ QueryPoints
  BY <1>0, <1>1, <1>2 DEF AddTelemetry, StoreChannel, QueryPoints, PathInv, Querying, dumpVars
<1>3. CASE LoadFirst
  <2>1. /\ dpc = "first" /\ UNCHANGED out
        /\ Loads(1) \/ Overruns(1) \/ Misses
    BY <1>0, <1>3, LoadCases DEF LoadFirst, Sides
  <2>2. whole'[2] = whole[2]
    BY <1>0, <2>1 DEF Loads, Overruns, Misses, TypeOK, Sides
  <2>3. QED
    BY <1>0, <1>1, <2>1, <2>2 DEF PathInv, Querying
<1>4. CASE LoadSecond
  <2>1. dpc = "second" /\ UNCHANGED <<i, lastgear, out>>
    BY <1>0, <1>4, LoadCases DEF LoadSecond, Sides
  <2>2. i' = 0 /\ out' = <<>> /\ \A s \in Sides : lastgear'[s] = NoGear
    BY <1>0, <2>1 DEF PathInv, Querying
  <2>3. \A s \in Sides : GearUpTo(Len(out), s)' = NoGear
    BY <2>2 DEF GearUpTo
  <2>4. /\ out' \in Seq(Range(out'))
        /\ {out'[r].point : r \in DOMAIN out'} = {}
        /\ {p \in 0 .. i' - 1 : ~Dropped(p)'} = {}
    BY <1>0, <2>1, <2>2 DEF RowsInv, WrittenInv
  <2>5. QED
    BY <2>2, <2>3, <2>4 DEF RowsInv, WrittenInv, RowsPairTheLaps, NeutralIsHidden
<1>5. CASE WriteRow
  BY <1>5, WriteRowStep
<1>6. CASE ReadOutside
  <2>1. ~Sound
    <3>1. dpc = "rows" /\ points > size
      BY <1>0, <1>6, OutsideOnlyIfMore DEF ReadOutside, Advance
    <3>2. points \in {size, got[1], got[2]} /\ size \in Nat
      BY <1>0, <3>1 DEF PathInv, TypeOK
    <3>3. QED
      BY <3>1, <3>2 DEF Sound, Sides
  <2>2. UNCHANGED <<got, size, whole, out>>
    BY <1>6 DEF ReadOutside, Advance, Leave
  <2>3. ~Sound'
    BY <2>1, <2>2 DEF Sound
  <2>4. QED
    BY <1>0, <2>2, <2>3 DEF RowsInv, WrittenInv, RowsPairTheLaps, NeutralIsHidden
<1>7. CASE UNCHANGED <<kinds, chosen, size, i, lastgear, out, got, whole>>
  <2>1. RowsPairTheLaps' /\ NeutralIsHidden'
    BY <1>0, <1>7, SameRows DEF RowsInv
  <2>2. {p \in 0 .. i' - 1 : ~Dropped(p)'} = {p \in 0 .. i - 1 : ~Dropped(p)}
    BY <1>7, SameRows, Zenon
  <2>3. \A s \in Sides : GearUpTo(Len(out), s)' = GearUpTo(Len(out), s)
    BY <1>7, SameRows, Zenon DEF GearUpTo
  <2>4. WrittenInv'
    BY <1>0, <1>7, <2>2, <2>3, SameRows DEF RowsInv, WrittenInv
  <2>5. QED
    BY <2>1, <2>4 DEF RowsInv
<1>8. CASE CloseFile \/ UNCHANGED vars
  BY <1>7, <1>8 DEF CloseFile, Leave, vars, dbVars, dumpVars
<1>9. QED
  BY <1>2, <1>3, <1>4, <1>5, <1>6, <1>8 DEF Next, Over

-----------------------------------------------------------------------------
(* DumpInv is an invariant, for laps of every length and shape.            *)
THEOREM DumpInvariant == Spec => []DumpInv
<1>1. Init => DumpInv
  <2> SUFFICES ASSUME Init
               PROVE  DumpInv
    OBVIOUS
  <2>1. TypeOK
    <3>1. /\ \A s \in Sides : /\ DOMAIN Fresh(0) = 0 .. 3 * 0 - 1
                             /\ ints[s] = Fresh(0) /\ doubles[s] = Fresh(0)
          /\ DOMAIN ints = Sides /\ DOMAIN doubles = Sides
      BY DEF Init, Fresh
    <3>2. \A x \in DOMAIN Fresh(0) : Fresh(0)[x].lap = 0
      BY DEF Fresh, Junk, Value
    <3>3. Len(StoreOrder) = 6
      BY OrdersAre
    <3>4. QED
      BY <3>1, <3>2, <3>3, DumpAssumption DEF Init, TypeOK, Laps
  <2>2. out = <<>> /\ i = 0 /\ \A s \in Sides : whole[s] = FALSE
    BY DEF Init
  <2>3. ~Sound
    BY <2>2 DEF Sound, Sides
  <2>4. out \in Seq(Range(out))
    BY <2>2, EmptySeq
  <2>5. StoredInv /\ PathInv /\ StaysInBuffers
    BY <2>2 DEF Init, StoredInv, PathInv, Querying, StaysInBuffers, Sides
  <2>6. WholeInv /\ WrittenInv /\ RowsPairTheLaps /\ NeutralIsHidden
    BY <2>2, <2>3, <2>4 DEF WholeInv, WrittenInv, RowsPairTheLaps, NeutralIsHidden
  <2>7. QED
    BY <2>1, <2>5, <2>6 DEF DumpInv
<1>2. DumpInv /\ [Next]_vars => DumpInv'
  <2> SUFFICES ASSUME DumpInv, [Next]_vars
               PROVE  DumpInv'
    OBVIOUS
  <2>1. TypeOK' /\ StoredInv' /\ PathInv'
    BY TypeStep, StoredStep, PathStep
  <2>2. StaysInBuffers' /\ WholeInv'
    BY StaysStep, WholeStep
  <2>3. WrittenInv' /\ RowsPairTheLaps' /\ NeutralIsHidden'
    BY RowsStep DEF RowsInv
  <2>4. QED
    BY <2>1, <2>2, <2>3 DEF DumpInv
<1>3. QED
  BY <1>1, <1>2, PTL DEF Spec

(* The dump stays in its buffers, in the queries and in the loop, unless a *)
(* lap has more points than the first query found.                         *)
THEOREM BuffersCorrect == Spec => []StaysInBuffers
<1>1. DumpInv => StaysInBuffers
  BY DEF DumpInv
<1>2. QED
  BY <1>1, DumpInvariant, PTL

(* Every row of two laps that were loaded whole shows, under each column   *)
(* but the gear, the samples both laps have at its point.                  *)
THEOREM RowsPairCorrect == Spec => []RowsPairTheLaps
<1>1. DumpInv => RowsPairTheLaps
  BY DEF DumpInv
<1>2. QED
  BY <1>1, DumpInvariant, PTL

(* telemetry.c:238: the file has the points that both laps sampled with    *)
(* the wheel turned, and no other: not those one of them did not sample,   *)
(* nor those where its wheel was exactly straight.                         *)
THEOREM ListsCorrect == Spec => []ListsTurnedPoints
<1>1. DumpInv => ListsTurnedPoints
  <2>1. SUFFICES ASSUME DumpInv, Sound, dpc = "done"
                 PROVE  {out[r].point : r \in DOMAIN out} =
                          {p \in 0 .. points - 1 :
                             \A s \in Sides :
                               kinds[chosen[s]][p + 1] \in {"driven", "neutral"}}
    BY DEF ListsTurnedPoints
  <2>2. i = points /\ {out[r].point : r \in DOMAIN out} = {p \in 0 .. i - 1 : ~Dropped(p)}
    BY <2>1 DEF DumpInv, PathInv, WrittenInv
  <2>3. ASSUME NEW s \in Sides, NEW p \in 0 .. points - 1
        PROVE  kinds[chosen[s]][p + 1] \in Kinds
    <3>1. \A t \in Sides : got[t] = size /\ whole[t]
      BY <2>1 DEF Sound
    <3>2. points = size /\ size \in Nat
      BY <2>1, <3>1 DEF DumpInv, PathInv, TypeOK, Sides
    <3>3. Len(kinds[chosen[s]]) = points /\ kinds[chosen[s]] \in Seq(Kinds)
      BY <2>1, <3>1, <3>2, LapsAre DEF DumpInv, WholeInv
    <3>4. p + 1 \in 1 .. Len(kinds[chosen[s]])
      BY <3>2, <3>3
    <3>5. QED
      BY <3>3, <3>4
  <2>4. \A x \in Kinds : x \notin ZeroSteer <=> x \in {"driven", "neutral"}
    BY DEF Kinds, ZeroSteer
  <2>5. \A p \in 0 .. points - 1 :
          ~Dropped(p) <=> \A s \in Sides : kinds[chosen[s]][p + 1] \in {"driven", "neutral"}
    BY <2>3, <2>4, Zenon DEF Dropped
  <2>6. QED
    BY <2>2, <2>5, Zenon
<1>2. QED
  BY <1>1, DumpInvariant, PTL

(* The shifts into neutral are hidden: a row shows the gear of the last    *)
(* listed point, up to its own, that was not in neutral.                   *)
THEOREM NeutralCorrect == Spec => []NeutralIsHidden
<1>1. DumpInv => NeutralIsHidden
  BY DEF DumpInv
<1>2. QED
  BY <1>1, DumpInvariant, PTL

=============================================================================
