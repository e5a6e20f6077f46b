--------------------------- MODULE TelemetryDump ---------------------------
(***************************************************************************)
(* dumptelemetrytofile (telemetry.c): the telemetry of two laps is read    *)
(* from the database into buffers and written to a file, a row for each    *)
(* point of the track, while the recorder of another process may still be  *)
(* storing the telemetry of one of them.                                   *)
(*                                                                         *)
(* A value is the lap, channel and point it was sampled at; of the numbers *)
(* only two things matter, a steer of exactly 0.00 and the neutral gear.   *)
(* The steer of a point is 0.00 where the lap has no sample (a hole), and  *)
(* where it has one with the wheel straight.  A lap's telemetry is the     *)
(* sequence of the kinds of its points and the set of the channels that    *)
(* are stored; an empty sequence is a lap without a row.                   *)
(***************************************************************************)
EXTENDS Integers, Sequences, SequencesExt, FiniteSets

CONSTANTS
  Shapes,     \* the kinds of points a recorded lap may have
  MaxFaults   \* bound: database calls that fail

(* Driven and neutral are sampled with the wheel turned.                   *)
Kinds     == {"driven", "neutral", "straight", "hole"}
ZeroSteer == {"straight", "hole"}

ASSUME DumpAssumption ==
  MaxFaults \in Nat /\ \A s \in Shapes : s # <<>> /\ s \in Seq(Kinds)

VARIABLES
  kinds, stored, next,  \* per lap: its points, its channels, the next one
  latest,               \* the lap the recorder stores
  faults,
  dpc,                  \* where the dump is
  chosen,               \* lap1id, lap2id
  points,               \* the variable points
  size,                 \* points when the buffers were allocated
  ints, doubles,        \* intarrays1, intarrays2; doublearrays1, doublearrays2
  i, lastgear, out,     \* the loop and the rows of the file
  got, whole            \* history: points loaded, and whether of all channels

dbVars   == <<kinds, stored, next, latest>>
dumpVars == <<dpc, chosen, points, size, ints, doubles, i, lastgear, out, got, whole>>
vars     == <<dbVars, faults, dumpVars>>

Laps     == 1 .. 2
Sides    == 1 .. 2     \* the first and the second lap of the dump
IntOrder    == <<"speed", "rpms", "gear">>
DoubleOrder == <<"brake", "accel", "steer">>
StoreOrder  == <<"steer", "accel", "brake", "rpms", "gear", "speed">>
Channels    == Range(StoreOrder)

Value(lap, channel, point) == [lap |-> lap, channel |-> channel, point |-> point]
Junk  == Value(0, "malloc", 0)
NoGear == Value(0, "zero", 0)

(* Mutant: memory for two of the three fields.                             *)
FreshTwo(n) == [x \in 0 .. 2 * n - 1 |-> Junk]

Fresh(n) == [x \in 0 .. 3 * n - 1 |-> Junk]

Init ==
  /\ kinds = [l \in Laps |-> <<>>] /\ stored = [l \in Laps |-> {}]
  /\ next = [l \in Laps |-> 1] /\ latest = 1
  /\ faults = 0
  /\ dpc = "points" /\ chosen \in [Sides -> Laps]
  /\ points = 0 /\ size = 0
  /\ ints = [s \in Sides |-> Fresh(0)] /\ doubles = [s \in Sides |-> Fresh(0)]
  /\ i = 0 /\ lastgear = [s \in Sides |-> NoGear] /\ out = <<>>
  /\ got = [s \in Sides |-> 0] /\ whole = [s \in Sides |-> FALSE]

-----------------------------------------------------------------------------
(* The recorder of another process: a telemetry row, then its channels one *)
(* by one.  It may die and a later one record the next lap.  What the dump *)
(* cannot see is left out: other laps, and all after its last query.       *)

Querying == dpc \in {"points", "first", "second"}

Fail == faults < MaxFaults /\ faults' = faults + 1

AddTelemetry ==
  /\ Querying
  /\ \E l \in Range(chosen), shape \in Shapes :
       /\ l >= latest /\ kinds[l] = <<>>
       /\ kinds' = [kinds EXCEPT ![l] = shape]
       /\ latest' = l
  /\ UNCHANGED <<stored, next, faults, dumpVars>>

(* An UPDATE that fails leaves the column NULL.                            *)
StoreChannel ==
  /\ Querying
  /\ kinds[latest] # <<>> /\ next[latest] <= Len(StoreOrder)
  /\ next' = [next EXCEPT ![latest] = @ + 1]
  /\ \/ /\ stored' = [stored EXCEPT ![latest] = @ \cup {StoreOrder[next[latest]]}]
        /\ UNCHANGED faults
     \/ Fail /\ UNCHANGED stored
  /\ UNCHANGED <<kinds, latest, dumpVars>>

-----------------------------------------------------------------------------
(* The dump: three queries, then the rows.                                 *)

AllocateFor(n) ==
  /\ size' = n
  /\ ints' = [s \in Sides |-> Fresh(n)]
  /\ doubles' = [s \in Sides |-> Fresh(n)]

(* The points of the first lap; without a row or an answer there are none. *)
QueryPoints ==
  /\ dpc = "points"
  /\ dpc' = "first"
  /\ \/ points' = Len(kinds[chosen[1]]) /\ UNCHANGED faults
     \/ points' = 0 /\ Fail
  /\ AllocateFor(points')
  /\ UNCHANGED <<dbVars, chosen, i, lastgear, out, got, whole>>

(* telem_result: the blobs of the row go one behind the other into the     *)
(* buffer; a column that is NULL takes no place.                           *)
Blobs(order, lap) == {k \in DOMAIN order : order[k] \in stored[lap]}

BlobAt(place, order, lap) ==
  CHOOSE k \in Blobs(order, lap) :
    Cardinality({j \in Blobs(order, lap) : j < k}) = place

Filled(memory, order, lap) ==
  LET n == Len(kinds[lap]) IN
  [x \in DOMAIN memory |->
     IF x < n * Cardinality(Blobs(order, lap))
     THEN Value(lap, order[BlobAt(x \div n, order, lap)], x % n)
     ELSE memory[x]]

Fits(memory, order, lap) ==
  Len(kinds[lap]) * Cardinality(Blobs(order, lap)) <= Cardinality(DOMAIN memory)

(* Mutant: the columns are asked for in another order.                     *)
SwappedOrder == <<"accel", "brake", "steer">>

LoadInto(side, lap, doubleorder) ==
  /\ points' = Len(kinds[lap])
  /\ ints' = [ints EXCEPT ![side] = Filled(@, IntOrder, lap)]
  /\ doubles' = [doubles EXCEPT ![side] = Filled(@, doubleorder, lap)]
  /\ got' = [got EXCEPT ![side] = Len(kinds[lap])]
  /\ whole' = [whole EXCEPT ![side] = stored[lap] = Channels]

LoadSwapped(side, lap) == LoadInto(side, lap, SwappedOrder)

Load(side, lap) == LoadInto(side, lap, DoubleOrder)

(* One of the two queries: answered, answered with more than the buffers   *)
(* hold, or failed.                                                        *)
LoadSide(side, from, to) ==
  /\ dpc = from
  /\ LET lap == chosen[side]
         fits == /\ Fits(ints[side], IntOrder, lap)
                 /\ Fits(doubles[side], DoubleOrder, lap) IN
     \/ /\ fits
        /\ Load(side, lap)
        /\ dpc' = to
        /\ UNCHANGED faults
     \/ /\ ~fits
        /\ dpc' = "undefined"
        /\ got' = [got EXCEPT ![side] = Len(kinds[lap])]
        /\ UNCHANGED <<points, ints, doubles, whole, faults>>
     \/ /\ Fail
        /\ dpc' = to
        /\ UNCHANGED <<points, ints, doubles, got, whole>>
  /\ UNCHANGED <<dbVars, chosen, size, i, lastgear, out>>

LoadFirst  == LoadSide(1, "first", "second")
LoadSecond == LoadSide(2, "second", "rows")

(* The buffers at the place of a field.                                    *)
At(memory, place) == memory[i + points * place]

Inside(memory) == i + points * 2 \in DOMAIN memory

(* What the comparison of a gear with 1, or of a steer with 0.00, can say: *)
(* of uninitialized memory either.                                         *)
Is(value, these) ==
  IF value = Junk THEN BOOLEAN ELSE {kinds[value.lap][value.point + 1] \in these}

(* Mutant: a row is left out when both steers are zero.                    *)
SkippedBoth(zero) == zero[1] /\ zero[2]

Skipped(zero) == zero[1] \/ zero[2]

(* hideneutral: the gear of the last row stands for neutral.               *)
Shown(side, neutral) == IF neutral THEN lastgear[side] ELSE At(ints[side], 2)

(* Mutant: what is remembered is the gear of the sample.                   *)
KeptSample(side, gear) == At(ints[side], 2)

Kept(side, gear) == gear

RowOf(side, gear) ==
  [speed |-> At(ints[side], 0), rpms |-> At(ints[side], 1), gear |-> gear,
   brake |-> At(doubles[side], 0), accel |-> At(doubles[side], 1),
   steer |-> At(doubles[side], 2)]

Advance ==
  /\ dpc = "rows" /\ i < points
  /\ i' = i + 1
  /\ UNCHANGED <<dbVars, faults, chosen, points, size, ints, doubles, got, whole>>

Leave(to) == dpc' = to /\ UNCHANGED <<lastgear, out>>

(* A turn of the loop over the points.                                     *)
WriteRow ==
  /\ Advance
  /\ \A s \in Sides : Inside(ints[s]) /\ Inside(doubles[s])
  /\ \E zero1 \in Is(At(doubles[1], 2), ZeroSteer),
        zero2 \in Is(At(doubles[2], 2), ZeroSteer),
        neutral1 \in Is(At(ints[1], 2), {"neutral"}),
        neutral2 \in Is(At(ints[2], 2), {"neutral"}) :
       LET gear == <<Shown(1, neutral1), Shown(2, neutral2)>> IN
       IF Skipped(<<zero1, zero2>>)
       THEN Leave(dpc)
       ELSE /\ out' = Append(out,
                 [point |-> i, side |-> [s \in Sides |-> RowOf(s, gear[s])]])
            /\ lastgear' = [s \in Sides |-> Kept(s, gear[s])]
            /\ UNCHANGED dpc

(* The loop follows the points of the last query, not the buffers.         *)
ReadOutside ==
  /\ Advance
  /\ \E s \in Sides : ~Inside(ints[s]) \/ ~Inside(doubles[s])
  /\ Leave("undefined")

CloseFile ==
  /\ dpc = "rows" /\ i >= points
  /\ Leave("done")
  /\ UNCHANGED <<dbVars, faults, chosen, points, size, ints, doubles, i, got, whole>>

(* The dump has returned, or what happens is undefined.                    *)
Over == dpc \in {"done", "undefined"} /\ UNCHANGED vars

Next ==
  \/ AddTelemetry \/ StoreChannel
  \/ QueryPoints \/ LoadFirst \/ LoadSecond
  \/ WriteRow \/ ReadOutside \/ CloseFile \/ Over

Spec == Init /\ [][Next]_vars

-----------------------------------------------------------------------------
(* Properties.                                                             *)

(* What is stored comes in the order of the updates; the dump holds        *)
(* buffers of one size and values of its two laps, or of malloc.           *)
TypeOK ==
  /\ kinds \in [Laps -> Shapes \cup {<<>>}]
  /\ stored \in [Laps -> SUBSET Channels]
  /\ next \in [Laps -> 1 .. Len(StoreOrder) + 1]
  /\ latest \in Laps /\ faults \in 0 .. MaxFaults
  /\ dpc \in {"points", "first", "second", "rows", "done", "undefined"}
  /\ chosen \in [Sides -> Laps] /\ points \in Nat /\ i \in 0 .. points
  /\ \A s \in Sides :
       /\ DOMAIN ints[s] = 0 .. 3 * size - 1 /\ DOMAIN doubles[s] = 0 .. 3 * size - 1
       /\ \A x \in DOMAIN ints[s] : ints[s][x].lap \in {0, chosen[s]}
       /\ \A x \in DOMAIN doubles[s] : doubles[s][x].lap \in {0, chosen[s]}
  /\ DOMAIN ints = Sides /\ DOMAIN doubles = Sides /\ DOMAIN lastgear = Sides
  /\ got \in [Sides -> Nat] /\ whole \in [Sides -> BOOLEAN]
  /\ size \in Nat /\ Len(out) <= i

(* The buffers hold what is written and read as long as no lap has more    *)
(* points than the first query counted.                                    *)
StaysInBuffers ==
  dpc = "undefined" => \E s \in Sides : got[s] > size

(* Both laps were loaded whole and of the same track.                      *)
Sound == \A s \in Sides : got[s] = size /\ whole[s]

(* The columns of the header (telemetry.c:226) are what their names say: a *)
(* row shows, for both laps, the samples of its point.                     *)
RowsPairTheLaps ==
  Sound => \A r \in DOMAIN out, s \in Sides, channel \in Channels \ {"gear"} :
    out[r].side[s][channel] = Value(chosen[s], channel, out[r].point)

(* A point is in the file when, and only when, both laps sampled it with   *)
(* the wheel turned: telemetry.c:238 leaves out every point that one of    *)
(* the laps did not sample and, with them, those at which one of them has  *)
(* its wheel exactly straight.                                             *)
ListsTurnedPoints ==
  Sound /\ dpc = "done" =>
    {out[r].point : r \in DOMAIN out} =
      {p \in 0 .. points - 1 :
         \A s \in Sides : kinds[chosen[s]][p + 1] \in {"driven", "neutral"}}

(* The gear a row should show: that of the last listed point, up to its    *)
(* own, which is not neutral, and 0 when there is none.                    *)
GearUpTo(r, s) ==
  LET driven == {q \in 1 .. r : kinds[chosen[s]][out[q].point + 1] = "driven"}
  IN IF driven = {} THEN NoGear
     ELSE Value(chosen[s], "gear", out[Max(driven)].point)

(* telemetry.c:228, "too noisey with the shifts into neutral": neutral is  *)
(* hidden behind the gear before it, over skipped points and more neutral. *)
NeutralIsHidden ==
  Sound => \A r \in DOMAIN out, s \in Sides : out[r].side[s].gear = GearUpTo(r, s)
=============================================================================
