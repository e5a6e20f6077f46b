---------------------------- MODULE TrackSamples ----------------------------
(***************************************************************************)
(* The sample buffers of simviewmysql (gameloop.c): one slot for each part *)
(* of the track, written at the car's place in every turn; slots that the  *)
(* car passed between two turns are filled, and a new lap gets new buffers.*)
(*                                                                         *)
(* The six buffers are written side by side; one stands for them.  What is *)
(* sampled is the distance the car had driven when the UI thread copied    *)
(* the value out of the game's memory, so that a sample tells where it was *)
(* taken.  The car's place on the track is that distance modulo a lap.     *)
(***************************************************************************)
EXTENDS Integers, FiniteSets

CONSTANTS
  Samples,    \* track_samples
  MaxStride,  \* bound: slots the car passes between two looks at it
  MaxDrive    \* bound: the distance driven in a behaviour

ASSUME SamplesAssumption ==
  Samples \in Nat \ {0} /\ MaxStride \in Nat /\ MaxDrive \in Nat

VARIABLES
  rpc,        \* where the recorder is in its turn
  car,        \* the distance driven
  sim,        \* SimData: for each field, the distance it was copied at
  uncopied,   \* fields the UI thread has yet to copy in this turn
  pos, lastpos, lastlap,
  buffer,     \* a sample for each slot; Empty where calloc's zero is left
  look,       \* history: the distance at the last look, a read of pos
  looks       \* history: that of each look since the buffers were new, with
              \* the one that saw the lap

carVars == <<car, sim, uncopied>>
vars == <<rpc, carVars, pos, lastpos, lastlap, buffer, look, looks>>

Slots  == 0 .. Samples - 1
Fields == {"playerspline", "lap", "channel"}
Empty  == -1
Blank  == [s \in Slots |-> Empty]

PlaceOf(distance) == distance % Samples
LapOf(distance)   == distance \div Samples

(* The set-up: lap is read after the first rows were added, lastpos is 0.  *)
Init ==
  /\ rpc = "pos"
  /\ car \in Slots
  /\ sim = [f \in Fields |-> car]
  /\ uncopied = Fields
  /\ pos = 0 /\ lastpos = 0 /\ lastlap = 0
  /\ buffer = Blank
  /\ look = 0 /\ looks = {}

-----------------------------------------------------------------------------
(* The game and the UI thread.                                             *)

(* A lap takes longer than a turn of the UI thread: no copy is ever a      *)
(* whole lap old.                                                          *)
Drive ==
  \E d \in 1 .. MaxStride :
    /\ car + d <= MaxDrive
    /\ \A f \in Fields : car + d < sim[f] + Samples
    /\ car' = car + d
    /\ UNCHANGED <<rpc, sim, uncopied, pos, lastpos, lastlap, buffer, look, looks>>

(* simdatamap copies field by field, in no order to rely on.               *)
Copy ==
  \E f \in uncopied :
    /\ sim' = [sim EXCEPT ![f] = car]
    /\ uncopied' = IF uncopied = {f} THEN Fields ELSE uncopied \ {f}
    /\ UNCHANGED <<rpc, car, pos, lastpos, lastlap, buffer, look, looks>>

-----------------------------------------------------------------------------
(* A turn of the recorder.                                                 *)

ReadPos ==
  /\ rpc = "pos"
  /\ rpc' = "store"
  /\ pos' = PlaceOf(sim["playerspline"])
  /\ look' = sim["playerspline"]
  /\ looks' = looks \cup {look'}
  /\ UNCHANGED <<carVars, lastpos, lastlap, buffer>>

StoreIfGap(gap) ==
  /\ rpc = "store"
  /\ rpc' = IF gap THEN "fill" ELSE "lap"
  /\ buffer' = [buffer EXCEPT ![pos] = sim["channel"]]
  /\ UNCHANGED <<carVars, pos, lastpos, lastlap, look, looks>>

(* Mutant: a gap of one slot is not filled.                                *)
StoreSampleShort == StoreIfGap(lastpos < pos - 2)

StoreSample == StoreIfGap(lastpos < pos - 1)

FillUpTo(end) ==
  /\ rpc = "fill"
  /\ buffer' = [buffer EXCEPT ![lastpos] = sim["channel"]]
  /\ lastpos' = lastpos + 1
  /\ rpc' = IF lastpos' < end THEN "fill" ELSE "lap"
  /\ UNCHANGED <<carVars, pos, lastlap, look, looks>>

(* Mutant: the loop goes on to the slot of the turn itself.                *)
FillSlotPast == FillUpTo(pos + 1)

(* One turn of the inner loop; SimData is read anew for each slot.         *)
FillSlot == FillUpTo(pos)

EndTurn(freshbuffer) ==
  /\ rpc = "lap"
  /\ rpc' = "pos"
  /\ lastpos' = pos
  /\ lastlap' = LapOf(sim["lap"])
  /\ buffer' = IF lastlap' # lastlap THEN freshbuffer ELSE buffer
  /\ looks' = IF lastlap' # lastlap THEN {look} ELSE looks
  /\ UNCHANGED <<carVars, pos, look>>

(* Mutant: the buffers are used again for the next lap.                    *)
ReadLapKeep == EndTurn(buffer)

(* Once the lap is stored, new buffers replace the old ones.               *)
ReadLap == EndTurn(Blank)

(* program_state is negative: the buffers are stored as they are.          *)
Stop ==
  /\ rpc = "pos"
  /\ rpc' = "stopped"
  /\ UNCHANGED <<carVars, pos, lastpos, lastlap, buffer, look, looks>>

Stopped == rpc = "stopped" /\ UNCHANGED vars

Next ==
  \/ Drive \/ Copy
  \/ ReadPos \/ StoreSample \/ FillSlot \/ ReadLap \/ Stop \/ Stopped

Spec == Init /\ [][Next]_vars

-----------------------------------------------------------------------------
(* Properties.                                                             *)

(* Places, distances and samples; pos and lastpos are slots of the buffer. *)
TypeOK ==
  /\ rpc \in {"pos", "store", "fill", "lap", "stopped"}
  /\ car \in Nat /\ sim \in [Fields -> Nat]
  /\ uncopied \subseteq Fields /\ uncopied # {}
  /\ pos \in Slots /\ lastpos \in Slots /\ lastlap \in Nat
  /\ buffer \in [Slots -> Nat \cup {Empty}]
  /\ look \in Nat /\ looks \subseteq Nat

(* The slot of distance d has a sample, and none of the lap before.        *)
Sampled(d) ==
  buffer[PlaceOf(d)] # Empty /\ d < buffer[PlaceOf(d)] + Samples

(* Of the slots the car passed, those between two looks of one lap have a  *)
(* sample, taken less than a lap before it was there.  That is all: what   *)
(* it passes over the line, up to the first look of the lap, is not filled *)
(* (lastpos > pos), and what it passes up to the look that sees the new    *)
(* lap, with the place of that look, went into the old buffers.            *)
PassedSlotsSampled ==
  rpc \in {"pos", "lap", "stopped"} =>
    \A l, m \in looks :
      LapOf(l) = LapOf(m) => \A d \in l + 1 .. m : Sampled(d)

(* The buffers of a lap hold nothing older than what was copied in the lap *)
(* before it, whatever fields the UI thread had copied when the change of  *)
(* lap was seen.                                                           *)
OldSamplesGone ==
  \A s \in Slots : buffer[s] # Empty => LapOf(buffer[s]) >= lastlap - 1
=============================================================================
