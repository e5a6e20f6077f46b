------------------------------ MODULE Display ------------------------------
(***************************************************************************)
(* The standings and the clock that looper draws, frame by frame, while    *)
(* the terminal may change its size at any moment.                         *)
(*                                                                         *)
(* A line of the standings shows a car's position and its last lap, split  *)
(* into minutes, seconds and thousandths.  looper ends by itself or by a   *)
(* key in PlayThreads; here it goes on drawing, which is what PlayThreads  *)
(* takes for granted when it makes a turn of looper a few steps.           *)
(***************************************************************************)
EXTENDS Integers

CONSTANTS
  MaxCars,   \* MAXCARS: the entries of simdata->cars
  Tables,    \* what cars may hold
  Times,     \* what the game's clock may show, in seconds
  Sizes      \* <<lines, columns>> of the standings' window

Cars == 0 .. MaxCars - 1
Car  == [pos : Nat, lastlap : Nat]

ASSUME DisplayAssumption ==
  /\ MaxCars \in Nat
  /\ Tables \subseteq [Cars -> Car]
  /\ Times \subseteq Nat
  /\ Sizes \subseteq Nat \X Nat

VARIABLES
  pc,
  cars, numcars, time,     \* SimData
  size,                    \* of win4
  i, ihold, displaycars, row,
  standings,               \* win4: what each of its lines shows
  clock,                   \* win2: the current time
  torn                     \* history: the windows were replaced in this frame

simdata == <<cars, numcars, time>>
locals  == <<i, ihold, displaycars, row>>
screen  == <<standings, clock>>
vars    == <<pc, simdata, size, locals, screen, torn>>

Blank  == <<>>
Junk   == <<"junk">>     \* an entry read past the end of cars
Border == <<"border">>

Rows  == 2 .. MaxCars + 1
Empty == [r \in Rows |-> Blank]

Init ==
  /\ pc = "map"
  /\ cars \in Tables /\ numcars = 0 /\ time \in Times
  /\ size \in Sizes
  /\ i = 0 /\ ihold = 0 /\ displaycars = 0 /\ row = 2
  /\ standings = Empty /\ clock = Blank
  /\ torn = FALSE

-----------------------------------------------------------------------------
(* How times are written.                                                  *)

SplitNoMinutes(t) ==      \* mutant: the minutes are not taken off the seconds
  LET minutes == t \div 60000
      seconds == t \div 1000
  IN <<minutes, seconds, t - minutes * 60000 - seconds * 1000>>

Split(t) ==
  LET minutes == t \div 60000
      seconds == t \div 1000 - minutes * 60
  IN <<minutes, seconds, t - minutes * 60000 - seconds * 1000>>

(* An hour of 6000 seconds, taken off the minutes as if they were seconds. *)
Clock(t) ==
  LET hours   == t \div 6000
      minutes == t \div 60 - hours * 6000
  IN <<hours, minutes, t - (minutes * 60 + hours * 6000)>>

-----------------------------------------------------------------------------
(* A frame of looper.                                                      *)

Min2(a, b) == IF a < b THEN a ELSE b

Step(from, to) == pc = from /\ pc' = to

(* simdatamap and the four wclear.                                         *)
MapThen(drawn) ==
  /\ Step("map", "clock")
  /\ cars' \in Tables /\ numcars' \in 0 .. MaxCars + 1 /\ time' \in Times
  /\ standings' = drawn /\ clock' = Blank
  /\ torn' = FALSE
  /\ UNCHANGED <<size, locals>>

MapUncleared == MapThen(standings)         \* mutant: no wclear(win4)
MapSim       == MapThen(Empty)

DrawClock ==
  /\ Step("clock", "size")
  /\ clock' = Clock(time)
  /\ UNCHANGED <<simdata, size, locals, standings, torn>>

(* One car for five columns of the window.                                 *)
Fit ==
  /\ Step("size", "standings")
  /\ displaycars' = Min2(Min2(size[2] \div 5, MaxCars), numcars)
  /\ i' = 0 /\ row' = 2
  /\ UNCHANGED <<simdata, size, ihold, screen, torn>>

(* The inner loop uses the outer one's index; ihold keeps it.              *)
Holds(c, p) == cars[c].pos = p

SearchFor(p) ==
  /\ Step("standings", "line")
  /\ i < displaycars
  /\ ihold' = i
  /\ \/ /\ i' \in 0 .. displaycars - 1
        /\ Holds(i', p)
        /\ \A c \in 0 .. i' - 1 : ~Holds(c, p)
     \/ /\ \A c \in 0 .. displaycars - 1 : ~Holds(c, p)
        /\ i' = displaycars
  /\ UNCHANGED <<simdata, size, displaycars, row, screen, torn>>

SearchFromZero == SearchFor(i)             \* mutant: positions start at 0
Search         == SearchFor(i + 1)

Line(c) == IF c \in Cars THEN <<cars[c].pos, Split(cars[c].lastlap)>> ELSE Junk

(* What is written below the window is not shown.                          *)
DrawLineThen(next, below) ==
  /\ Step("line", "standings")
  /\ standings' = [standings EXCEPT ![row] = IF row < size[1] THEN Line(i) ELSE Blank]
  /\ i' = next /\ row' = below
  /\ UNCHANGED <<simdata, size, ihold, displaycars, clock, torn>>

(* Mutants: i = ihold and row++ are missing; a line waits for its car.     *)
DrawLineUnheld == DrawLineThen(i + 1, row)

DrawLineWaits ==
  IF i = displaycars THEN DrawLineThen(ihold, row) ELSE DrawLineThen(ihold + 1, row + 1)

DrawLine == DrawLineThen(ihold + 1, row + 1)

(* box draws over the last line; wrefresh and getch follow.                *)
Box ==
  /\ Step("standings", "getch")
  /\ i >= displaycars
  /\ standings' = [r \in Rows |-> IF r = size[1] - 1 THEN Border ELSE standings[r]]
  /\ UNCHANGED <<simdata, size, locals, clock, torn>>

(* The frame's locals end with it.                                         *)
GetCh ==
  /\ Step("getch", "map")
  /\ i' = 0 /\ ihold' = 0 /\ displaycars' = 0 /\ row' = 2
  /\ UNCHANGED <<simdata, size, screen, torn>>

Frame == MapSim \/ DrawClock \/ Fit \/ Search \/ DrawLine \/ Box \/ GetCh

(* handle_winch: new windows of the new size, with nothing in them.        *)
Resize ==
  /\ size' \in Sizes
  /\ standings' = Empty /\ clock' = Blank
  /\ torn' = TRUE
  /\ UNCHANGED <<pc, simdata, locals>>

Next == Frame \/ Resize

Spec     == Init /\ [][Next]_vars
FairSpec == Spec /\ WF_vars(Frame)

-----------------------------------------------------------------------------
(* Properties.                                                             *)

(* The variables have their types; row never passes the last line that     *)
(* MAXCARS cars can need, and no index passes displaycars.                 *)
TypeOK ==
  /\ pc \in {"map", "clock", "size", "standings", "line", "getch"}
  /\ cars \in Tables /\ numcars \in 0 .. MaxCars + 1 /\ time \in Times
  /\ size \in Sizes
  /\ displaycars \in 0 .. MaxCars
  /\ i \in 0 .. displaycars /\ ihold \in 0 .. MaxCars
  /\ row \in 2 .. MaxCars + 2
  /\ (pc = "line" => row \in Rows)
  /\ DOMAIN standings = Rows
  /\ torn \in BOOLEAN

(* The first numcars entries hold the positions 1 to numcars.              *)
Ranked ==
  \A c \in 0 .. numcars - 1 :
    /\ cars[c].pos \in 1 .. numcars
    /\ \A d \in 0 .. numcars - 1 : cars[d].pos = cars[c].pos => d = c

Visible(r) == r < size[1] - 1

(* The lines of a frame that is done: when all cars fit and are ranked,    *)
(* and the terminal kept its size, the k-th line is the car in position k  *)
(* and every other line that can be seen is blank, whatever the frame      *)
(* before showed (gameloop.c:701-711 and the wclear at 311).               *)
StandingsRight ==
  pc = "getch" /\ ~torn /\ displaycars = numcars /\ Ranked
    => /\ \A c \in 0 .. numcars - 1 :
            Visible(cars[c].pos + 1) => standings[cars[c].pos + 1] = Line(c)
       /\ \A r \in Rows : r > numcars + 1 /\ Visible(r) => standings[r] = Blank

(* cars is read past its end only when the window has room for MAXCARS     *)
(* cars and one of the positions 1 to MAXCARS is nobody's: a shorter       *)
(* list, a narrow window or a full ranking keeps the index in the array    *)
(* (gameloop.c:704).                                                       *)
ReadsTheTable ==
  pc \in {"standings", "line", "getch"} /\ (\E r \in Rows : standings[r] = Junk)
    => /\ displaycars = MaxCars
       /\ \E p \in 1 .. MaxCars : \A c \in Cars : ~Holds(c, p)

(* Minutes, seconds and thousandths that make up t.                        *)
PartsOf(t, parts) ==
  /\ t = parts[1] * 60000 + parts[2] * 1000 + parts[3]
  /\ parts[1] \in Nat /\ parts[2] \in 0 .. 59 /\ parts[3] \in 0 .. 999

(* Whatever line is shown, its minutes, seconds and thousandths make up    *)
(* the last lap of a car in the table (gameloop.c:726-729).                *)
LapTimesRight ==
  \A r \in Rows :
    standings[r] \notin {Blank, Junk, Border} =>
      \E c \in Cars :
        standings[r][1] = cars[c].pos /\ PartsOf(cars[c].lastlap, standings[r][2])

(* Up to 6000 seconds the clock is the time, in the second hour with more  *)
(* than 59 minutes; from there on it is not a time (gameloop.c:593-595).   *)
ClockRight ==
  clock # Blank /\ time < 6000
    => /\ clock[1] = 0
       /\ clock[2] = time \div 60
       /\ clock[3] = time % 60

(* The times on the screen are those of the game, for all that looper      *)
(* splits them by hand.                                                    *)
TimesRight == LapTimesRight /\ ClockRight

(* looper always comes to the next frame, though both loops count with i   *)
(* (gameloop.c:701-764), whatever the table holds and however often the    *)
(* terminal changes.                                                       *)
FramesEnd == []<>(pc = "map")
=============================================================================
