--------------------------- MODULE DisplayProofs ---------------------------
(***************************************************************************)
(* What the display shows, for any number of cars, tables and sizes.       *)
(***************************************************************************)
EXTENDS Display, Sequences, TLAPS

(* c is the first displayed car that holds position p.                     *)
First(c, p) == Holds(c, p) /\ \A d \in 0 .. c - 1 : ~Holds(d, p)

Absent(p) == \A c \in 0 .. displaycars - 1 : ~Holds(c, p)

Drawing == pc \in {"standings", "line", "getch"}

Shows(r) ==
  \/ standings[r] \in {Blank, Border}
  \/ \E c \in Cars : standings[r] = Line(c)
  \/ standings[r] = Junk /\ (Drawing => displaycars = MaxCars /\ \E p \in 1 .. MaxCars : Absent(p))

(* row and the loop's index go together.                                   *)
RowInv ==
  /\ pc = "standings" => row = i + 2
  /\ pc = "line" => row = ihold + 2 /\ ihold < displaycars
  /\ pc = "getch" => row = displaycars + 2

(* The car that was searched for is the one the index stands on.           *)
FoundInv ==
  pc = "line" => \/ i = displaycars /\ Absent(ihold + 1)
                 \/ i < displaycars /\ First(i, ihold + 1)

ShownInv == \A r \in Rows : Shows(r)

(* The lines from row on are blank, those above it show what they should.  *)
LinesInv ==
  /\ pc \in {"clock", "size"} => standings = Empty
  /\ Drawing => \A r \in Rows : r >= row /\ Visible(r) => standings[r] = Blank
  /\ pc \in {"standings", "line"} => \A r \in Rows : r >= row => standings[r] = Blank
  /\ Drawing /\ ~torn =>
       \A r \in 2 .. row - 1, c \in 0 .. displaycars - 1 :
         First(c, r - 1) /\ Visible(r) => standings[r] = Line(c)

ClockInv == clock \in {Blank, Clock(time)}

DisplayInv == TypeOK /\ RowInv /\ FoundInv /\ ShownInv /\ LinesInv /\ ClockInv

-----------------------------------------------------------------------------
(* Arithmetic.                                                             *)

(* The difference of two numbers that are less than c apart.               *)
LEMMA BetweenFacts ==
  ASSUME NEW a \in Nat, NEW b \in Nat, NEW c \in Nat, a <= b, b < a + c + 1
  PROVE  b - a \in 0 .. c
  BY SMT

(* Minutes and seconds of one time fit together.                           *)
LEMMA SecondsFacts ==
  ASSUME NEW t \in Nat, NEW m \in Nat, NEW k \in Nat,
         m * 60000 <= t, t < m * 60000 + 60000, k * 1000 <= t, t < k * 1000 + 1000
  PROVE  k - m * 60 \in 0 .. 59 /\ t - k * 1000 \in 0 .. 999
<1>1. m * 60 <= k /\ k < m * 60 + 60
  BY SMT
<1>2. m * 60 \in Nat /\ k * 1000 \in Nat
  BY SMT
<1>3. k - m * 60 \in 0 .. 59
  BY <1>1, <1>2, BetweenFacts, SMT
<1>4. t - k * 1000 \in 0 .. 999
  BY <1>2, BetweenFacts, SMT
<1>. QED  BY <1>3, <1>4

(* The parts of a lap time make up the time again, each within its range.  *)
LEMMA SplitFacts ==
  ASSUME NEW t \in Nat
  PROVE  PartsOf(t, Split(t))
<1>. DEFINE m == t \div 60000
            k == t \div 1000
<1>1. m \in Nat /\ m * 60000 <= t /\ t < m * 60000 + 60000
  BY SMT
<1>2. k \in Nat /\ k * 1000 <= t /\ t < k * 1000 + 1000
  BY SMT
<1>3. Split(t) = <<m, k - m * 60, t - m * 60000 - (k - m * 60) * 1000>>
  BY DEF Split
<1>. HIDE DEF m, k
<1>4. t - m * 60000 - (k - m * 60) * 1000 = t - k * 1000
  BY <1>1, <1>2, SMT
<1>5. t = m * 60000 + (k - m * 60) * 1000 + (t - k * 1000)
  BY <1>1, <1>2, SMT
<1>6. Split(t)[1] = m /\ Split(t)[2] = k - m * 60 /\ Split(t)[3] = t - k * 1000
  BY <1>3, <1>4, SMT
<1>7. k - m * 60 \in 0 .. 59 /\ t - k * 1000 \in 0 .. 999
  BY <1>1, <1>2, SecondsFacts
<1>. QED  BY <1>1, <1>5, <1>6, <1>7 DEF PartsOf

(* Below 6000 seconds the clock's hour is 0 and its minutes and seconds    *)
(* are those of the time.                                                  *)
LEMMA ClockFacts ==
  ASSUME NEW t \in Nat, t < 6000
  PROVE  Clock(t)[1] = 0 /\ Clock(t)[2] = t \div 60 /\ Clock(t)[3] = t % 60
<1>1. t \div 6000 = 0
  BY SMT
<1>2. /\ t \div 60 - 0 * 6000 = t \div 60
      /\ t - ((t \div 60 - 0 * 6000) * 60 + 0 * 6000) = t % 60
  BY SMT
<1>3. Clock(t) = <<0, t \div 60 - 0 * 6000, t - ((t \div 60 - 0 * 6000) * 60 + 0 * 6000)>>
  BY <1>1 DEF Clock
<1>. QED  BY <1>2, <1>3

(* Empty has all lines, and nothing in them.                               *)
LEMMA EmptyFacts == DOMAIN Empty = Rows /\ \A r \in Rows : Empty[r] = Blank
  BY DEF Empty

(* A line of the table is no blank, border or entry past the end.          *)
LEMMA LineFacts ==
  ASSUME NEW c \in Cars
  PROVE  Line(c) \notin {Blank, Border, Junk}
<1>1. Line(c) = <<cars[c].pos, Split(cars[c].lastlap)>>
  BY DEF Line
<1>2. Len(Line(c)) = 2 /\ Len(Blank) = 0 /\ Len(Border) = 1 /\ Len(Junk) = 1
  BY <1>1, SMT DEF Blank, Border, Junk
<1>. QED  BY <1>2, SMT

(* The constants that lines may show instead differ.                       *)
LEMMA CellFacts == Blank # Border /\ Blank # Junk /\ Border # Junk
<1>1. Len(Blank) = 0 /\ Border[1] = "border" /\ Junk[1] = "junk" /\ Len(Border) = 1 /\ Len(Junk) = 1
  BY SMT DEF Blank, Border, Junk
<1>. QED  BY <1>1, SMT

-----------------------------------------------------------------------------
(* The inductive invariant.                                                *)

(* The first frame has not begun.                                          *)
LEMMA InvInit == Init => DisplayInv
<1>. SUFFICES ASSUME Init PROVE DisplayInv
  OBVIOUS
<1>0. MaxCars \in Nat
  BY DisplayAssumption
<1>1. TypeOK
  <2>1. DOMAIN standings = Rows
    BY EmptyFacts, Zenon DEF Init
  <2>2. torn \in BOOLEAN
    BY Zenon DEF Init
  <2>. QED  BY <1>0, <2>1, <2>2, SMT DEF Init, TypeOK
<1>2. RowInv /\ FoundInv /\ ClockInv
  BY DEF Init, RowInv, FoundInv, ClockInv
<1>3. ShownInv
  BY DEF Init, ShownInv, Shows, Empty
<1>4. LinesInv
  BY DEF Init, LinesInv, Drawing
<1>. QED  BY <1>1, <1>2, <1>3, <1>4 DEF DisplayInv

(* No step leaves the types.                                               *)
LEMMA TypeStep == TypeOK /\ RowInv /\ FoundInv /\ [Next]_vars => TypeOK'
<1>. SUFFICES ASSUME TypeOK, RowInv, FoundInv, [Next]_vars PROVE TypeOK'
  OBVIOUS
<1>0. MaxCars \in Nat
  BY DisplayAssumption
<1>. USE <1>0
<1>1. CASE MapSim
  <2>1. DOMAIN standings' = Rows
    BY <1>1, EmptyFacts, Zenon DEF MapSim, MapThen
  <2>2. torn' \in BOOLEAN
    BY <1>1, Zenon DEF MapSim, MapThen
  <2>. QED  BY <1>1, <2>1, <2>2, SMT DEF MapSim, MapThen, Step, locals, TypeOK
<1>2. CASE DrawClock
  BY <1>2, SMT DEF DrawClock, Step, simdata, locals, TypeOK
<1>3. CASE Fit
  <2>1. size[2] \div 5 \in Nat
    <3>1. size[2] \in Nat
      BY DisplayAssumption, SMT DEF TypeOK
    <3>. QED  BY <3>1, SMT
  <2>2. displaycars' \in 0 .. MaxCars
    BY <1>3, <2>1, SMT DEF Fit, Min2, TypeOK
  <2>. QED  BY <1>3, <2>2, SMT DEF Fit, Step, simdata, screen, TypeOK, Rows
<1>4. CASE Search
  BY <1>4, SMT DEF Search, SearchFor, Step, simdata, screen, TypeOK, RowInv, Rows
<1>5. CASE DrawLine
  <2>1. DOMAIN standings' = Rows
    BY <1>5, SMT DEF DrawLine, DrawLineThen, TypeOK
  <2>. QED  BY <1>5, <2>1, SMT DEF DrawLine, DrawLineThen, Step, simdata, TypeOK, RowInv, Rows
<1>6. CASE Box
  BY <1>6, SMT DEF Box, Step, simdata, locals, TypeOK
<1>7. CASE GetCh
  BY <1>7, SMT DEF GetCh, Step, simdata, screen, TypeOK
<1>8. CASE Resize
  BY <1>8, EmptyFacts, SMT DEF Resize, simdata, locals, TypeOK
<1>9. CASE UNCHANGED vars
  BY <1>9, SMT DEF vars, simdata, locals, screen, TypeOK
<1>. QED  BY <1>1, <1>2, <1>3, <1>4, <1>5, <1>6, <1>7, <1>8, <1>9 DEF Next, Frame

(* row keeps up with the loop, and what was found stays found.             *)
LEMMA RowStep ==
  TypeOK /\ RowInv /\ FoundInv /\ ClockInv /\ [Next]_vars => RowInv' /\ FoundInv' /\ ClockInv'
<1>. SUFFICES ASSUME TypeOK, RowInv, FoundInv, ClockInv, [Next]_vars
              PROVE  RowInv' /\ FoundInv' /\ ClockInv'
  OBVIOUS
<1>0. MaxCars \in Nat
  BY DisplayAssumption
<1>. USE <1>0
<1>1. CASE MapSim
  BY <1>1 DEF MapSim, MapThen, Step, RowInv, FoundInv, ClockInv
<1>2. CASE DrawClock
  <2>1. time' = time /\ clock' = Clock(time)
    BY <1>2 DEF DrawClock, simdata
  <2>. QED  BY <1>2, <2>1 DEF DrawClock, Step, RowInv, FoundInv, ClockInv
<1>3. CASE Fit
  <2>1. ClockInv'
    BY <1>3 DEF Fit, simdata, screen, ClockInv
  <2>. QED  BY <1>3, <2>1, SMT DEF Fit, Step, RowInv, FoundInv
<1>4. CASE Search
  <2>1. ClockInv'
    BY <1>4 DEF Search, SearchFor, simdata, screen, ClockInv
  <2>2. RowInv'
    BY <1>4, SMT DEF Search, SearchFor, Step, RowInv, TypeOK
  <2>3. FoundInv'
    BY <1>4, SMT DEF Search, SearchFor, Step, simdata, FoundInv, First, Absent, Holds, TypeOK
  <2>. QED  BY <2>1, <2>2, <2>3
<1>5. CASE DrawLine
  <2>1. ClockInv'
    BY <1>5 DEF DrawLine, DrawLineThen, simdata, ClockInv
  <2>. QED  BY <1>5, <2>1, SMT DEF DrawLine, DrawLineThen, Step, RowInv, FoundInv, TypeOK
<1>6. CASE Box
  <2>1. ClockInv'
    BY <1>6 DEF Box, simdata, ClockInv
  <2>. QED  BY <1>6, <2>1, SMT DEF Box, Step, locals, RowInv, FoundInv, TypeOK
<1>7. CASE GetCh
  <2>1. ClockInv'
    BY <1>7 DEF GetCh, simdata, screen, ClockInv
  <2>. QED  BY <1>7, <2>1, SMT DEF GetCh, Step, RowInv, FoundInv
<1>8. CASE Resize
  <2>1. FoundInv'
    BY <1>8 DEF Resize, simdata, locals, FoundInv, First, Absent, Holds
  <2>. QED  BY <1>8, <2>1 DEF Resize, simdata, locals, RowInv, ClockInv
<1>9. CASE UNCHANGED vars
  <2>1. FoundInv'
    BY <1>9 DEF vars, simdata, locals, FoundInv, First, Absent, Holds
  <2>. QED  BY <1>9, <2>1 DEF vars, simdata, locals, screen, RowInv, ClockInv
<1>. QED  BY <1>1, <1>2, <1>3, <1>4, <1>5, <1>6, <1>7, <1>8, <1>9 DEF Next, Frame

(* What is shown depends on the window, the table and the cars that fit.   *)
LEMMA ShowsKept ==
  ASSUME NEW r, Shows(r), standings'[r] = standings[r], cars' = cars,
         displaycars' = displaycars, Drawing' => Drawing
  PROVE  Shows(r)'
  BY DEF Shows, Line, Absent, Holds

(* No step shows anything but blanks, borders, cars, and past the table    *)
(* only when a position is nobody's.                                       *)
LEMMA ShownStep ==
  TypeOK /\ RowInv /\ FoundInv /\ ShownInv /\ LinesInv /\ [Next]_vars => ShownInv'
<1>. SUFFICES ASSUME TypeOK, RowInv, FoundInv, ShownInv, LinesInv, [Next]_vars, NEW r \in Rows
              PROVE  Shows(r)'
  BY DEF ShownInv, Rows
<1>0. MaxCars \in Nat /\ Shows(r)
  BY DisplayAssumption DEF ShownInv
<1>1. CASE standings' = Empty
  BY <1>1, EmptyFacts DEF Shows
<1>2. CASE MapSim
  BY <1>1, <1>2 DEF MapSim, MapThen
<1>3. CASE DrawClock
  BY <1>1, <1>3 DEF DrawClock, Step, LinesInv
<1>4. CASE Fit
  BY <1>1, <1>4 DEF Fit, Step, screen, LinesInv
<1>5. CASE Search
  BY <1>0, <1>5, ShowsKept DEF Search, SearchFor, Step, simdata, screen, Drawing
<1>6. CASE DrawLine
  <2>1. cars' = cars /\ displaycars' = displaycars /\ Drawing /\ Drawing'
    BY <1>6, Zenon DEF DrawLine, DrawLineThen, Step, simdata, Drawing
  <2>2. standings' = [standings EXCEPT ![row] = IF row < size[1] THEN Line(i) ELSE Blank]
    BY <1>6 DEF DrawLine, DrawLineThen
  <2>3. CASE r # row
    BY <1>0, <2>1, <2>2, <2>3, ShowsKept DEF TypeOK
  <2>4. CASE r = row
    <3>1. standings'[r] \in {Line(i), Blank}
      BY <2>2, <2>4 DEF TypeOK
    <3>2. CASE i \in Cars
      <4>1. \A c \in Cars : Line(c)' = Line(c)
        BY <2>1 DEF Line
      <4>2. \/ standings'[r] = Blank
            \/ \E c \in Cars : standings'[r] = Line(c)
        BY <3>1, <3>2
      <4>. QED  BY <4>1, <4>2 DEF Shows
    <3>3. CASE i \notin Cars
      <4>1. Line(i) = Junk
        BY <3>3 DEF Line
      <4>2. pc = "line"
        BY <1>6 DEF DrawLine, DrawLineThen, Step
      <4>3. /\ i = displaycars /\ displaycars = MaxCars
            /\ ihold + 1 \in 1 .. MaxCars
        BY <1>0, <3>3, <4>2, SMT DEF TypeOK, RowInv, FoundInv, Cars
      <4>4. Absent(ihold + 1)
        <5>1. ~(i < displaycars)
          BY <1>0, <4>3, SMT
        <5>. QED  BY <4>2, <5>1, Zenon DEF FoundInv
      <4>5. displaycars' = MaxCars /\ \E p \in 1 .. MaxCars : Absent(p)'
        BY <2>1, <4>3, <4>4, Zenon DEF Absent, Holds
      <4>. QED  BY <3>1, <4>1, <4>5 DEF Shows
    <3>. QED  BY <3>2, <3>3
  <2>. QED  BY <2>3, <2>4
<1>7. CASE Box
  <2>1. CASE r = size[1] - 1
    BY <1>7, <2>1 DEF Box, Shows
  <2>2. CASE r # size[1] - 1
    <3>1. standings'[r] = standings[r]
      BY <1>7, <2>2 DEF Box
    <3>. QED  BY <1>0, <1>7, <3>1, ShowsKept DEF Box, Step, simdata, locals, Drawing
  <2>. QED  BY <2>1, <2>2
<1>8. CASE GetCh
  BY <1>0, <1>8 DEF GetCh, Step, simdata, screen, Drawing, Shows, Line
<1>9. CASE Resize
  BY <1>1, <1>9 DEF Resize
<1>10. CASE UNCHANGED vars
  BY <1>0, <1>10, ShowsKept DEF vars, simdata, locals, screen, Drawing
<1>. QED  BY <1>2, <1>3, <1>4, <1>5, <1>6, <1>7, <1>8, <1>9, <1>10 DEF Next, Frame

(* Only one displayed car is the first with a position.                    *)
LEMMA FirstFacts ==
  ASSUME NEW p, NEW c \in Nat, NEW d \in Nat, First(c, p), First(d, p)
  PROVE  c = d
<1>1. ~(c \in 0 .. d - 1) /\ ~(d \in 0 .. c - 1)
  BY Zenon DEF First
<1>. QED  BY <1>1, SMT

(* The lines above row keep what they show, those below stay blank.        *)
LEMMA LinesStep == TypeOK /\ RowInv /\ FoundInv /\ LinesInv /\ [Next]_vars => LinesInv'
<1>. SUFFICES ASSUME TypeOK, RowInv, FoundInv, LinesInv, [Next]_vars PROVE LinesInv'
  OBVIOUS
<1>0. MaxCars \in Nat /\ size[1] \in Nat
  BY DisplayAssumption, SMT DEF TypeOK
<1>1. ASSUME NEW r \in Rows, standings' = Empty PROVE standings'[r] = Blank
  BY <1>1, EmptyFacts
<1>2. CASE MapSim
  BY <1>2, Zenon DEF MapSim, MapThen, Step, LinesInv, Drawing
<1>3. CASE DrawClock
  BY <1>3, Zenon DEF DrawClock, Step, LinesInv, Drawing
<1>4. CASE Fit
  <2>1. standings' = Empty /\ row' = 2 /\ pc' = "standings"
    BY <1>4 DEF Fit, Step, screen, LinesInv
  <2>2. \A r \in Rows : standings'[r] = Blank
    BY <1>1, <2>1
  <2>3. 2 .. row' - 1 = {}
    BY <2>1, SMT
  <2>. QED  BY <2>1, <2>2, <2>3, Zenon DEF LinesInv, Rows
<1>5. CASE Search
  BY <1>5, Zenon DEF Search, SearchFor, Step, simdata, screen, LinesInv, Drawing, First, Holds, Visible, Line, Rows
<1>6. CASE DrawLine
  <2>1. /\ cars' = cars /\ displaycars' = displaycars /\ size' = size /\ torn' = torn
        /\ pc = "line" /\ pc' = "standings" /\ row' = row + 1
        /\ standings' = [standings EXCEPT ![row] = IF row < size[1] THEN Line(i) ELSE Blank]
    BY <1>6, Zenon DEF DrawLine, DrawLineThen, Step, simdata
  <2>2. row \in Rows /\ row \in Nat /\ row = ihold + 2
    BY <2>1, SMT DEF TypeOK, RowInv
  <2>3. \A r \in Rows : r # row => standings'[r] = standings[r]
    BY <2>1 DEF TypeOK
  <2>4. \A r \in Rows : r >= row' => standings'[r] = Blank
    <3>1. \A r \in Rows : r >= row + 1 => r # row /\ r >= row
      BY <1>0, <2>2, SMT DEF Rows
    <3>. QED  BY <2>1, <2>3, <3>1, Zenon DEF LinesInv
  <2>5. ASSUME ~torn, NEW r \in 2 .. row, NEW c \in 0 .. displaycars - 1,
               First(c, r - 1), Visible(r)
        PROVE  standings'[r] = Line(c)
    <3>1. CASE r # row
      <4>1. r \in Rows /\ r \in 2 .. row - 1
        BY <1>0, <2>2, <3>1, SMT DEF Rows
      <4>. QED  BY <2>1, <2>3, <2>5, <3>1, <4>1, Zenon DEF LinesInv, Drawing
    <3>2. CASE r = row
      <4>1. r - 1 = ihold + 1 /\ c \in Nat /\ i \in Nat
        BY <2>2, <3>2, SMT DEF TypeOK
      <4>2. ~Absent(ihold + 1)
        BY <2>5, <4>1 DEF Absent, First
      <4>3. First(i, ihold + 1)
        BY <2>1, <4>2, Zenon DEF FoundInv
      <4>4. c = i
        BY <2>5, <4>1, <4>3, FirstFacts
      <4>5. row < size[1]
        BY <1>0, <2>2, <2>5, <3>2, SMT DEF Visible
      <4>. QED  BY <2>1, <2>2, <3>2, <4>4, <4>5 DEF TypeOK
    <3>. QED  BY <3>1, <3>2
  <2>6. 2 .. row' - 1 = 2 .. row
    BY <2>1, <2>2, SMT
  <2>7. ASSUME ~torn', NEW r \in 2 .. row' - 1, NEW c \in 0 .. displaycars' - 1,
               First(c, r - 1)', Visible(r)'
        PROVE  standings'[r] = Line(c)'
    <3>1. First(c, r - 1) /\ Visible(r) /\ Line(c)' = Line(c) /\ ~torn /\ r \in 2 .. row
      BY <2>1, <2>6, <2>7, Zenon DEF First, Holds, Visible, Line
    <3>2. c \in 0 .. displaycars - 1
      BY <2>1, <2>7
    <3>. QED  BY <2>5, <3>1, <3>2
  <2>. QED  BY <2>1, <2>4, <2>7, Zenon DEF LinesInv, Rows
<1>7. CASE Box
  <2>1. /\ cars' = cars /\ displaycars' = displaycars /\ size' = size /\ torn' = torn
        /\ row' = row /\ pc = "standings" /\ pc' = "getch"
        /\ standings' = [r \in Rows |-> IF r = size[1] - 1 THEN Border ELSE standings[r]]
    BY <1>7, Zenon DEF Box, Step, simdata, locals
  <2>2. \A r \in Rows : Visible(r) => standings'[r] = standings[r]
    BY <1>0, <2>1, SMT DEF Visible, Rows
  <2>3. 2 .. row - 1 \subseteq Rows
    BY <1>0, SMT DEF TypeOK, Rows
  <2>4. ASSUME ~torn', NEW r \in 2 .. row' - 1, NEW c \in 0 .. displaycars' - 1,
               First(c, r - 1)', Visible(r)'
        PROVE  standings'[r] = Line(c)'
    <3>1. First(c, r - 1) /\ Visible(r) /\ Line(c)' = Line(c) /\ ~torn /\ r \in 2 .. row - 1
      BY <2>1, <2>4, Zenon DEF First, Holds, Visible, Line
    <3>2. standings[r] = Line(c)
      BY <2>1, <2>4, <3>1, Zenon DEF LinesInv, Drawing
    <3>. QED  BY <2>2, <2>3, <3>1, <3>2
  <2>5. \A r \in Rows : r >= row' /\ Visible(r)' => standings'[r] = Blank
    BY <2>1, <2>2, Zenon DEF LinesInv, Drawing, Visible
  <2>. QED  BY <2>1, <2>4, <2>5, Zenon DEF LinesInv, Rows
<1>8. CASE GetCh
  BY <1>8, Zenon DEF GetCh, Step, LinesInv, Drawing
<1>9. CASE Resize
  <2>1. standings' = Empty /\ torn' = TRUE
    BY <1>9 DEF Resize
  <2>2. \A r \in Rows : standings'[r] = Blank
    BY <1>1, <2>1
  <2>. QED  BY <2>1, <2>2, Zenon DEF LinesInv, Rows
<1>10. CASE UNCHANGED vars
  BY <1>10, Zenon DEF vars, simdata, locals, screen, LinesInv, Drawing, First, Holds, Visible, Line, Rows
<1>. QED  BY <1>2, <1>3, <1>4, <1>5, <1>6, <1>7, <1>8, <1>9, <1>10 DEF Next, Frame

(* The invariant holds in every reachable state.                           *)
LEMMA InvCorrect == Spec => []DisplayInv
<1>1. DisplayInv /\ [Next]_vars => DisplayInv'
  BY TypeStep, RowStep, ShownStep, LinesStep DEF DisplayInv
<1>. QED  BY InvInit, <1>1, PTL DEF Spec

-----------------------------------------------------------------------------
(* The theorems.                                                           *)

(* The display's variables keep their types: no index passes the cars that *)
(* are displayed, no row the last line.                                    *)
THEOREM TypeCorrect == Spec => []TypeOK
<1>1. DisplayInv => TypeOK
  BY DEF DisplayInv
<1>. QED  BY InvCorrect, <1>1, PTL

(* A frame that no resize tore shows every ranked car on its line.         *)
THEOREM StandingsCorrect == Spec => []StandingsRight
<1>1. DisplayInv => StandingsRight
  <2>. SUFFICES ASSUME DisplayInv, pc = "getch", ~torn, displaycars = numcars, Ranked
                PROVE  /\ \A c \in 0 .. numcars - 1 :
                            Visible(cars[c].pos + 1) => standings[cars[c].pos + 1] = Line(c)
                       /\ \A r \in Rows : r > numcars + 1 /\ Visible(r) => standings[r] = Blank
    BY DEF StandingsRight
  <2>1. row = numcars + 2 /\ numcars \in Nat
    BY SMT DEF DisplayInv, TypeOK, RowInv
  <2>2. \A r \in Rows : r > numcars + 1 /\ Visible(r) => standings[r] = Blank
    <3>1. \A r \in Rows : r > numcars + 1 => r >= row
      BY <2>1, SMT DEF Rows
    <3>. QED  BY <3>1, Zenon DEF DisplayInv, LinesInv, Drawing
  <2>3. ASSUME NEW c \in 0 .. numcars - 1, Visible(cars[c].pos + 1)
        PROVE  standings[cars[c].pos + 1] = Line(c)
    <3>. DEFINE p == cars[c].pos
    <3>1. p \in 1 .. numcars /\ \A d \in 0 .. numcars - 1 : cars[d].pos = p => d = c
      BY Zenon DEF Ranked
    <3>2. \A d \in 0 .. c - 1 : d \in 0 .. numcars - 1 /\ d # c
      BY <2>1, SMT
    <3>3. First(c, p)
      BY <3>1, <3>2, Zenon DEF First, Holds
    <3>. HIDE DEF p
    <3>4. p + 1 \in 2 .. row - 1 /\ (p + 1) - 1 = p
      BY <2>1, <3>1, SMT
    <3>5. First(c, (p + 1) - 1)
      BY <3>3, <3>4, Zenon
    <3>. QED  BY <2>3, <3>4, <3>5, Zenon DEF p, DisplayInv, LinesInv, Drawing
  <2>. QED  BY <2>2, <2>3
<1>. QED  BY InvCorrect, <1>1, PTL

(* cars is read past its end only when a position is nobody's.             *)
THEOREM ReadsCorrect == Spec => []ReadsTheTable
<1>1. DisplayInv => ReadsTheTable
  <2>. SUFFICES ASSUME DisplayInv, Drawing, NEW r \in Rows, standings[r] = Junk
                PROVE  /\ displaycars = MaxCars
                       /\ \E p \in 1 .. MaxCars : \A c \in Cars : ~Holds(c, p)
    BY DEF ReadsTheTable, Drawing
  <2>1. displaycars = MaxCars /\ \E p \in 1 .. MaxCars : Absent(p)
    BY LineFacts, CellFacts DEF DisplayInv, ShownInv, Shows
  <2>. QED  BY <2>1 DEF Absent, Cars
<1>. QED  BY InvCorrect, <1>1, PTL

(* The times on the screen are those of the game.                          *)
THEOREM TimesCorrect == Spec => []TimesRight
<1>1. DisplayInv => LapTimesRight
  <2>. SUFFICES ASSUME DisplayInv, NEW r \in Rows, standings[r] \notin {Blank, Junk, Border}
                PROVE  \E c \in Cars :
                         /\ standings[r][1] = cars[c].pos
                         /\ PartsOf(cars[c].lastlap, standings[r][2])
    BY DEF LapTimesRight
  <2>1. PICK c \in Cars : standings[r] = Line(c)
    BY DEF DisplayInv, ShownInv, Shows
  <2>2. standings[r] = <<cars[c].pos, Split(cars[c].lastlap)>>
    BY <2>1 DEF Line
  <2>3. standings[r][1] = cars[c].pos /\ standings[r][2] = Split(cars[c].lastlap)
    BY <2>2
  <2>4. cars[c].lastlap \in Nat
    <3>1. cars \in [Cars -> Car]
      BY DisplayAssumption DEF DisplayInv, TypeOK
    <3>2. cars[c] \in Car
      BY <3>1
    <3>. QED  BY <3>2 DEF Car
  <2>5. PartsOf(cars[c].lastlap, Split(cars[c].lastlap))
    BY <2>4, SplitFacts
  <2>. QED  BY <2>3, <2>5
<1>2. DisplayInv => ClockRight
  <2>. SUFFICES ASSUME DisplayInv, clock # Blank, time < 6000
                PROVE  clock[1] = 0 /\ clock[2] = time \div 60 /\ clock[3] = time % 60
    BY DEF ClockRight
  <2>1. clock = Clock(time)
    BY DEF DisplayInv, ClockInv
  <2>2. time \in Nat
    BY DisplayAssumption DEF DisplayInv, TypeOK
  <2>. QED  BY <2>1, <2>2, ClockFacts
<1>3. DisplayInv => TimesRight
  BY <1>1, <1>2 DEF TimesRight
<1>. QED  BY InvCorrect, <1>3, PTL
=============================================================================
