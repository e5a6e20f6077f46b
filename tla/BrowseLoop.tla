----------------------------- MODULE BrowseLoop -----------------------------
(***************************************************************************)
(* "gilles browse": the loop of gameloop/browseloop.c over its three       *)
(* screens, and the queries of gameloop/hoeldb.c behind them.              *)
(*                                                                         *)
(* A turn of the loop loads rows when an action asks for it, draws them,   *)
(* then waits in scanf for one key.  The id that the next screen asks for  *)
(* is remembered when the selected row is drawn, not when the key comes,   *)
(* and a key that moves the selection does not always draw.  Meanwhile the *)
(* recorder of another process adds sessions, stints and laps.             *)
(***************************************************************************)
EXTENDS Integers, SequencesExt

CONSTANTS
  Limit,         \* rows getsessions asks for (25)
  MaxSessions,   \* bounds: rows of the three tables
  MaxStints,
  MaxLaps

ASSUME BrowseAssumption ==
  /\ Limit \in Nat \ {0}
  /\ MaxSessions \in Nat /\ MaxStints \in Nat /\ MaxLaps \in Nat

VARIABLES
  pc,
  \* the loop
  go, screen, action, selection, lastselection,
  rows,            \* sess.rows, stints.rows and lapsdb.rows, as ids
  results,         \* sessions, stintsid and lapsresults
  curresults,
  stint_useid,     \* the session whose stints STINTS_SCREEN asks for
  lap_useid,       \* the stint whose laps LAPS_SCREEN asks for
  marks,           \* selection1 and selection2
  labels,          \* laptimechar1 and laptimechar2: the lap they were made for
  \* the database
  nsessions,       \* sessions are numbered 1..nsessions
  stints, laps,    \* the session of each stint, the stint of each lap
  \* history
  highlight,       \* the row drawn as selected, 0 when none is
  strayed          \* a key was pressed that the code has no check for

SESSIONS_SCREEN == 1
STINTS_SCREEN   == 2
LAPS_SCREEN     == 3
Screens == {SESSIONS_SCREEN, STINTS_SCREEN, LAPS_SCREEN}

KeyNames == {"q", "b", "e", "g", "down", "up", "1", "2", "other"}

db      == <<nsessions, stints, laps>>
lists   == <<rows, results, curresults>>
useids  == <<stint_useid, lap_useid>>
plot    == <<marks, labels>>
vars    == <<pc, go, screen, action, selection, lastselection, lists, useids,
             plot, db, highlight, strayed>>

Init ==
  /\ pc = "connect"
  /\ go = TRUE
  /\ screen = SESSIONS_SCREEN
  /\ action = 2
  /\ selection = 1 /\ lastselection = 1
  /\ rows = [s \in Screens |-> <<>>]
  /\ results = [s \in Screens |-> 0]
  /\ curresults = 0
  /\ stint_useid = 0 /\ lap_useid = 0
  /\ marks = <<0, 0>> /\ labels = <<0, 0>>
  /\ nsessions = 0 /\ stints = <<>> /\ laps = <<>>
  /\ highlight = 0 /\ strayed = FALSE

-----------------------------------------------------------------------------
(* The queries.                                                            *)

(* ORDER BY session_id DESC LIMIT.                                         *)
NewestFirst(sessions) ==
  LET listed == {s \in sessions : Cardinality({t \in sessions : t > s}) < Limit}
  IN  {q \in SetToSeqs(listed) : \A i, j \in DOMAIN q : i < j => q[i] > q[j]}

getsessionsAll == NewestFirst(1 .. nsessions)  \* mutant: a LEFT JOIN on the stints

(* The newest sessions that have a stint.                                  *)
getsessions == NewestFirst({s \in 1 .. nsessions : \E i \in DOMAIN stints : stints[i] = s})

(* No ORDER BY: any order.                                                 *)
Children(table, parent) == SetToSeqs({i \in DOMAIN table : table[i] = parent})

getstints(use_id) == Children(stints, use_id)

getlaps(use_id) == Children(laps, use_id)

(* The three answers an action can ask for.                                *)
Answers(what) ==
  CASE what = SESSIONS_SCREEN -> getsessions
    [] what = STINTS_SCREEN   -> getstints(stint_useid)
    [] what = LAPS_SCREEN     -> getlaps(lap_useid)

-----------------------------------------------------------------------------
(* One turn: load and draw.                                                *)

Connect ==
  /\ pc = "connect"
  /\ pc' \in {"show", "ended"}
  /\ UNCHANGED <<go, screen, action, selection, lastselection, lists, useids,
                 plot, db, highlight, strayed>>

(* Action 2, 3 or 4 loads a list.  A query that fails leaves the old rows; *)
(* the loop goes on to draw and to wait for a key, and then ends.          *)
Load(act) ==
  IF act < 2
  THEN UNCHANGED <<go, lists>>
  ELSE LET what == act - 1 IN
       \/ \E answer \in Answers(what) :
            /\ rows' = [rows EXCEPT ![what] = answer]
            /\ results' = [results EXCEPT ![what] = Len(answer)]
            /\ curresults' = Len(answer)
            /\ UNCHANGED go
       \/ /\ results' = [results EXCEPT ![what] = -1]
          /\ curresults' = IF what = SESSIONS_SCREEN THEN curresults ELSE -1
          /\ go' = FALSE
          /\ UNCHANGED rows

(* The row that is drawn as selected.                                      *)
Drawn == IF selection \in 1 .. results'[screen] THEN rows'[screen][selection] ELSE 0

DrawSessions ==
  /\ stint_useid' = IF Drawn = 0 THEN stint_useid ELSE Drawn
  /\ UNCHANGED <<lap_useid, labels>>

DrawStints ==
  /\ lap_useid' = IF Drawn = 0 THEN lap_useid ELSE Drawn
  /\ UNCHANGED <<stint_useid, labels>>

(* A lap that is both marks only gets the first label.                     *)
DrawLaps ==
  LET drawn == {rows'[LAPS_SCREEN][i] : i \in 1 .. results'[LAPS_SCREEN]} IN
  /\ labels' = <<IF marks[1] \in drawn THEN marks[1] ELSE labels[1],
                 IF marks[2] \in drawn \ {marks[1]} THEN marks[2] ELSE labels[2]>>
  /\ UNCHANGED useids

Draw ==
  CASE screen = SESSIONS_SCREEN -> DrawSessions
    [] screen = STINTS_SCREEN   -> DrawStints
    [] screen = LAPS_SCREEN     -> DrawLaps

(* A selection that has moved replaces the action that was asked for.      *)
Show ==
  LET act == IF lastselection # selection THEN 1 ELSE action IN
  /\ pc = "show"
  /\ pc' = "key"
  /\ lastselection' = selection
  /\ Load(act)
  /\ IF act > 0
     THEN Draw /\ highlight' = Drawn
     ELSE UNCHANGED <<useids, labels, highlight>>
  /\ action' = 0
  /\ UNCHANGED <<screen, selection, marks, db, strayed>>

-----------------------------------------------------------------------------
(* One turn: the key.                                                      *)

(* The keys the loop does not check: a reset of the selection, or a reload *)
(* of the laps, that draws nothing new; a step down an empty list; a mark  *)
(* off the lap screen, on an empty list, or of the lap marked already.     *)
Strays(key) ==
  CASE key = "b"    -> screen = SESSIONS_SCREEN
    [] key = "e"    -> screen = LAPS_SCREEN
    [] key = "g"    -> screen # LAPS_SCREEN
    [] key = "down" -> curresults <= 0
    [] key \in {"1", "2"} ->
         screen # LAPS_SCREEN \/ highlight = 0 \/ highlight \in {marks[1], marks[2]}
    [] OTHER        -> FALSE

Pressed(key) ==
  /\ pc = "key"
  /\ pc' = IF go' THEN "show" ELSE "ended"
  /\ UNCHANGED <<lists, useids, labels, db, highlight>>
  /\ strayed' = (strayed \/ Strays(key))

Quit ==
  /\ go' = FALSE
  /\ Pressed("q")
  /\ UNCHANGED <<screen, action, selection, lastselection, marks>>

(* "b" and "e" change the screen where there is one to go to, and reset    *)
(* the selection everywhere.                                               *)
Go(key, next) ==
  /\ UNCHANGED <<go, marks>>
  /\ Pressed(key)
  /\ selection' = 1 /\ lastselection' = 1
  /\ screen' = next
  /\ action' = IF next = screen THEN action ELSE next + 1

Back == Go("b", IF screen = SESSIONS_SCREEN THEN screen ELSE screen - 1)

Enter == Go("e", IF screen = LAPS_SCREEN THEN screen ELSE screen + 1)

(* "g" plots when two laps are marked; it reloads the laps on any screen.  *)
Plot ==
  /\ UNCHANGED go
  /\ Pressed("g")
  /\ action' = 4
  /\ UNCHANGED <<screen, selection, lastselection, marks>>

Move(key, next) ==
  /\ UNCHANGED go
  /\ Pressed(key)
  /\ selection' = next
  /\ UNCHANGED <<screen, action, lastselection, marks>>

(* Mutant: the end of the list is not checked.                             *)
DownUnbounded == Move("down", selection + 1)

Down == Move("down", IF selection + 1 > curresults THEN curresults ELSE selection + 1)

Up == Move("up", IF selection - 1 <= 1 THEN 1 ELSE selection - 1)

(* The lap of the selected row.  The array is not checked: past its rows,  *)
(* or before it is loaded, what is read is not a lap.                      *)
Junk == -1

(* Mutant: the array is read as if it began at 1.                          *)
LapAfter == IF selection + 1 \in DOMAIN rows[LAPS_SCREEN]
            THEN rows[LAPS_SCREEN][selection + 1] ELSE Junk

LapAt == IF selection \in DOMAIN rows[LAPS_SCREEN]
         THEN rows[LAPS_SCREEN][selection] ELSE Junk

MarkThen(key, n, next) ==
  /\ UNCHANGED go
  /\ Pressed(key)
  /\ marks' = [marks EXCEPT ![n] = LapAt]
  /\ action' = next
  /\ UNCHANGED <<screen, selection, lastselection>>

(* Mutant: a mark is not drawn.                                            *)
MarkUndrawn(key, n) == MarkThen(key, n, 0)

Mark(key, n) == MarkThen(key, n, 1)

MarkFirst == Mark("1", 1)

MarkSecond == Mark("2", 2)

OtherKey ==
  /\ UNCHANGED go
  /\ Pressed("other")
  /\ UNCHANGED <<screen, action, selection, lastselection, marks>>

Key ==
  \/ Quit \/ Back \/ Enter \/ Plot \/ Down \/ Up
  \/ MarkFirst \/ MarkSecond \/ OtherKey

-----------------------------------------------------------------------------
(* A recorder in another process.                                          *)

loop == <<pc, go, screen, action, selection, lastselection, lists, useids,
          plot, highlight, strayed>>

RecordSession ==
  /\ nsessions < MaxSessions
  /\ nsessions' = nsessions + 1
  /\ UNCHANGED <<stints, laps, loop>>

RecordStint ==
  /\ nsessions > 0 /\ Len(stints) < MaxStints
  /\ stints' = Append(stints, nsessions)
  /\ UNCHANGED <<nsessions, laps, loop>>

RecordLap ==
  /\ stints # <<>> /\ Len(laps) < MaxLaps
  /\ laps' = Append(laps, Len(stints))
  /\ UNCHANGED <<nsessions, stints, loop>>

Ended == pc = "ended" /\ UNCHANGED vars

Next ==
  \/ Connect \/ Show \/ Key \/ Ended
  \/ RecordSession \/ RecordStint \/ RecordLap

Spec == Init /\ [][Next]_vars
-----------------------------------------------------------------------------
(* Properties.                                                             *)

(* The values the variables take: a screen and a selection, the lists with *)
(* their numbers of results, the marks for gnuplot, and the tables.        *)
TypeOK ==
  /\ pc \in {"connect", "show", "key", "ended"}
  /\ go \in BOOLEAN /\ strayed \in BOOLEAN
  /\ screen \in Screens /\ action \in 0 .. 4
  /\ selection \in Nat \cup {-1} /\ lastselection \in Nat \cup {-1}
  /\ rows \in [Screens -> Seq(Nat)]
  /\ results \in [Screens -> Nat \cup {-1}] /\ curresults \in Nat \cup {-1}
  /\ stint_useid \in 0 .. nsessions /\ lap_useid \in 0 .. Len(stints)
  /\ marks \in [1 .. 2 -> Nat \cup {Junk}] /\ labels \in [1 .. 2 -> Nat \cup {Junk}]
  /\ highlight \in Nat
  /\ nsessions \in Nat /\ stints \in Seq(Nat) /\ laps \in Seq(Nat)

(* Whatever keys are pressed and whatever is recorded meanwhile, the laps  *)
(* on LAPS_SCREEN are laps of one stint, and that stint is of the session  *)
(* that was opened: an id left over from another session is never used.    *)
(* (It would be after an empty list of stints; the join in getsessions is  *)
(* what keeps sessions without stints out.)                                *)
LapsShownBelong ==
  pc = "key" /\ screen = LAPS_SCREEN =>
    \A i \in 1 .. results[LAPS_SCREEN] :
      LET stint == laps[rows[LAPS_SCREEN][i]] IN
      stint = lap_useid /\ stints[stint] = stint_useid

(* Until one of the unchecked keys is pressed, the row drawn as selected   *)
(* is the selected one whenever the loop waits for a key.                  *)
SelectionIsShown ==
  pc = "key" /\ go /\ ~strayed /\ results[screen] > 0 =>
    selection \in 1 .. results[screen] /\ highlight = rows[screen][selection]

(* A mark is the lap that was shown as selected when "1" or "2" was        *)
(* pressed, and so never something that is not a lap.                      *)
MarksWhatIsShown ==
  [][ ~strayed' => \A n \in 1 .. 2 : marks'[n] # marks[n] => marks'[n] = highlight ]_vars

(* The lap times handed to gnuplot are those of the two marked laps, also  *)
(* when the marks were set on the lap lists of different stints.           *)
LabelsMatchMarks ==
  pc = "key" /\ go /\ ~strayed => labels = marks
=============================================================================
