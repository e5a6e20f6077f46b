------------------------------- MODULE HoelDb -------------------------------
(***************************************************************************)
(* The database calls of gameloop/hoeldb.c and gameloop/telemetry.c.       *)
(*                                                                         *)
(* A table is the sequence of its rows, oldest first: every table of       *)
(* data/gilles-psql.sql has a SERIAL key and no row is ever deleted, so a  *)
(* row's key is its position.  There are no variables here: each operator  *)
(* gives the table, or the id, that one call leaves behind.                *)
(***************************************************************************)
EXTENDS Integers, Sequences

(* What an insert returns when h_insert fails.                             *)
NoRow == -1

(* What getLastInsertID returns when lastval() cannot be read: the JSON    *)
(* object is NULL and json_integer_value(NULL) is 0.                       *)
NoId == 0

(* What an insert can meet: it works, h_insert fails, or the row is stored *)
(* and only the read-back of its id fails.                                 *)
InsertAnswers == {"ok", "failed", "id_lost"}

(* Selects and updates only work or fail.                                  *)
CallAnswers == {"ok", "failed"}

(* The table after an insert of "row", and the id the caller gets.         *)
Insert(table, row, answer) ==
  IF answer = "failed" THEN table ELSE Append(table, row)

(* Mutant: lastval() of an earlier insert is taken for the new id.         *)
InsertIdOrLast(table, answer) ==
  CASE answer = "ok"      -> Len(table) + 1
    [] answer = "failed"  -> NoRow
    [] answer = "id_lost" -> Len(table)

InsertId(table, answer) ==
  CASE answer = "ok"      -> Len(table) + 1
    [] answer = "failed"  -> NoRow
    [] answer = "id_lost" -> NoId

(* A select by name (gettrack, getdriver, getcar): one of the rows that    *)
(* carry it, the last of an unordered result, or "none".                   *)
SelectIds(table, name, none) ==
  LET Found == {i \in DOMAIN table : table[i].name = name}
  IN  IF Found = {} THEN {none} ELSE Found

(* UPDATE ... WHERE id = ...: an id that names no row changes nothing and  *)
(* is not an error.                                                        *)
Updates(table, id, answer) == answer = "ok" /\ id \in DOMAIN table

(* The rows, with the columns the properties tell apart.  "run" and        *)
(* "asked" are history columns: the recorder run that inserted the row,    *)
(* and the name the select before the insert looked for.                   *)
NameRow(name, asked) == [name |-> name, asked |-> asked]

EventRow(track) == [track |-> track]

SessionRow(event, car, type, run) ==
  [event |-> event, car |-> car, type |-> type, finished |-> FALSE, run |-> run]

StintRow(session, driver, run) ==
  [session |-> session, driver |-> driver, laps |-> 0, valid |-> 0,
   finished |-> FALSE, run |-> run]

LapRow(stint, run) == [stint |-> stint, finished |-> FALSE, run |-> run]

TelemetryRow(lap, run) == [lap |-> lap, columns |-> {}, run |-> run]

Finish(table, id, answer) ==
  IF Updates(table, id, answer)
  THEN [table EXCEPT ![id].finished = TRUE]
  ELSE table

closesession(table, id, answer) == Finish(table, id, answer)

closelap(table, id, answer) == Finish(table, id, answer)

closestint(table, id, stintlaps, validstintlaps, answer) ==
  IF Updates(table, id, answer)
  THEN [table EXCEPT ![id] = [@ EXCEPT !.laps = stintlaps,
                                       !.valid = validstintlaps,
                                       !.finished = TRUE]]
  ELSE table

(* One UPDATE per channel, in the order updatetelemetrydata issues them.   *)
Channels == <<"steer", "accel", "brake", "rpms", "gear", "speed">>

updatetelemetry(table, id, channel, answer) ==
  IF Updates(table, id, answer)
  THEN [table EXCEPT ![id].columns = @ \cup {channel}]
  ELSE table

(* getsessions joins the sessions with the stints that name them: a        *)
(* session without a stint is not in its result.                           *)
Browsable(session, stints) == \E i \in DOMAIN stints : stints[i].session = session
=============================================================================
