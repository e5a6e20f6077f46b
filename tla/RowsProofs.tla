----------------------------- MODULE RowsProofs -----------------------------
(***************************************************************************)
(* How many rows a run of the recorder leaves, which of them are open, and *)
(* what the closed ones say: theorems for every value of the constants.    *)
(***************************************************************************)
EXTENDS RecorderProofs, FiniteSetTheorems

(* The rows of a table that run n stored, and those that are open.         *)
RowsOf(table, n) == {i \in DOMAIN table : table[i].run = n}

OpenIn(table, n) == {i \in RowsOf(table, n) : ~table[i].finished}

(* Where the run has stored no row of a table, and where none is open.     *)
NoSession == BeforeSession \ Gone
NoStint   == NoSession \cup {"addstint"}
NoLap     == NoStint \cup {"addlap"}

ShutSession == {"s_addsession", "close_db"}
ShutStint   == {"p_addstint", "e_closesession", "close_db"}
ShutLap     == {"l_addtelemetry", "l_update", "l_addlap",
                "e_closestint", "e_closesession", "close_db"}

-----------------------------------------------------------------------------
(* The steps, by what they do to the tables.                               *)

Still == /\ UNCHANGED <<sessions, stints, laps, telemetry, runs>>
         /\ faults' = faults \/ faults' = faults + 1

(* Nothing of the recorder: the simulator, a stop, a stutter.              *)
Aside == Still /\ UNCHANGED <<pc, id, counts, channel, reads>>

(* The end of the thread or of the process.                                *)
Leaves == Still /\ pc' \in Gone

Starts == pc \in Gone /\ pc' = "connect" /\ runs' = runs + 1
          /\ UNCHANGED <<sessions, stints, laps, telemetry, faults>>

(* The set-up before the first session.                                    *)
Prepares == Still /\ pc \in NoSession /\ pc' \in NoSession

(* A lap is counted, as a valid one or not.                                *)
CountsLap ==
  /\ stintlaps' = stintlaps + 1
  /\ \E n \in {0, 1} : validstintlaps' = validstintlaps + n

(* Reads and tests.                                                        *)
Looks ==
  /\ Still /\ id' = id
  /\ pc \in {"enter", "tick", "readpit", "checkpit", "checklap", "tail"}
  /\ pc' \in {"leave", "tick", "s_closestint", "readpit", "checkpit", "p_closestint",
              "checklap", "l_closelap", "tail", "e_addtelemetry"}
  /\ \/ pc # "enter" /\ pc' # "l_closelap" /\ UNCHANGED counts
     \/ pc = "enter" /\ ResetCounts
     \/ pc = "checklap" /\ pc' = "l_closelap" /\ CountsLap

Inserts(answer, froms, tos) ==
  answer \in InsertAnswers /\ Charge(answer) /\ pc \in froms /\ pc' \in tos

Closes(answer, froms, tos) ==
  answer \in CallAnswers /\ Charge(answer) /\ pc \in froms /\ pc' \in tos

InsertsSession(answer) ==
  /\ AddSessionRow(answer)
  /\ \/ Inserts(answer, {"addsession"}, {"addstint"})
     \/ Inserts(answer, {"s_addsession"}, {"readpit"}) /\ ResetCounts

InsertsStint(answer) ==
  /\ AddStintRow(answer)
  /\ \/ Inserts(answer, {"addstint"}, {"addlap"})
     \/ Inserts(answer, {"p_addstint"}, {"checklap"}) /\ ResetCounts

InsertsLap(answer) ==
  /\ AddLapRow(answer)
  /\ \/ Inserts(answer, {"addlap"}, {"enter"})
     \/ Inserts(answer, {"l_addlap"}, {"tail"})

InsertsTelemetry(answer) ==
  /\ AddTelemetryRow(answer)
  /\ \/ Inserts(answer, {"l_addtelemetry"}, {"l_update"})
     \/ Inserts(answer, {"e_addtelemetry"}, {"e_update"})

ClosesSession(answer) ==
  /\ CloseSessionRow(answer)
  /\ UNCHANGED counts \/ ResetCounts
  /\ \/ Closes(answer, {"s_closesession"}, {"s_addsession", "readpit"})
     \/ Closes(answer, {"e_closesession"}, {"close_db"})

ClosesStint(answer) ==
  /\ CloseStintRow(answer)
  /\ \/ Closes(answer, {"s_closestint"}, {"s_closesession"})
     \/ Closes(answer, {"p_closestint"}, {"p_addstint"})
     \/ Closes(answer, {"e_closestint"}, {"e_closesession"})

ClosesLap(answer) ==
  /\ CloseLapRow(answer)
  /\ \/ Closes(answer, {"l_closelap"}, {"l_addtelemetry"})
     \/ Closes(answer, {"e_closelap"}, {"e_closestint"})

Stores == UpdateTelemetry("l_update", "l_addlap") \/ UpdateTelemetry("e_update", "e_closelap")

(* Every step of the specification is one of these.                        *)
LEMMA Moves ==
  ASSUME [Next]_vars
  PROVE  \/ Aside \/ Leaves \/ Starts \/ Prepares \/ Looks \/ Stores
         \/ \E answer : \/ InsertsSession(answer) \/ InsertsStint(answer)
                        \/ InsertsLap(answer) \/ InsertsTelemetry(answer)
                        \/ ClosesSession(answer) \/ ClosesStint(answer) \/ ClosesLap(answer)
<1>1. /\ NoSession = {"connect", "gettrack", "addtrack", "addevent", "getdriver",
                      "adddriver", "getcar", "addcar", "firstpit", "addsession"}
      /\ Gone = {"idle", "dead"}
  BY SMT DEF NoSession, BeforeSession, Gone
<1>2. ASSUME Connect PROVE Leaves \/ Prepares
  BY <1>1, <1>2, SMT DEF Connect, Charge, Leaves, Prepares, Still, db, world
<1>3. ASSUME GetTrack PROVE Leaves \/ Prepares
  BY <1>1, <1>3, SMT DEF GetTrack, Charge, Leaves, Prepares, Still, db, world
<1>4. ASSUME AddTrack PROVE Leaves \/ Prepares
  BY <1>1, <1>4, SMT DEF AddTrack, Charge, Leaves, Prepares, Still, world
<1>5. ASSUME AddEvent PROVE Prepares
  BY <1>1, <1>5, SMT DEF AddEvent, Prepares, Still, Calls, Charge, Goto, Keep, world
<1>6. ASSUME GetDriver PROVE Prepares
  BY <1>1, <1>6, SMT DEF GetDriver, GetName, Prepares, Still, Calls, Charge, Goto, Keep, db, world
<1>7. ASSUME GetCar PROVE Prepares
  BY <1>1, <1>7, SMT DEF GetCar, GetName, Prepares, Still, Calls, Charge, Goto, Keep, db, world
<1>8. ASSUME AddDriver PROVE Prepares
  BY <1>1, <1>8, SMT DEF AddDriver, AddIfMissing, Prepares, Still, Calls, Charge, Goto, Keep, world
<1>9. ASSUME AddCar PROVE Prepares
  BY <1>1, <1>9, SMT DEF AddCar, AddIfMissing, Prepares, Still, Calls, Charge, Goto, Keep, world
<1>10. ASSUME FirstPit PROVE Prepares
  BY <1>1, <1>10, SMT DEF FirstPit, Prepares, Still, Goto, Keep, db, world
<1>11. ASSUME AddSession PROVE \E answer : InsertsSession(answer)
  BY <1>11, SMT DEF AddSession, InsertsSession, Inserts, Calls, Goto
<1>12. ASSUME SessionAdds PROVE \E answer : InsertsSession(answer)
  BY <1>12, SMT DEF SessionAdds, InsertsSession, Inserts, Calls, Goto
<1>13. ASSUME AddStint PROVE \E answer : InsertsStint(answer)
  BY <1>13, SMT DEF AddStint, InsertsStint, Inserts, Calls, Goto
<1>14. ASSUME PitAddsStint PROVE \E answer : InsertsStint(answer)
  BY <1>14, SMT DEF PitAddsStint, InsertsStint, Inserts, Calls, Goto
<1>15. ASSUME AddLap PROVE \E answer : InsertsLap(answer)
  BY <1>15, SMT DEF AddLap, InsertsLap, Inserts, Calls, Goto
<1>16. ASSUME LapAdds PROVE \E answer : InsertsLap(answer)
  BY <1>16, SMT DEF LapAdds, InsertsLap, Inserts, Calls, Goto
<1>17. ASSUME LapAddsTelemetry PROVE \E answer : InsertsTelemetry(answer)
  BY <1>17, SMT DEF LapAddsTelemetry, InsertsTelemetry, Inserts, Calls, Goto
<1>18. ASSUME EndAddsTelemetry PROVE \E answer : InsertsTelemetry(answer)
  BY <1>18, SMT DEF EndAddsTelemetry, InsertsTelemetry, Inserts, Calls, Goto
<1>19. ASSUME SessionCloses PROVE \E answer : ClosesSession(answer)
  BY <1>19, SMT DEF SessionCloses, ClosesSession, Closes, Calls, Goto
<1>20. ASSUME EndClosesSession PROVE \E answer : ClosesSession(answer)
  BY <1>20, SMT DEF EndClosesSession, ClosesSession, Closes, Calls, Goto
<1>21. ASSUME SessionClosesStint PROVE \E answer : ClosesStint(answer)
  BY <1>21, SMT DEF SessionClosesStint, ClosesStint, Closes, Calls, Goto
<1>22. ASSUME PitClosesStint PROVE \E answer : ClosesStint(answer)
  BY <1>22, SMT DEF PitClosesStint, ClosesStint, Closes, Calls, Goto
<1>23. ASSUME EndClosesStint PROVE \E answer : ClosesStint(answer)
  BY <1>23, SMT DEF EndClosesStint, ClosesStint, Closes, Calls, Goto
<1>24. ASSUME LapCloses PROVE \E answer : ClosesLap(answer)
  BY <1>24, SMT DEF LapCloses, ClosesLap, Closes, Calls, Goto
<1>25. ASSUME EndClosesLap PROVE \E answer : ClosesLap(answer)
  BY <1>25, SMT DEF EndClosesLap, ClosesLap, Closes, Calls, Goto
<1>26. ASSUME LapStoresChannel \/ EndStoresChannel PROVE Stores
  BY <1>26, Zenon DEF LapStoresChannel, EndStoresChannel, Stores
<1>27. ASSUME Enter PROVE Looks
  BY <1>27, SMT DEF Looks, Still, Keep, db, world, Enter
<1>28. ASSUME Tick PROVE Looks
  BY <1>28, SMT DEF Looks, Still, Keep, db, world, Tick
<1>29. ASSUME ReadPit PROVE Looks
  BY <1>29, SMT DEF Looks, Still, Goto, Keep, db, world, ReadPit
<1>30. ASSUME CheckPit PROVE Looks
  BY <1>30, SMT DEF Looks, Still, Goto, Keep, db, local, world, CheckPit
<1>31. ASSUME CheckLap PROVE Looks
  <2>1. Still /\ id' = id /\ pc = "checklap"
    BY <1>31, SMT DEF Still, Keep, db, world, CheckLap
  <2>2. CASE seen.lap # last.lap
    <3>1. pc' = "l_closelap" /\ stintlaps' = stintlaps + 1
      BY <1>31, <2>2, SMT DEF CheckLap
    <3>2. validstintlaps' = validstintlaps + (IF validind THEN 1 ELSE 0)
      BY <1>31, <2>2, Zenon DEF CheckLap
    <3>3. CountsLap
      BY <3>1, <3>2, Zenon DEF CountsLap
    <3>. QED BY <2>1, <3>1, <3>3, SMT DEF Looks
  <2>3. CASE ~(seen.lap # last.lap)
    <3>1. pc' = "tail" /\ UNCHANGED counts
      BY <1>31, <2>3, Zenon DEF CheckLap
    <3>. QED BY <2>1, <3>1, SMT DEF Looks
  <2>. QED BY <2>2, <2>3
<1>32. ASSUME EndOfTurn PROVE Looks
  BY <1>32, SMT DEF Looks, Still, Keep, db, world, EndOfTurn
<1>33. ASSUME CloseDb PROVE Leaves
  BY <1>1, <1>33, SMT DEF CloseDb, Leaves, Still, Keep, db, world
<1>34. ASSUME ProcessEnds PROVE Leaves
  BY <1>1, <1>34, SMT DEF ProcessEnds, Leaves, Still, db, world
<1>35. ASSUME StartRun PROVE Starts
  BY <1>1, <1>35, SMT DEF StartRun, Starts, db
<1>36. ASSUME SimWrites PROVE Aside
  BY <1>36, Zenon DEF SimWrites, Aside, Still, db, local
<1>37. ASSUME StopRun PROVE Aside
  BY <1>37, Zenon DEF StopRun, Aside, Still, db, local, world
<1>38. ASSUME UNCHANGED vars PROVE Aside
  BY <1>38, Zenon DEF Aside, Still, vars, db, local, world
<1>. QED
  BY <1>2, <1>3, <1>4, <1>5, <1>6, <1>7, <1>8, <1>9, <1>10, <1>11, <1>12, <1>13, <1>14,
     <1>15, <1>16, <1>17, <1>18, <1>19, <1>20, <1>21, <1>22, <1>23, <1>24, <1>25, <1>26,
     <1>27, <1>28, <1>29, <1>30, <1>31, <1>32, <1>33, <1>34, <1>35, <1>36, <1>37, <1>38,
     Zenon
  DEF Next, RecorderStep, SetUp, Turn, Stop, Finished

-----------------------------------------------------------------------------
(* At most one open row.                                                   *)

(* Of the rows of run n at most one is open, the one that is held, and     *)
(* there is none at "none" and no open one at "shut".                      *)
Slot(table, key, p, n, none, shut) ==
  /\ p \in none => RowsOf(table, n) = {}
  /\ p \in shut => OpenIn(table, n) = {}
  /\ p \notin Gone => OpenIn(table, n) \subseteq {key}
  /\ \A i, j \in OpenIn(table, n) : i = j

(* A step that leaves the table alone.                                     *)
LEMMA SlotMoved ==
  ASSUME NEW table, NEW n, NEW none, NEW shut, NEW key, NEW p, NEW key2, NEW p2,
         Slot(table, key, p, n, none, shut),
         p2 \in none => RowsOf(table, n) = {},
         p2 \in shut => OpenIn(table, n) = {},
         p2 \in Gone \/ (key2 = key /\ p \notin Gone)
  PROVE  Slot(table, key2, p2, n, none, shut)
  BY DEF Slot

(* No row, no open one.                                                    *)
LEMMA SlotEmpty ==
  ASSUME NEW table, NEW n, NEW none, NEW shut, NEW key, NEW p, RowsOf(table, n) = {}
  PROVE  Slot(table, key, p, n, none, shut)
  BY DEF Slot, OpenIn

(* An insert, where none is open.                                          *)
LEMMA SlotAdded ==
  ASSUME NEW S, NEW table \in Seq(S), NEW row, row.finished = FALSE,
         NEW n, NEW none, NEW shut, NEW p2, p2 \notin none, p2 \notin shut,
         OpenIn(table, n) = {}
  PROVE  Slot(Append(table, row), Len(table) + 1, p2, n, none, shut)
<1>1. \A i \in DOMAIN table : Append(table, row)[i] = table[i]
  OBVIOUS
<1>2. \A i \in DOMAIN Append(table, row) : i \in DOMAIN table \/ i = Len(table) + 1
  OBVIOUS
<1>3. OpenIn(Append(table, row), n) \subseteq {Len(table) + 1}
  BY <1>1, <1>2 DEF OpenIn, RowsOf
<1>. QED BY <1>3 DEF Slot

(* A close of the row that is held.                                        *)
LEMMA SlotClosed ==
  ASSUME NEW table, NEW table2, NEW n, NEW none, NEW shut, NEW key, NEW key2, NEW p, NEW p2,
         Slot(table, key, p, n, none, shut), p \notin Gone, p2 \notin none,
         DOMAIN table2 = DOMAIN table,
         \A i \in DOMAIN table : i # key => table2[i] = table[i],
         key \in DOMAIN table => table2[key].finished
  PROVE  Slot(table2, key2, p2, n, none, shut)
<1>1. OpenIn(table2, n) = {}
  BY DEF Slot, OpenIn, RowsOf
<1>. QED BY <1>1 DEF Slot

(* What the three tables of a run hold while no call fails.                *)
Slots ==
  /\ Slot(sessions, id.session, pc, runs, NoSession, ShutSession)
  /\ Slot(stints, id.stint, pc, runs, NoStint, ShutStint)
  /\ Slot(laps, id.lap, pc, runs, NoLap, ShutLap)

(* No row is of a run that has not started.                                *)
Past(table) == \A i \in DOMAIN table : table[i].run <= runs

RowsInv ==
  /\ Past(sessions) /\ Past(stints) /\ Past(laps)
  /\ faults = 0 => Slots

(* The rows the calls store: of this run, and open.                        *)
LEMMA NewRows ==
  ASSUME TypeOK
  PROVE  /\ SessionRow(id.event, id.car, sim.session, runs) \in SessionRows
         /\ SessionRow(id.event, id.car, sim.session, runs).run = runs
         /\ SessionRow(id.event, id.car, sim.session, runs).finished = FALSE
         /\ StintRow(id.session, id.driver, runs) \in StintRows
         /\ StintRow(id.session, id.driver, runs).run = runs
         /\ StintRow(id.session, id.driver, runs).finished = FALSE
         /\ LapRow(id.stint, runs) \in LapRows
         /\ LapRow(id.stint, runs).run = runs
         /\ LapRow(id.stint, runs).finished = FALSE
<1>1. \A t \in {"event", "car", "session", "driver", "stint"} : id[t] \in Ids
  BY NameFacts DEF TypeOK, ThreadTypes
<1>2. runs \in Nat /\ sim.session \in SessionTypes
  BY CountFacts DEF TypeOK, WorldTypes, SimRecords
<1>. QED BY <1>1, <1>2 DEF SessionRow, SessionRows, StintRow, StintRows, LapRow, LapRows

(* What the calls do to the ids.                                           *)
LEMMA NewIds ==
  ASSUME TypeOK, NEW answer \in InsertAnswers
  PROVE  /\ AddSessionRow(answer) =>
              /\ id'.session = InsertId(sessions, answer)
              /\ id'.stint = id.stint /\ id'.lap = id.lap
         /\ AddStintRow(answer) =>
              /\ id'.stint = InsertId(stints, answer)
              /\ id'.session = id.session /\ id'.lap = id.lap
         /\ AddLapRow(answer) =>
              /\ id'.lap = InsertId(laps, answer)
              /\ id'.session = id.session /\ id'.stint = id.stint
         /\ AddTelemetryRow(answer) =>
              /\ id'.telemetry = InsertId(telemetry, answer)
              /\ id'.session = id.session /\ id'.stint = id.stint /\ id'.lap = id.lap
  BY NameFacts DEF TypeOK, ThreadTypes, AddSessionRow, AddStintRow, AddLapRow, AddTelemetryRow

(* A call that worked when none has failed.                                *)
LEMMA Worked ==
  ASSUME TypeOK, NEW answer, Charge(answer), faults' = 0
  PROVE  faults = 0 /\ answer = "ok"
  BY ChargeFacts, CountFacts

(* What an insert that works does.                                         *)
LEMMA OkInsert ==
  ASSUME NEW table, NEW row
  PROVE  /\ Insert(table, row, "ok") = Append(table, row)
         /\ InsertId(table, "ok") = Len(table) + 1
  BY DEF Insert, InsertId

(* No row is of a later run.                                               *)
LEMMA PastInsert ==
  ASSUME TypeOK, NEW S, NEW table \in Seq(S), NEW row \in S, row.run = runs,
         NEW answer \in InsertAnswers, Past(table)
  PROVE  \A i \in DOMAIN Insert(table, row, answer) :
           Insert(table, row, answer)[i].run <= runs
  BY InsertFacts, CountFacts DEF Past

(* Every step keeps it so.                                                 *)
LEMMA PastStep ==
  ASSUME TypeOK, TypeOK', [Next]_vars, Past(sessions), Past(stints), Past(laps)
  PROVE  Past(sessions)' /\ Past(stints)' /\ Past(laps)'
<1>1. ASSUME UNCHANGED <<sessions, stints, laps>>, runs' = runs \/ runs' = runs + 1
      PROVE  Past(sessions)' /\ Past(stints)' /\ Past(laps)'
  <2>1. runs <= runs' /\ runs \in Nat /\ runs' \in Nat
    BY <1>1, CountFacts
  <2>2. /\ \A i \in DOMAIN sessions : sessions[i].run \in Nat
        /\ \A i \in DOMAIN stints : stints[i].run \in Nat
        /\ \A i \in DOMAIN laps : laps[i].run \in Nat
    <3>1. \A i \in DOMAIN sessions : sessions[i] \in SessionRows
      BY RowFacts DEF TypeOK, TableTypes
    <3>2. \A i \in DOMAIN stints : stints[i] \in StintRows
      BY RowFacts DEF TypeOK, TableTypes
    <3>3. \A i \in DOMAIN laps : laps[i] \in LapRows
      BY RowFacts DEF TypeOK, TableTypes
    <3>. QED BY <3>1, <3>2, <3>3 DEF SessionRows, StintRows, LapRows
  <2>. QED BY <1>1, <2>1, <2>2 DEF Past
<1>2. ASSUME NEW answer, InsertsSession(answer)
      PROVE  Past(sessions)' /\ Past(stints)' /\ Past(laps)'
  <2>1. /\ answer \in InsertAnswers /\ runs' = runs /\ stints' = stints /\ laps' = laps
        /\ sessions' = Insert(sessions, SessionRow(id.event, id.car, sim.session, runs), answer)
    BY <1>2 DEF InsertsSession, Inserts, AddSessionRow, Keep, world
  <2>. QED BY <2>1, NewRows, PastInsert DEF Past, TypeOK, TableTypes
<1>3. ASSUME NEW answer, InsertsStint(answer)
      PROVE  Past(sessions)' /\ Past(stints)' /\ Past(laps)'
  <2>1. /\ answer \in InsertAnswers /\ runs' = runs /\ sessions' = sessions /\ laps' = laps
        /\ stints' = Insert(stints, StintRow(id.session, id.driver, runs), answer)
    BY <1>3 DEF InsertsStint, Inserts, AddStintRow, Keep, world
  <2>. QED BY <2>1, NewRows, PastInsert DEF Past, TypeOK, TableTypes
<1>4. ASSUME NEW answer, InsertsLap(answer)
      PROVE  Past(sessions)' /\ Past(stints)' /\ Past(laps)'
  <2>1. /\ answer \in InsertAnswers /\ runs' = runs /\ sessions' = sessions /\ stints' = stints
        /\ laps' = Insert(laps, LapRow(id.stint, runs), answer)
    BY <1>4 DEF InsertsLap, Inserts, AddLapRow, Keep, world
  <2>. QED BY <2>1, NewRows, PastInsert DEF Past, TypeOK, TableTypes
<1>5. ASSUME NEW answer, ClosesSession(answer)
      PROVE  Past(sessions)' /\ Past(stints)' /\ Past(laps)'
  <2>1. /\ answer \in CallAnswers /\ runs' = runs /\ stints' = stints /\ laps' = laps
        /\ CloseSessionRow(answer)
    BY <1>5 DEF ClosesSession, Closes, CloseSessionRow, Keep, world
  <2>2. id.session \in Ids
    BY NameFacts DEF TypeOK, ThreadTypes
  <2>3. sessions' = closesession(sessions, id.session, answer)
    BY <2>1 DEF CloseSessionRow
  <2>4. /\ DOMAIN sessions' = DOMAIN sessions
        /\ \A i \in DOMAIN sessions : sessions'[i].run = sessions[i].run
    BY <2>2, <2>3, CloseSessionFacts DEF TypeOK, TableTypes
  <2>. QED BY <2>1, <2>4 DEF Past
<1>6. ASSUME NEW answer, ClosesStint(answer)
      PROVE  Past(sessions)' /\ Past(stints)' /\ Past(laps)'
  <2>1. /\ answer \in CallAnswers /\ runs' = runs /\ sessions' = sessions /\ laps' = laps
        /\ CloseStintRow(answer)
    BY <1>6 DEF ClosesStint, Closes, CloseStintRow, Keep, world
  <2>. QED BY <2>1, CloseEffect DEF Past, Grows
<1>7. ASSUME NEW answer, ClosesLap(answer)
      PROVE  Past(sessions)' /\ Past(stints)' /\ Past(laps)'
  <2>1. /\ answer \in CallAnswers /\ runs' = runs /\ sessions' = sessions /\ stints' = stints
        /\ CloseLapRow(answer)
    BY <1>7 DEF ClosesLap, Closes, CloseLapRow, Keep, world
  <2>. QED BY <2>1, CloseEffect DEF Past, Grows
<1>8. ASSUME NEW answer, InsertsTelemetry(answer)
      PROVE  UNCHANGED <<sessions, stints, laps>> /\ runs' = runs
  BY <1>8 DEF InsertsTelemetry, AddTelemetryRow, Keep, world
<1>9. ASSUME Stores PROVE UNCHANGED <<sessions, stints, laps>> /\ runs' = runs
  BY <1>9 DEF Stores, UpdateTelemetry, Keep, world
<1>10. ASSUME Aside \/ Leaves \/ Starts \/ Prepares \/ Looks
       PROVE  UNCHANGED <<sessions, stints, laps>> /\ (runs' = runs \/ runs' = runs + 1)
  BY <1>10, Zenon DEF Aside, Leaves, Starts, Prepares, Looks, Still
<1>. QED BY <1>1, <1>2, <1>3, <1>4, <1>5, <1>6, <1>7, <1>8, <1>9, <1>10, Moves, Zenon

(* A step that counts no fault up follows one that counted none.           *)
LEMMA FaultFree ==
  ASSUME TypeOK, [Next]_vars, faults' = 0
  PROVE  faults = 0
<1>1. ASSUME NEW answer, Charge(answer) PROVE faults = 0
  BY <1>1, Worked
<1>2. ASSUME faults' = faults \/ faults' = faults + 1 PROVE faults = 0
  BY <1>2, CountFacts
<1>3. ASSUME Stores PROVE faults = 0
  BY <1>3, <1>1, Zenon DEF Stores, UpdateTelemetry
<1>4. ASSUME Aside \/ Leaves \/ Starts \/ Prepares \/ Looks PROVE faults = 0
  BY <1>4, <1>2, Zenon DEF Aside, Leaves, Starts, Prepares, Looks, Still
<1>5. ASSUME NEW answer,
             \/ InsertsSession(answer) \/ InsertsStint(answer)
             \/ InsertsLap(answer) \/ InsertsTelemetry(answer)
             \/ ClosesSession(answer) \/ ClosesStint(answer) \/ ClosesLap(answer)
      PROVE  Charge(answer)
  BY <1>5, Zenon DEF InsertsSession, InsertsStint, InsertsLap, InsertsTelemetry,
     ClosesSession, ClosesStint, ClosesLap, Inserts, Closes
<1>. QED BY <1>1, <1>3, <1>4, <1>5, Moves, Zenon

(* Where the steps lead, in terms of what a run has stored.                *)
LEMMA StillSlots ==
  ASSUME UNCHANGED <<sessions, stints, laps, runs>>, Slots,
         id'.session = id.session, id'.stint = id.stint, id'.lap = id.lap,
         pc \notin Gone,
         pc' \in NoSession => pc \in NoSession,
         pc' \in NoStint => pc \in NoStint,
         pc' \in NoLap => pc \in NoLap,
         pc' \in ShutSession => pc \in ShutSession,
         pc' \in ShutStint => pc \in ShutStint,
         pc' \in ShutLap => pc \in ShutLap
  PROVE  Slots'
<1>1. Slot(sessions', id'.session, pc', runs', NoSession, ShutSession)
  BY SlotMoved, Zenon DEF Slots, Slot
<1>2. Slot(stints', id'.stint, pc', runs', NoStint, ShutStint)
  BY SlotMoved, Zenon DEF Slots, Slot
<1>3. Slot(laps', id'.lap, pc', runs', NoLap, ShutLap)
  BY SlotMoved, Zenon DEF Slots, Slot
<1>. QED BY <1>1, <1>2, <1>3, Zenon DEF Slots

(* With no row of the run there is nothing to show.                        *)
LEMMA EmptySlots ==
  ASSUME RowsOf(sessions, runs)' = {}, RowsOf(stints, runs)' = {}, RowsOf(laps, runs)' = {}
  PROVE  Slots'
  BY SlotEmpty, Zenon DEF Slots

(* The end of the thread or the process.                                   *)
LEMMA GoneSlots ==
  ASSUME UNCHANGED <<sessions, stints, laps, runs>>, Slots, pc' \in Gone
  PROVE  Slots'
<1>1. pc' \notin NoLap /\ pc' \notin NoStint /\ pc' \notin NoSession
  BY SMT DEF NoLap, NoStint, NoSession, Gone
<1>2. pc' \notin ShutLap /\ pc' \notin ShutStint /\ pc' \notin ShutSession
  BY SMT DEF ShutLap, ShutStint, ShutSession, Gone
<1>3. Slot(sessions', id'.session, pc', runs', NoSession, ShutSession)
  BY <1>1, <1>2, SlotMoved, Zenon DEF Slots
<1>4. Slot(stints', id'.stint, pc', runs', NoStint, ShutStint)
  BY <1>1, <1>2, SlotMoved, Zenon DEF Slots
<1>5. Slot(laps', id'.lap, pc', runs', NoLap, ShutLap)
  BY <1>1, <1>2, SlotMoved, Zenon DEF Slots
<1>. QED BY <1>3, <1>4, <1>5, Zenon DEF Slots

(* addsession, when nothing has failed.                                    *)
LEMMA InsertsSessionSlots ==
  ASSUME TypeOK, Slots, NEW answer, InsertsSession(answer), faults' = 0
  PROVE  Slots'
<1>1. answer = "ok" /\ answer \in InsertAnswers
  BY Worked, Zenon DEF InsertsSession, Inserts
<1>2. AddSessionRow(answer)
  BY Zenon DEF InsertsSession
<1>3. sessions' = Append(sessions, SessionRow(id.event, id.car, sim.session, runs))
  BY <1>1, <1>2, OkInsert, Zenon DEF AddSessionRow
<1>4. /\ id'.session = Len(sessions) + 1
      /\ id'.stint = id.stint /\ id'.lap = id.lap
  BY <1>1, <1>2, NewIds, OkInsert, Zenon
<1>5. stints' = stints /\ laps' = laps /\ runs' = runs
  BY <1>2, Zenon DEF AddSessionRow, Keep, world
<1>6. /\ pc \notin Gone
      /\ pc' \notin NoSession /\ pc' \notin ShutSession
      /\ pc \in NoSession \/ pc \in ShutSession
  BY SMT DEF InsertsSession, Inserts, NoSession, NoStint, NoLap, BeforeSession,
        ShutSession, ShutStint, ShutLap, Gone
<1>7. /\ pc' \in NoStint => pc \in NoStint
      /\ pc' \in ShutStint => pc \in ShutStint
  BY SMT DEF InsertsSession, Inserts, NoSession, NoStint, NoLap, BeforeSession,
        ShutSession, ShutStint, ShutLap, Gone
<1>8. /\ pc' \in NoLap => pc \in NoLap
      /\ pc' \in ShutLap => pc \in ShutLap
  BY SMT DEF InsertsSession, Inserts, NoSession, NoStint, NoLap, BeforeSession,
        ShutSession, ShutStint, ShutLap, Gone
<1>9. OpenIn(sessions, runs) = {}
  BY <1>6, Zenon DEF Slots, Slot, OpenIn
<1>10. Slot(sessions', id'.session, pc', runs', NoSession, ShutSession)
  <2>. DEFINE row == SessionRow(id.event, id.car, sim.session, runs)
  <2>1. row.finished = FALSE
    BY NewRows
  <2>2. sessions \in Seq(SessionRows)
    BY DEF TypeOK, TableTypes
  <2>3. sessions' = Append(sessions, row)
    BY <1>3
  <2>. HIDE DEF row
  <2>4. Slot(Append(sessions, row), Len(sessions) + 1, pc', runs, NoSession, ShutSession)
    BY <1>6, <1>9, <2>1, <2>2, SlotAdded
  <2>. QED BY <1>4, <1>5, <2>3, <2>4, Zenon
<1>11. Slot(stints', id'.stint, pc', runs', NoStint, ShutStint)
  BY <1>4, <1>5, <1>6, <1>7, SlotMoved, Zenon DEF Slots, Slot
<1>12. Slot(laps', id'.lap, pc', runs', NoLap, ShutLap)
  BY <1>4, <1>5, <1>6, <1>8, SlotMoved, Zenon DEF Slots, Slot
<1>. QED BY <1>10, <1>11, <1>12, Zenon DEF Slots

(* addstint, when nothing has failed.                                      *)
LEMMA InsertsStintSlots ==
  ASSUME TypeOK, Slots, NEW answer, InsertsStint(answer), faults' = 0
  PROVE  Slots'
<1>1. answer = "ok" /\ answer \in InsertAnswers
  BY Worked, Zenon DEF InsertsStint, Inserts
<1>2. AddStintRow(answer)
  BY Zenon DEF InsertsStint
<1>3. stints' = Append(stints, StintRow(id.session, id.driver, runs))
  BY <1>1, <1>2, OkInsert, Zenon DEF AddStintRow
<1>4. /\ id'.stint = Len(stints) + 1
      /\ id'.session = id.session /\ id'.lap = id.lap
  BY <1>1, <1>2, NewIds, OkInsert, Zenon
<1>5. sessions' = sessions /\ laps' = laps /\ runs' = runs
  BY <1>2, Zenon DEF AddStintRow, Keep, world
<1>6. /\ pc \notin Gone
      /\ pc' \notin NoStint /\ pc' \notin ShutStint
      /\ pc \in NoStint \/ pc \in ShutStint
  BY SMT DEF InsertsStint, Inserts, NoSession, NoStint, NoLap, BeforeSession,
        ShutSession, ShutStint, ShutLap, Gone
<1>7. /\ pc' \in NoSession => pc \in NoSession
      /\ pc' \in ShutSession => pc \in ShutSession
  BY SMT DEF InsertsStint, Inserts, NoSession, NoStint, NoLap, BeforeSession,
        ShutSession, ShutStint, ShutLap, Gone
<1>8. /\ pc' \in NoLap => pc \in NoLap
      /\ pc' \in ShutLap => pc \in ShutLap
  BY SMT DEF InsertsStint, Inserts, NoSession, NoStint, NoLap, BeforeSession,
        ShutSession, ShutStint, ShutLap, Gone
<1>9. OpenIn(stints, runs) = {}
  BY <1>6, Zenon DEF Slots, Slot, OpenIn
<1>10. Slot(stints', id'.stint, pc', runs', NoStint, ShutStint)
  <2>. DEFINE row == StintRow(id.session, id.driver, runs)
  <2>1. row.finished = FALSE
    BY NewRows
  <2>2. stints \in Seq(StintRows)
    BY DEF TypeOK, TableTypes
  <2>3. stints' = Append(stints, row)
    BY <1>3
  <2>. HIDE DEF row
  <2>4. Slot(Append(stints, row), Len(stints) + 1, pc', runs, NoStint, ShutStint)
    BY <1>6, <1>9, <2>1, <2>2, SlotAdded
  <2>. QED BY <1>4, <1>5, <2>3, <2>4, Zenon
<1>11. Slot(sessions', id'.session, pc', runs', NoSession, ShutSession)
  BY <1>4, <1>5, <1>6, <1>7, SlotMoved, Zenon DEF Slots, Slot
<1>12. Slot(laps', id'.lap, pc', runs', NoLap, ShutLap)
  BY <1>4, <1>5, <1>6, <1>8, SlotMoved, Zenon DEF Slots, Slot
<1>. QED BY <1>10, <1>11, <1>12, Zenon DEF Slots

(* addstintlap, when nothing has failed.                                   *)
LEMMA InsertsLapSlots ==
  ASSUME TypeOK, Slots, NEW answer, InsertsLap(answer), faults' = 0
  PROVE  Slots'
<1>1. answer = "ok" /\ answer \in InsertAnswers
  BY Worked, Zenon DEF InsertsLap, Inserts
<1>2. AddLapRow(answer)
  BY Zenon DEF InsertsLap
<1>3. laps' = Append(laps, LapRow(id.stint, runs))
  BY <1>1, <1>2, OkInsert, Zenon DEF AddLapRow
<1>4. /\ id'.lap = Len(laps) + 1
      /\ id'.session = id.session /\ id'.stint = id.stint
  BY <1>1, <1>2, NewIds, OkInsert, Zenon
<1>5. sessions' = sessions /\ stints' = stints /\ runs' = runs
  BY <1>2, Zenon DEF AddLapRow, Keep, world
<1>6. /\ pc \notin Gone
      /\ pc' \notin NoLap /\ pc' \notin ShutLap
      /\ pc \in NoLap \/ pc \in ShutLap
  BY SMT DEF InsertsLap, Inserts, NoSession, NoStint, NoLap, BeforeSession,
        ShutSession, ShutStint, ShutLap, Gone
<1>7. /\ pc' \in NoSession => pc \in NoSession
      /\ pc' \in ShutSession => pc \in ShutSession
  BY SMT DEF InsertsLap, Inserts, NoSession, NoStint, NoLap, BeforeSession,
        ShutSession, ShutStint, ShutLap, Gone
<1>8. /\ pc' \in NoStint => pc \in NoStint
      /\ pc' \in ShutStint => pc \in ShutStint
  BY SMT DEF InsertsLap, Inserts, NoSession, NoStint, NoLap, BeforeSession,
        ShutSession, ShutStint, ShutLap, Gone
<1>9. OpenIn(laps, runs) = {}
  BY <1>6, Zenon DEF Slots, Slot, OpenIn
<1>10. Slot(laps', id'.lap, pc', runs', NoLap, ShutLap)
  <2>. DEFINE row == LapRow(id.stint, runs)
  <2>1. row.finished = FALSE
    BY NewRows
  <2>2. laps \in Seq(LapRows)
    BY DEF TypeOK, TableTypes
  <2>3. laps' = Append(laps, row)
    BY <1>3
  <2>. HIDE DEF row
  <2>4. Slot(Append(laps, row), Len(laps) + 1, pc', runs, NoLap, ShutLap)
    BY <1>6, <1>9, <2>1, <2>2, SlotAdded
  <2>. QED BY <1>4, <1>5, <2>3, <2>4, Zenon
<1>11. Slot(sessions', id'.session, pc', runs', NoSession, ShutSession)
  BY <1>4, <1>5, <1>6, <1>7, SlotMoved, Zenon DEF Slots, Slot
<1>12. Slot(stints', id'.stint, pc', runs', NoStint, ShutStint)
  BY <1>4, <1>5, <1>6, <1>8, SlotMoved, Zenon DEF Slots, Slot
<1>. QED BY <1>10, <1>11, <1>12, Zenon DEF Slots

(* A closesession that works finishes the row that is held and no other.   *)
LEMMA SessionFinished ==
  ASSUME TypeOK, CloseSessionRow("ok")
  PROVE  /\ DOMAIN sessions' = DOMAIN sessions
         /\ \A i \in DOMAIN sessions : i # id.session => sessions'[i] = sessions[i]
         /\ id.session \in DOMAIN sessions => sessions'[id.session].finished
<1>1. sessions \in Seq(SessionRows) /\ id.session \in Ids
  BY NameFacts DEF TypeOK, TableTypes, ThreadTypes
<1>2. sessions' = closesession(sessions, id.session, "ok")
  BY DEF CloseSessionRow
<1>3. stintlaps \in Nat /\ validstintlaps \in Nat
  BY DEF TypeOK, ThreadTypes
<1>4. /\ DOMAIN sessions' = DOMAIN sessions
      /\ \A i \in DOMAIN sessions : i # id.session => sessions'[i] = sessions[i]
  BY <1>1, <1>2, <1>3, CloseSessionFacts
<1>5. ASSUME id.session \in DOMAIN sessions PROVE sessions'[id.session].finished
  <2>1. sessions[id.session] \in SessionRows
    BY <1>1, <1>5, RowFacts
  <2>. QED BY <1>1, <1>2, <1>5, <2>1, SMT DEF closesession, Finish, Updates, SessionRows
<1>. QED BY <1>4, <1>5

(* A closestint that works finishes the row that is held and no other.     *)
LEMMA StintFinished ==
  ASSUME TypeOK, CloseStintRow("ok")
  PROVE  /\ DOMAIN stints' = DOMAIN stints
         /\ \A i \in DOMAIN stints : i # id.stint => stints'[i] = stints[i]
         /\ id.stint \in DOMAIN stints => stints'[id.stint].finished
<1>1. stints \in Seq(StintRows) /\ id.stint \in Ids
  BY NameFacts DEF TypeOK, TableTypes, ThreadTypes
<1>2. stints' = closestint(stints, id.stint, stintlaps, validstintlaps, "ok")
  BY DEF CloseStintRow
<1>3. stintlaps \in Nat /\ validstintlaps \in Nat
  BY DEF TypeOK, ThreadTypes
<1>4. /\ DOMAIN stints' = DOMAIN stints
      /\ \A i \in DOMAIN stints : i # id.stint => stints'[i] = stints[i]
  BY <1>1, <1>2, <1>3, CloseStintFacts
<1>5. ASSUME id.stint \in DOMAIN stints PROVE stints'[id.stint].finished
  <2>1. stints[id.stint] \in StintRows
    BY <1>1, <1>5, RowFacts
  <2>. DEFINE row == [stints[id.stint] EXCEPT !.laps = stintlaps, !.valid = validstintlaps,
                                              !.finished = TRUE]
  <2>2. row.finished
    BY <2>1, Zenon DEF StintRows
  <2>. HIDE DEF row
  <2>3. stints' = [stints EXCEPT ![id.stint] = row]
    BY <1>2, <1>5, Zenon DEF closestint, Updates, row
  <2>. QED BY <1>1, <1>5, <2>2, <2>3
<1>. QED BY <1>4, <1>5

(* A closelap that works finishes the row that is held and no other.       *)
LEMMA LapFinished ==
  ASSUME TypeOK, CloseLapRow("ok")
  PROVE  /\ DOMAIN laps' = DOMAIN laps
         /\ \A i \in DOMAIN laps : i # id.lap => laps'[i] = laps[i]
         /\ id.lap \in DOMAIN laps => laps'[id.lap].finished
<1>1. laps \in Seq(LapRows) /\ id.lap \in Ids
  BY NameFacts DEF TypeOK, TableTypes, ThreadTypes
<1>2. laps' = closelap(laps, id.lap, "ok")
  BY DEF CloseLapRow
<1>3. stintlaps \in Nat /\ validstintlaps \in Nat
  BY DEF TypeOK, ThreadTypes
<1>4. /\ DOMAIN laps' = DOMAIN laps
      /\ \A i \in DOMAIN laps : i # id.lap => laps'[i] = laps[i]
  BY <1>1, <1>2, <1>3, CloseLapFacts
<1>5. ASSUME id.lap \in DOMAIN laps PROVE laps'[id.lap].finished
  <2>1. laps[id.lap] \in LapRows
    BY <1>1, <1>5, RowFacts
  <2>. QED BY <1>1, <1>2, <1>5, <2>1, SMT DEF closelap, Finish, Updates, LapRows
<1>. QED BY <1>4, <1>5

(* closesession, when nothing has failed.                                  *)
LEMMA ClosesSessionSlots ==
  ASSUME TypeOK, Slots, NEW answer, ClosesSession(answer), faults' = 0
  PROVE  Slots'
<1>1. answer = "ok"
  BY Worked, Zenon DEF ClosesSession, Closes
<1>2. CloseSessionRow(answer)
  BY Zenon DEF ClosesSession
<1>3. /\ DOMAIN sessions' = DOMAIN sessions
      /\ \A i \in DOMAIN sessions : i # id.session => sessions'[i] = sessions[i]
      /\ id.session \in DOMAIN sessions => sessions'[id.session].finished
  BY <1>1, <1>2, SessionFinished
<1>4. id'.session = id.session /\ id'.stint = id.stint /\ id'.lap = id.lap
  BY <1>2, Zenon DEF CloseSessionRow, local
<1>5. stints' = stints /\ laps' = laps /\ runs' = runs
  BY <1>2, Zenon DEF CloseSessionRow, Keep, world
<1>6. pc \notin Gone /\ pc' \notin NoSession
  BY SMT DEF ClosesSession, Closes, NoSession, NoStint, NoLap, BeforeSession,
        ShutSession, ShutStint, ShutLap, Gone
<1>7. /\ pc' \in NoStint => pc \in NoStint
      /\ pc' \in ShutStint => pc \in ShutStint
  BY SMT DEF ClosesSession, Closes, NoSession, NoStint, NoLap, BeforeSession,
        ShutSession, ShutStint, ShutLap, Gone
<1>8. /\ pc' \in NoLap => pc \in NoLap
      /\ pc' \in ShutLap => pc \in ShutLap
  BY SMT DEF ClosesSession, Closes, NoSession, NoStint, NoLap, BeforeSession,
        ShutSession, ShutStint, ShutLap, Gone
<1>10. Slot(sessions', id'.session, pc', runs', NoSession, ShutSession)
  BY <1>3, <1>5, <1>6, SlotClosed DEF Slots
<1>11. Slot(stints', id'.stint, pc', runs', NoStint, ShutStint)
  BY <1>4, <1>5, <1>6, <1>7, SlotMoved, Zenon DEF Slots, Slot
<1>12. Slot(laps', id'.lap, pc', runs', NoLap, ShutLap)
  BY <1>4, <1>5, <1>6, <1>8, SlotMoved, Zenon DEF Slots, Slot
<1>. QED BY <1>10, <1>11, <1>12, Zenon DEF Slots

(* closestint, when nothing has failed.                                    *)
LEMMA ClosesStintSlots ==
  ASSUME TypeOK, Slots, NEW answer, ClosesStint(answer), faults' = 0
  PROVE  Slots'
<1>1. answer = "ok"
  BY Worked, Zenon DEF ClosesStint, Closes
<1>2. CloseStintRow(answer)
  BY Zenon DEF ClosesStint
<1>3. /\ DOMAIN stints' = DOMAIN stints
      /\ \A i \in DOMAIN stints : i # id.stint => stints'[i] = stints[i]
      /\ id.stint \in DOMAIN stints => stints'[id.stint].finished
  BY <1>1, <1>2, StintFinished
<1>4. id'.session = id.session /\ id'.stint = id.stint /\ id'.lap = id.lap
  BY <1>2, Zenon DEF CloseStintRow, local
<1>5. sessions' = sessions /\ laps' = laps /\ runs' = runs
  BY <1>2, Zenon DEF CloseStintRow, Keep, world
<1>6. pc \notin Gone /\ pc' \notin NoStint
  BY SMT DEF ClosesStint, Closes, NoSession, NoStint, NoLap, BeforeSession,
        ShutSession, ShutStint, ShutLap, Gone
<1>7. /\ pc' \in NoSession => pc \in NoSession
      /\ pc' \in ShutSession => pc \in ShutSession
  BY SMT DEF ClosesStint, Closes, NoSession, NoStint, NoLap, BeforeSession,
        ShutSession, ShutStint, ShutLap, Gone
<1>8. /\ pc' \in NoLap => pc \in NoLap
      /\ pc' \in ShutLap => pc \in ShutLap
  BY SMT DEF ClosesStint, Closes, NoSession, NoStint, NoLap, BeforeSession,
        ShutSession, ShutStint, ShutLap, Gone
<1>10. Slot(stints', id'.stint, pc', runs', NoStint, ShutStint)
  BY <1>3, <1>5, <1>6, SlotClosed DEF Slots
<1>11. Slot(sessions', id'.session, pc', runs', NoSession, ShutSession)
  BY <1>4, <1>5, <1>6, <1>7, SlotMoved, Zenon DEF Slots, Slot
<1>12. Slot(laps', id'.lap, pc', runs', NoLap, ShutLap)
  BY <1>4, <1>5, <1>6, <1>8, SlotMoved, Zenon DEF Slots, Slot
<1>. QED BY <1>10, <1>11, <1>12, Zenon DEF Slots

(* closelap, when nothing has failed.                                      *)
LEMMA ClosesLapSlots ==
  ASSUME TypeOK, Slots, NEW answer, ClosesLap(answer), faults' = 0
  PROVE  Slots'
<1>1. answer = "ok"
  BY Worked, Zenon DEF ClosesLap, Closes
<1>2. CloseLapRow(answer)
  BY Zenon DEF ClosesLap
<1>3. /\ DOMAIN laps' = DOMAIN laps
      /\ \A i \in DOMAIN laps : i # id.lap => laps'[i] = laps[i]
      /\ id.lap \in DOMAIN laps => laps'[id.lap].finished
  BY <1>1, <1>2, LapFinished
<1>4. id'.session = id.session /\ id'.stint = id.stint /\ id'.lap = id.lap
  BY <1>2, Zenon DEF CloseLapRow, local
<1>5. sessions' = sessions /\ stints' = stints /\ runs' = runs
  BY <1>2, Zenon DEF CloseLapRow, Keep, world
<1>6. pc \notin Gone /\ pc' \notin NoLap
  BY SMT DEF ClosesLap, Closes, NoSession, NoStint, NoLap, BeforeSession,
        ShutSession, ShutStint, ShutLap, Gone
<1>7. /\ pc' \in NoSession => pc \in NoSession
      /\ pc' \in ShutSession => pc \in ShutSession
  BY SMT DEF ClosesLap, Closes, NoSession, NoStint, NoLap, BeforeSession,
        ShutSession, ShutStint, ShutLap, Gone
<1>8. /\ pc' \in NoStint => pc \in NoStint
      /\ pc' \in ShutStint => pc \in ShutStint
  BY SMT DEF ClosesLap, Closes, NoSession, NoStint, NoLap, BeforeSession,
        ShutSession, ShutStint, ShutLap, Gone
<1>10. Slot(laps', id'.lap, pc', runs', NoLap, ShutLap)
  BY <1>3, <1>5, <1>6, SlotClosed DEF Slots
<1>11. Slot(sessions', id'.session, pc', runs', NoSession, ShutSession)
  BY <1>4, <1>5, <1>6, <1>7, SlotMoved, Zenon DEF Slots, Slot
<1>12. Slot(stints', id'.stint, pc', runs', NoStint, ShutStint)
  BY <1>4, <1>5, <1>6, <1>8, SlotMoved, Zenon DEF Slots, Slot
<1>. QED BY <1>10, <1>11, <1>12, Zenon DEF Slots

(* A run that starts has stored nothing.                                   *)
LEMMA FreshRun ==
  ASSUME TypeOK, NEW S, NEW table \in Seq(S), Past(table)
  PROVE  RowsOf(table, runs + 1) = {}
  BY CountFacts DEF Past, RowsOf

(* Every step keeps the slots while no call fails.                         *)
LEMMA SlotsStep ==
  ASSUME TypeOK, RowsInv, [Next]_vars, faults' = 0
  PROVE  Slots'
<1>. faults = 0 /\ Slots
  BY FaultFree DEF RowsInv
<1>1. ASSUME Aside PROVE Slots'
  <2>1. /\ sessions' = sessions /\ stints' = stints /\ laps' = laps /\ runs' = runs
        /\ id' = id /\ pc' = pc
    BY <1>1, Zenon DEF Aside, Still
  <2>2. /\ Slot(sessions', id'.session, pc', runs', NoSession, ShutSession)
        /\ Slot(stints', id'.stint, pc', runs', NoStint, ShutStint)
        /\ Slot(laps', id'.lap, pc', runs', NoLap, ShutLap)
    BY <2>1, Zenon DEF Slots
  <2>. QED BY <2>2, Zenon DEF Slots
<1>2. ASSUME Leaves PROVE Slots'
  BY <1>2, GoneSlots, Zenon DEF Leaves, Still
<1>3. ASSUME Starts PROVE Slots'
  <2>1. /\ RowsOf(sessions, runs + 1) = {}
        /\ RowsOf(stints, runs + 1) = {}
        /\ RowsOf(laps, runs + 1) = {}
    BY FreshRun DEF RowsInv, TypeOK, TableTypes
  <2>2. /\ RowsOf(sessions', runs') = {}
        /\ RowsOf(stints', runs') = {}
        /\ RowsOf(laps', runs') = {}
    BY <1>3, <2>1, Zenon DEF Starts
  <2>. QED BY <2>2, EmptySlots
<1>4. ASSUME Prepares PROVE Slots'
  <2>1. pc \in NoSession /\ pc \in NoStint /\ pc \in NoLap
    BY <1>4, Zenon DEF Prepares, NoStint, NoLap
  <2>2. /\ RowsOf(sessions, runs) = {}
        /\ RowsOf(stints, runs) = {}
        /\ RowsOf(laps, runs) = {}
    BY <2>1, Zenon DEF Slots, Slot
  <2>3. /\ RowsOf(sessions', runs') = {}
        /\ RowsOf(stints', runs') = {}
        /\ RowsOf(laps', runs') = {}
    BY <1>4, <2>2, Zenon DEF Prepares, Still
  <2>. QED BY <2>3, EmptySlots
<1>5. ASSUME Looks PROVE Slots'
  <2>1. UNCHANGED <<sessions, stints, laps, runs>> /\ id' = id
    BY <1>5, Zenon DEF Looks, Still
  <2>2. /\ pc \notin Gone
        /\ pc' \notin NoSession /\ pc' \notin NoStint /\ pc' \notin NoLap
        /\ pc' \notin ShutSession /\ pc' \notin ShutStint /\ pc' \notin ShutLap
    BY <1>5, SMT DEF Looks, NoSession, NoStint, NoLap, BeforeSession,
        ShutSession, ShutStint, ShutLap, Gone
  <2>. QED BY <2>1, <2>2, StillSlots
<1>6. ASSUME Stores PROVE Slots'
  <2>1. UNCHANGED <<sessions, stints, laps, runs>> /\ id' = id
    BY <1>6, Zenon DEF Stores, UpdateTelemetry, Keep, world
  <2>2. /\ pc \notin Gone
        /\ pc' \notin NoSession /\ pc' \notin NoStint /\ pc' \notin NoLap
        /\ pc' \notin ShutSession /\ pc' \notin ShutStint
        /\ pc' \in ShutLap => pc \in ShutLap
    BY <1>6, SMT DEF Stores, UpdateTelemetry, NoSession, NoStint, NoLap, BeforeSession,
        ShutSession, ShutStint, ShutLap, Gone
  <2>. QED BY <2>1, <2>2, StillSlots
<1>7. ASSUME NEW answer, InsertsTelemetry(answer) PROVE Slots'
  <2>1. /\ UNCHANGED <<sessions, stints, laps, runs>>
        /\ id'.session = id.session /\ id'.stint = id.stint /\ id'.lap = id.lap
    <3>1. answer \in InsertAnswers /\ AddTelemetryRow(answer)
      BY <1>7, Zenon DEF InsertsTelemetry, Inserts
    <3>. QED BY <3>1, NewIds, Zenon DEF AddTelemetryRow, Keep, world
  <2>2. /\ pc \notin Gone
        /\ pc' \notin NoSession /\ pc' \notin NoStint /\ pc' \notin NoLap
        /\ pc' \notin ShutSession /\ pc' \notin ShutStint
        /\ pc' \in ShutLap => pc \in ShutLap
    BY <1>7, SMT DEF InsertsTelemetry, Inserts, NoSession, NoStint, NoLap, BeforeSession,
        ShutSession, ShutStint, ShutLap, Gone
  <2>. QED BY <2>1, <2>2, StillSlots
<1>. QED
  BY <1>1, <1>2, <1>3, <1>4, <1>5, <1>6, <1>7, Moves, InsertsSessionSlots, InsertsStintSlots,
     InsertsLapSlots, ClosesSessionSlots, ClosesStintSlots, ClosesLapSlots, Zenon

(* What a run stores stays in order: the inductive invariant.              *)
THEOREM RowsInvariant == Spec => [](TypeOK /\ RowsInv)
<1>1. Init => RowsInv
  <2>1. ASSUME Init PROVE sessions = <<>> /\ stints = <<>> /\ laps = <<>>
    BY <2>1, Zenon DEF Init
  <2>2. ASSUME Init PROVE \A n : /\ RowsOf(sessions, n) = {}
                                /\ RowsOf(stints, n) = {}
                                /\ RowsOf(laps, n) = {}
    BY <2>1, <2>2 DEF RowsOf
  <2>3. ASSUME Init PROVE Slots
    BY <2>2, <2>3, SlotEmpty, Zenon DEF Slots
  <2>4. ASSUME Init PROVE Past(sessions) /\ Past(stints) /\ Past(laps)
    BY <2>1, <2>4 DEF Past
  <2>. QED BY <2>3, <2>4, Zenon DEF RowsInv
<1>2. TypeOK /\ RowsInv /\ [Next]_vars => RowsInv'
  BY TypeStep, PastStep, SlotsStep DEF RowsInv
<1>. QED BY <1>1, <1>2, TypeInit, TypeStep, PTL DEF Spec

(* While no call fails, a run has at most one session, one stint and one   *)
(* lap open, in whatever order session, pit and lap changes come.          *)
THEOREM OneOpenRowCorrect == Spec => []OneOpenRowPerRun
<1>1. ASSUME NEW table, NEW key, NEW none, NEW shut, Slot(table, key, pc, runs, none, shut)
      PROVE  Cardinality(Open(table)) <= 1
  <2>1. \A i, j \in Open(table) : i = j
    BY <1>1 DEF Slot, OpenIn, RowsOf, Open, OfRun
  <2>2. CASE Open(table) = {}
    BY <2>2, FS_EmptySet
  <2>3. CASE Open(table) # {}
    <3>1. PICK i \in Open(table) : TRUE
      BY <2>3
    <3>2. Open(table) = {i}
      BY <2>1, <3>1
    <3>3. Cardinality({i}) = 1
      BY FS_Singleton
    <3>4. Cardinality(Open(table)) = 1
      BY <3>2, <3>3, Zenon
    <3>. QED BY <3>4, SMT
  <2>. QED BY <2>2, <2>3
<1>2. RowsInv => OneOpenRowPerRun
  BY <1>1 DEF RowsInv, Slots, OneOpenRowPerRun
<1>. QED BY <1>2, RowsInvariant, PTL

-----------------------------------------------------------------------------
(* A stop leaves a run finished.                                           *)

(* The lap has a telemetry row of this run with its six channels.          *)
Sampled(lap) ==
  \E t \in RowsOf(telemetry, runs) :
    telemetry[t].lap = lap /\ ChannelNames \subseteq telemetry[t].columns

(* Where the channels of the lap that is held are being stored, and where  *)
(* they have been.                                                         *)
Storing == {"l_update", "e_update"}
Stored  == {"l_addlap", "e_closelap", "e_closestint", "e_closesession", "close_db"}

(* Every lap of the run but the one that is held has its telemetry; the    *)
(* held one has the channels stored so far.                                *)
LapsSampled ==
  pc \notin Gone =>
    \A l \in RowsOf(laps, runs) : Sampled(l) \/ (l = id.lap /\ pc \notin Stored)

ChannelsStored ==
  pc \in Storing =>
    /\ telemetry[id.telemetry].lap = id.lap
    /\ \A c \in 1 .. channel - 1 : Channels[c] \in telemetry[id.telemetry].columns

SampledInv == faults = 0 => LapsSampled /\ ChannelsStored

(* Rows of telemetry that stay keep a lap's channels.                      *)
LEMMA SampledKept ==
  ASSUME runs' = runs,
         \A t \in DOMAIN telemetry :
           /\ t \in DOMAIN telemetry'
           /\ telemetry'[t].run = telemetry[t].run
           /\ telemetry'[t].lap = telemetry[t].lap
           /\ telemetry[t].columns \subseteq telemetry'[t].columns,
         NEW lap, Sampled(lap)
  PROVE  Sampled(lap)'
<1>1. PICK t \in RowsOf(telemetry, runs) :
        telemetry[t].lap = lap /\ ChannelNames \subseteq telemetry[t].columns
  BY DEF Sampled
<1>2. t \in RowsOf(telemetry', runs')
  BY <1>1 DEF RowsOf
<1>3. telemetry'[t].lap = lap /\ ChannelNames \subseteq telemetry'[t].columns
  BY <1>1 DEF RowsOf
<1>. QED BY <1>2, <1>3, Zenon DEF Sampled

(* A step that touches neither laps nor telemetry.                         *)
LEMMA StillSampled ==
  ASSUME LapsSampled, UNCHANGED <<laps, telemetry, runs>>, id'.lap = id.lap,
         pc \notin Gone, pc' \in Stored => pc \in Stored, pc' \notin Storing
  PROVE  LapsSampled' /\ ChannelsStored'
<1>1. RowsOf(laps', runs') = RowsOf(laps, runs)
  BY Zenon
<1>2. ASSUME NEW l, Sampled(l) PROVE Sampled(l)'
  BY <1>2, SampledKept
<1>3. LapsSampled'
  BY <1>1, <1>2, Zenon DEF LapsSampled
<1>. QED BY <1>3, Zenon DEF ChannelsStored

(* A run without a lap.                                                    *)
LEMMA NoLapSampled ==
  ASSUME RowsOf(laps', runs') = {}, pc' \notin Storing
  PROVE  LapsSampled' /\ ChannelsStored'
  BY Zenon DEF LapsSampled, ChannelsStored

(* addstintlap, when nothing has failed: the laps before have their        *)
(* telemetry, or there are none.                                           *)
LEMMA InsertsLapSampled ==
  ASSUME TypeOK, Slots, LapsSampled, NEW answer, InsertsLap(answer), faults' = 0
  PROVE  LapsSampled' /\ ChannelsStored'
<1>1. answer = "ok" /\ answer \in InsertAnswers
  BY Worked, Zenon DEF InsertsLap, Inserts
<1>2. AddLapRow(answer)
  BY Zenon DEF InsertsLap
<1>3. laps' = Append(laps, LapRow(id.stint, runs)) /\ id'.lap = Len(laps) + 1
  <2>1. laps' = Insert(laps, LapRow(id.stint, runs), answer)
    BY <1>2, Zenon DEF AddLapRow
  <2>2. id'.lap = InsertId(laps, answer)
    BY <1>1, <1>2, NewIds, Zenon
  <2>. QED BY <1>1, <2>1, <2>2, OkInsert, Zenon
<1>4. telemetry' = telemetry /\ runs' = runs
  BY <1>2, Zenon DEF AddLapRow, Keep, world
<1>5. /\ pc \notin Gone
      /\ pc' \notin Storing /\ pc' \notin Stored
      /\ pc \in NoLap \/ pc \in Stored
  BY SMT DEF InsertsLap, Inserts, Storing, Stored, NoSession, NoStint, NoLap, BeforeSession, Gone
<1>6. \A l \in RowsOf(laps, runs) : Sampled(l)
  BY <1>5, Zenon DEF LapsSampled, Slots, Slot
<1>7. \A l \in RowsOf(laps', runs') : l \in RowsOf(laps, runs) \/ l = id'.lap
  <2>1. laps \in Seq(LapRows)
    BY DEF TypeOK, TableTypes
  <2>. DEFINE row == LapRow(id.stint, runs)
  <2>2. laps' = Append(laps, row)
    BY <1>3
  <2>. HIDE DEF row
  <2>. QED BY <1>3, <1>4, <2>1, <2>2 DEF RowsOf
<1>8. ASSUME NEW l, Sampled(l) PROVE Sampled(l)'
  BY <1>4, <1>8, SampledKept
<1>9. LapsSampled'
  BY <1>5, <1>6, <1>7, <1>8, Zenon DEF LapsSampled
<1>. QED BY <1>5, <1>9, Zenon DEF ChannelsStored

(* addtelemetry, when nothing has failed: no channel is stored yet.        *)
LEMMA InsertsTelemetrySampled ==
  ASSUME TypeOK, LapsSampled, NEW answer, InsertsTelemetry(answer), faults' = 0
  PROVE  LapsSampled' /\ ChannelsStored'
<1>1. answer = "ok" /\ answer \in InsertAnswers
  BY Worked, Zenon DEF InsertsTelemetry, Inserts
<1>2. AddTelemetryRow(answer)
  BY Zenon DEF InsertsTelemetry
<1>3. /\ telemetry' = Append(telemetry, TelemetryRow(id.lap, runs))
      /\ id'.telemetry = Len(telemetry) + 1 /\ id'.lap = id.lap
  <2>1. telemetry' = Insert(telemetry, TelemetryRow(id.lap, runs), answer)
    BY <1>2, Zenon DEF AddTelemetryRow
  <2>2. id'.telemetry = InsertId(telemetry, answer) /\ id'.lap = id.lap
    BY <1>1, <1>2, NewIds, Zenon
  <2>. QED BY <1>1, <2>1, <2>2, OkInsert, Zenon
<1>4. laps' = laps /\ runs' = runs /\ channel' = 1
  BY <1>2, Zenon DEF AddTelemetryRow, Keep, world
<1>5. pc \notin Gone /\ pc' \notin Stored
  BY SMT DEF InsertsTelemetry, Inserts, Stored, Gone
<1>6. telemetry \in Seq(TelemetryRows)
  BY DEF TypeOK, TableTypes
<1>. DEFINE row == TelemetryRow(id.lap, runs)
<1>7. row.lap = id.lap
  BY DEF TelemetryRow
<1>8. telemetry' = Append(telemetry, row)
  BY <1>3
<1>. HIDE DEF row
<1>9. \A t \in DOMAIN telemetry : t \in DOMAIN telemetry' /\ telemetry'[t] = telemetry[t]
  BY <1>6, <1>8
<1>10. telemetry'[id'.telemetry] = row
  BY <1>3, <1>6, <1>8
<1>11. ASSUME NEW l, Sampled(l) PROVE Sampled(l)'
  BY <1>4, <1>9, <1>11, SampledKept
<1>12. RowsOf(laps', runs') = RowsOf(laps, runs)
  BY <1>4, Zenon
<1>13. LapsSampled'
  BY <1>3, <1>5, <1>11, <1>12, Zenon DEF LapsSampled
<1>14. ChannelsStored'
  BY <1>3, <1>4, <1>7, <1>10 DEF ChannelsStored
<1>. QED BY <1>13, <1>14

(* A closing update of a lap leaves the laps of the run what they are.     *)
LEMMA ClosesLapSampled ==
  ASSUME TypeOK, LapsSampled, NEW answer, ClosesLap(answer)
  PROVE  LapsSampled' /\ ChannelsStored'
<1>1. answer \in CallAnswers /\ CloseLapRow(answer)
  BY Zenon DEF ClosesLap, Closes
<1>2. telemetry' = telemetry /\ runs' = runs /\ id' = id
  BY <1>1, Zenon DEF CloseLapRow, Keep, world, local
<1>3. /\ pc \notin Gone /\ pc' \notin Storing
      /\ pc' \in Stored => pc \in Stored
  BY SMT DEF ClosesLap, Closes, Storing, Stored, Gone
<1>4. RowsOf(laps', runs') = RowsOf(laps, runs)
  BY <1>1, <1>2, CloseEffect DEF RowsOf, Grows
<1>5. ASSUME NEW l, Sampled(l) PROVE Sampled(l)'
  BY <1>2, <1>5, SampledKept
<1>6. LapsSampled'
  BY <1>2, <1>3, <1>4, <1>5, Zenon DEF LapsSampled
<1>. QED BY <1>3, <1>6, Zenon DEF ChannelsStored

(* One more channel, when nothing has failed: after the sixth the lap that *)
(* is held has its telemetry.                                              *)
LEMMA StoresSampled ==
  ASSUME TypeOK, HeldIds, LapsSampled, ChannelsStored, Stores, faults = 0, faults' = 0
  PROVE  LapsSampled' /\ ChannelsStored'
<1>. DEFINE i == id.telemetry
            columns == telemetry[i].columns \cup {Channels[channel]}
<1>1. PICK from \in {"l_update", "e_update"}, to \in {"l_addlap", "e_closelap"} :
        UpdateTelemetry(from, to)
  BY Zenon DEF Stores
<1>2. /\ pc = from
      /\ UNCHANGED <<id, laps>> /\ runs' = runs
      /\ IF channel < Len(Channels) THEN channel' = channel + 1 /\ pc' = from
                                    ELSE channel' = 1 /\ pc' = to
  BY <1>1, Zenon DEF UpdateTelemetry, Keep, world
<1>3. channel \in 1 .. 6 /\ Len(Channels) = 6
  BY DEF TypeOK, ThreadTypes, Channels
<1>4. i \in DOMAIN telemetry /\ telemetry[i].run = runs
  BY <1>2 DEF HeldIds, Held
<1>5. telemetry' = [telemetry EXCEPT ![i].columns = columns]
  <2>1. PICK answer \in CallAnswers :
          /\ Charge(answer)
          /\ telemetry' = updatetelemetry(telemetry, id.telemetry, Channels[channel], answer)
    BY <1>1, Zenon DEF UpdateTelemetry
  <2>2. answer = "ok"
    BY <2>1, Worked
  <2>. QED BY <1>4, <2>1, <2>2, Zenon DEF updatetelemetry, Updates
<1>6. telemetry \in Seq(TelemetryRows)
  BY DEF TypeOK, TableTypes
<1>7. telemetry[i] \in TelemetryRows
  BY <1>4, <1>6, RowFacts
<1>8. /\ DOMAIN telemetry' = DOMAIN telemetry
      /\ \A t \in DOMAIN telemetry : t # i => telemetry'[t] = telemetry[t]
      /\ telemetry'[i] = [telemetry[i] EXCEPT !.columns = columns]
  BY <1>4, <1>5, <1>6
<1>9. /\ telemetry'[i].columns = columns
      /\ telemetry'[i].lap = telemetry[i].lap
      /\ telemetry'[i].run = telemetry[i].run
  BY <1>7, <1>8, Zenon DEF TelemetryRows
<1>10. \A t \in DOMAIN telemetry :
         /\ t \in DOMAIN telemetry'
         /\ telemetry'[t].run = telemetry[t].run
         /\ telemetry'[t].lap = telemetry[t].lap
         /\ telemetry[t].columns \subseteq telemetry'[t].columns
  BY <1>8, <1>9, Zenon
<1>11. ASSUME NEW l, Sampled(l) PROVE Sampled(l)'
  BY <1>2, <1>10, <1>11, SampledKept
<1>12. pc \in Storing /\ pc \notin Stored /\ pc \notin Gone
  BY <1>2 DEF Storing, Stored, Gone
<1>13. /\ telemetry[i].lap = id.lap
       /\ \A c \in 1 .. channel - 1 : Channels[c] \in telemetry[i].columns
  BY <1>12 DEF ChannelsStored
<1>14. \A c \in 1 .. channel : Channels[c] \in telemetry'[i].columns
  BY <1>3, <1>9, <1>13
<1>15. RowsOf(laps', runs') = RowsOf(laps, runs)
  BY <1>2, Zenon
<1>16. CASE channel < 6
  <2>1. channel' = channel + 1 /\ pc' = pc
    BY <1>2, <1>3, <1>16
  <2>2. LapsSampled'
    BY <1>2, <1>11, <1>12, <1>15, <2>1, Zenon DEF LapsSampled
  <2>3. 1 .. channel' - 1 = 1 .. channel
    BY <1>3, <2>1
  <2>4. ChannelsStored'
    BY <1>2, <1>9, <1>13, <1>14, <2>3, Zenon DEF ChannelsStored
  <2>. QED BY <2>2, <2>4
<1>17. CASE channel = 6
  <2>1. pc' = to
    BY <1>2, <1>3, <1>17
  <2>2. pc' \notin Storing
    BY <2>1, <1>1 DEF Storing
  <2>3. ChannelNames \subseteq telemetry'[i].columns
    BY <1>14, <1>17 DEF ChannelNames
  <2>4. i \in RowsOf(telemetry', runs')
    BY <1>2, <1>4, <1>8, <1>9, Zenon DEF RowsOf
  <2>5. Sampled(id.lap)'
    BY <1>2, <1>9, <1>13, <2>3, <2>4, Zenon DEF Sampled
  <2>6. LapsSampled'
    BY <1>2, <1>11, <1>12, <1>15, <2>5, Zenon DEF LapsSampled
  <2>. QED BY <2>2, <2>6, Zenon DEF ChannelsStored
<1>. QED BY <1>3, <1>16, <1>17

(* Every step keeps the laps' telemetry in order while no call fails.      *)
LEMMA SampledStep ==
  ASSUME TypeOK, HeldIds, RowsInv, RowsInv', SampledInv, [Next]_vars, faults' = 0
  PROVE  LapsSampled' /\ ChannelsStored'
<1>0. /\ faults = 0 /\ Slots /\ Slots'
      /\ LapsSampled /\ ChannelsStored
  BY FaultFree DEF RowsInv, SampledInv
<1>1. ASSUME Aside PROVE LapsSampled' /\ ChannelsStored'
  <2>1. UNCHANGED <<laps, telemetry, runs, id, pc, channel>>
    BY <1>1, Zenon DEF Aside, Still
  <2>2. ASSUME NEW l, Sampled(l) PROVE Sampled(l)'
    BY <2>1, <2>2, SampledKept
  <2>3. RowsOf(laps', runs') = RowsOf(laps, runs)
    BY <2>1, Zenon
  <2>4. LapsSampled'
    BY <1>0, <2>1, <2>2, <2>3, Zenon DEF LapsSampled
  <2>5. ChannelsStored'
    BY <1>0, <2>1, Zenon DEF ChannelsStored
  <2>. QED BY <2>4, <2>5
<1>2. ASSUME Leaves PROVE LapsSampled' /\ ChannelsStored'
  <2>1. pc' \in Gone /\ pc' \notin Storing
    BY <1>2 DEF Leaves, Gone, Storing
  <2>. QED BY <2>1, Zenon DEF LapsSampled, ChannelsStored
<1>3. ASSUME Starts \/ Prepares PROVE LapsSampled' /\ ChannelsStored'
  <2>1. pc' \in NoLap /\ pc' \notin Storing
    BY <1>3, SMT DEF Starts, Prepares, NoLap, NoStint, NoSession, BeforeSession, Gone, Storing
  <2>2. RowsOf(laps', runs') = {}
    BY <1>0, <2>1, Zenon DEF Slots, Slot
  <2>. QED BY <2>1, <2>2, NoLapSampled
<1>4. ASSUME Looks PROVE LapsSampled' /\ ChannelsStored'
  <2>1. UNCHANGED <<laps, telemetry, runs>> /\ id'.lap = id.lap
    BY <1>4, Zenon DEF Looks, Still
  <2>2. pc \notin Gone /\ pc' \notin Stored /\ pc' \notin Storing
    BY <1>4, SMT DEF Looks, Gone, Stored, Storing
  <2>. QED BY <1>0, <2>1, <2>2, StillSampled, Zenon
<1>5. ASSUME NEW answer, InsertsSession(answer) \/ InsertsStint(answer)
      PROVE  LapsSampled' /\ ChannelsStored'
  <2>1. /\ answer \in InsertAnswers
        /\ AddSessionRow(answer) \/ AddStintRow(answer)
    BY <1>5, Zenon DEF InsertsSession, InsertsStint, Inserts
  <2>2. id'.lap = id.lap
    BY <2>1, NewIds, Zenon
  <2>3. UNCHANGED <<laps, telemetry, runs>>
    BY <2>1, Zenon DEF AddSessionRow, AddStintRow, Keep, world
  <2>4. pc \notin Gone /\ pc' \notin Stored /\ pc' \notin Storing
    BY <1>5, SMT DEF InsertsSession, InsertsStint, Inserts, Gone, Stored, Storing
  <2>. QED BY <1>0, <2>2, <2>3, <2>4, StillSampled, Zenon
<1>6. ASSUME NEW answer, ClosesSession(answer) \/ ClosesStint(answer)
      PROVE  LapsSampled' /\ ChannelsStored'
  <2>1. CloseSessionRow(answer) \/ CloseStintRow(answer)
    BY <1>6, Zenon DEF ClosesSession, ClosesStint
  <2>2. UNCHANGED <<laps, telemetry, runs>> /\ id'.lap = id.lap
    BY <2>1, Zenon DEF CloseSessionRow, CloseStintRow, Keep, world, local
  <2>3. pc \notin Gone /\ pc' \notin Storing
    BY <1>6, SMT DEF ClosesSession, ClosesStint, Closes, Gone, Storing
  <2>4. pc' \in Stored => pc \in Stored
    BY <1>6, SMT DEF ClosesSession, ClosesStint, Closes, Stored
  <2>. QED BY <1>0, <2>2, <2>3, <2>4, StillSampled, Zenon
<1>. QED
  BY <1>0, <1>1, <1>2, <1>3, <1>4, <1>5, <1>6, Moves, InsertsLapSampled, InsertsTelemetrySampled,
     ClosesLapSampled, StoresSampled, Zenon

(* The recorder's bookkeeping of rows, laps and telemetry.                 *)
BookInv == LapInv /\ RowsInv /\ SampledInv

(* The three parts are kept together.                                      *)
THEOREM BookInvariant == Spec => []BookInv
<1>1. Init => SampledInv
  <2>1. ASSUME Init PROVE pc \in Gone /\ pc \notin Storing
    BY <2>1 DEF Init, Gone, Storing
  <2>. QED BY <2>1, Zenon DEF SampledInv, LapsSampled, ChannelsStored
<1>2. LapInv => TypeOK /\ HeldIds
  BY Zenon DEF LapInv, ParentsInv
<1>3. BookInv /\ RowsInv' /\ [Next]_vars => SampledInv'
  BY <1>2, SampledStep, Zenon DEF BookInv, SampledInv
<1>. QED BY <1>1, <1>2, <1>3, RowsInvariant, LapInit, LapStep, PTL DEF Spec, BookInv

(* A lap has six channels.                                                 *)
LEMMA SixChannels == Cardinality(ChannelNames) = 6
<1>1. ChannelNames = {"steer", "accel", "brake", "rpms", "gear", "speed"}
  <2>1. 1 .. 6 = {1, 2, 3, 4, 5, 6}
    OBVIOUS
  <2>2. /\ Channels[1] = "steer" /\ Channels[2] = "accel" /\ Channels[3] = "brake"
        /\ Channels[4] = "rpms" /\ Channels[5] = "gear" /\ Channels[6] = "speed"
    BY DEF Channels
  <2>. QED BY <2>1, <2>2, Zenon DEF ChannelNames
<1>2. IsFiniteSet({"steer"}) /\ Cardinality({"steer"}) = 1
  BY FS_Singleton
<1>. DEFINE two   == {"steer"} \cup {"accel"}
            three == two \cup {"brake"}
            four  == three \cup {"rpms"}
            five  == four \cup {"gear"}
            six   == five \cup {"speed"}
<1>3. IsFiniteSet(two) /\ Cardinality(two) = 2
  BY <1>2, FS_AddElement
<1>4. IsFiniteSet(three) /\ Cardinality(three) = 3
  <2>1. "brake" \notin two
    OBVIOUS
  <2>. HIDE DEF two
  <2>. QED BY <1>3, <2>1, FS_AddElement
<1>5. IsFiniteSet(four) /\ Cardinality(four) = 4
  <2>1. "rpms" \notin three
    OBVIOUS
  <2>. HIDE DEF three
  <2>. QED BY <1>4, <2>1, FS_AddElement
<1>6. IsFiniteSet(five) /\ Cardinality(five) = 5
  <2>1. "gear" \notin four
    OBVIOUS
  <2>. HIDE DEF four
  <2>. QED BY <1>5, <2>1, FS_AddElement
<1>7. IsFiniteSet(six) /\ Cardinality(six) = 6
  <2>1. "speed" \notin five
    OBVIOUS
  <2>. HIDE DEF five
  <2>. QED BY <1>6, <2>1, FS_AddElement
<1>8. ChannelNames = six
  BY <1>1
<1>. QED BY <1>7, <1>8, Zenon

(* A stop that is noticed inside the loop, with no call failed, leaves     *)
(* every session, stint and lap of the run closed and each lap with its    *)
(* six channels.                                                           *)
THEOREM ShutdownCorrect == Spec => []ShutdownFinishesRun
<1>1. ASSUME BookInv, pc = "close_db", faults = 0
      PROVE  Open(sessions) = {} /\ Open(stints) = {} /\ Open(laps) = {}
  <2>1. pc \in ShutSession /\ pc \in ShutStint /\ pc \in ShutLap
    BY <1>1 DEF ShutSession, ShutStint, ShutLap
  <2>2. OpenIn(sessions, runs) = {} /\ OpenIn(stints, runs) = {} /\ OpenIn(laps, runs) = {}
    BY <1>1, <2>1, Zenon DEF BookInv, RowsInv, Slots, Slot
  <2>. QED BY <2>2, Zenon DEF Open, OfRun, OpenIn, RowsOf
<1>2. ASSUME BookInv, pc = "close_db", faults = 0, NEW i \in OfRun(laps)
      PROVE  \E t \in OfRun(telemetry) :
               telemetry[t].lap = i /\ Cardinality(telemetry[t].columns) = 6
  <2>1. pc \notin Gone /\ pc \in Stored
    BY <1>2 DEF Gone, Stored
  <2>2. Sampled(i)
    BY <1>2, <2>1, Zenon DEF BookInv, SampledInv, LapsSampled, OfRun, RowsOf
  <2>3. PICK t \in RowsOf(telemetry, runs) :
          telemetry[t].lap = i /\ ChannelNames \subseteq telemetry[t].columns
    BY <2>2 DEF Sampled
  <2>4. telemetry \in Seq(TelemetryRows)
    BY <1>2, Zenon DEF BookInv, LapInv, ParentsInv, TypeOK, TableTypes
  <2>5. t \in OfRun(telemetry) /\ t \in DOMAIN telemetry
    BY <2>3, Zenon DEF OfRun, RowsOf
  <2>6. telemetry[t] \in TelemetryRows
    BY <2>4, <2>5, RowFacts
  <2>7. telemetry[t].columns = ChannelNames
    BY <2>3, <2>6 DEF TelemetryRows
  <2>. QED BY <2>3, <2>5, <2>7, SixChannels, Zenon
<1>3. BookInv => ShutdownFinishesRun
  BY <1>1, <1>2, Zenon DEF ShutdownFinishesRun
<1>. QED BY <1>3, BookInvariant, PTL

-----------------------------------------------------------------------------
(* A name is registered once.                                              *)

(* The call that inserts a missing name.                                   *)
InsertAt == [track |-> "addtrack", driver |-> "adddriver", car |-> "addcar"]

(* The thread only goes on to that call with the id of a row, or when the  *)
(* table has no row with the name it asked for; a driver's or a car's      *)
(* select may also have failed.                                            *)
Missing(t) == \A i \in DOMAIN catalog[t] : catalog[t][i].name # asked

NamesInv ==
  /\ NamesRegisteredOnce
  /\ \A t \in Named :
       pc = InsertAt[t] =>
         id[t] > 0 \/ Missing(t) \/ (t # "track" /\ faults > 0)

(* The calls that are not about the names.                                 *)
OffNames ==
  /\ \A t \in Named : catalog'[t] = catalog[t]
  /\ pc' \notin {"addtrack", "adddriver", "addcar"}
  /\ faults <= faults'

(* The events are another table.                                           *)
LEMMA EventApart ==
  ASSUME TypeOK, NEW row, NEW answer, AddRow("event", row, answer)
  PROVE  \A t \in Named : catalog'[t] = catalog[t]
  BY DEF AddRow, TypeOK, TableTypes, Names, Named

(* Where a step is in the calls about the names.                           *)
LEMMA InsertAtFacts ==
  /\ InsertAt["track"] = "addtrack"
  /\ InsertAt["driver"] = "adddriver"
  /\ InsertAt["car"] = "addcar"
  /\ \A t \in Named : InsertAt[t] \in {"addtrack", "adddriver", "addcar"}
  /\ \A t, u \in Named : InsertAt[t] = InsertAt[u] => t = u
  BY DEF InsertAt, Named

(* Every other step leaves the names and the calls for them alone.         *)
LEMMA NamesMoves ==
  ASSUME TypeOK, [Next]_vars
  PROVE  \/ OffNames \/ UNCHANGED <<catalog, pc, id, asked, faults>>
         \/ GetTrack \/ AddTrack \/ GetDriver \/ AddDriver \/ GetCar \/ AddCar
<1>1. ASSUME Connect PROVE OffNames
  BY <1>1, ChargeFacts, CountFacts, SMT DEF OffNames, Connect, db
<1>2. ASSUME AddEvent PROVE OffNames
  BY <1>2, EventApart, ChargeFacts, SMT DEF OffNames, AddEvent, Calls, Goto
<1>7. ASSUME FirstPit PROVE OffNames
  BY <1>7, ChargeFacts, CountFacts, SMT DEF OffNames, FirstPit, Goto, db
<1>8. ASSUME AddSession PROVE OffNames
  BY <1>8, ChargeFacts, CountFacts, SMT DEF OffNames, AddSession, AddSessionRow, Calls, Goto
<1>9. ASSUME SessionAdds PROVE OffNames
  BY <1>9, ChargeFacts, CountFacts, SMT DEF OffNames, SessionAdds, AddSessionRow, Calls, Goto
<1>10. ASSUME AddStint PROVE OffNames
  BY <1>10, ChargeFacts, CountFacts, SMT DEF OffNames, AddStint, AddStintRow, Calls, Goto
<1>11. ASSUME PitAddsStint PROVE OffNames
  BY <1>11, ChargeFacts, CountFacts, SMT DEF OffNames, PitAddsStint, AddStintRow, Calls, Goto
<1>12. ASSUME AddLap PROVE OffNames
  BY <1>12, ChargeFacts, CountFacts, SMT DEF OffNames, AddLap, AddLapRow, Calls, Goto
<1>13. ASSUME LapAdds PROVE OffNames
  BY <1>13, ChargeFacts, CountFacts, SMT DEF OffNames, LapAdds, AddLapRow, Calls, Goto
<1>14. ASSUME LapAddsTelemetry PROVE OffNames
  BY <1>14, ChargeFacts, CountFacts, SMT DEF OffNames, LapAddsTelemetry, AddTelemetryRow, Calls, Goto
<1>15. ASSUME EndAddsTelemetry PROVE OffNames
  BY <1>15, ChargeFacts, CountFacts, SMT DEF OffNames, EndAddsTelemetry, AddTelemetryRow, Calls, Goto
<1>16. ASSUME SessionCloses PROVE OffNames
  BY <1>16, ChargeFacts, CountFacts, SMT DEF OffNames, SessionCloses, CloseSessionRow, Calls, Goto
<1>17. ASSUME EndClosesSession PROVE OffNames
  BY <1>17, ChargeFacts, CountFacts, SMT DEF OffNames, EndClosesSession, CloseSessionRow, Calls, Goto
<1>18. ASSUME SessionClosesStint PROVE OffNames
  BY <1>18, ChargeFacts, CountFacts, SMT DEF OffNames, SessionClosesStint, CloseStintRow, Calls, Goto
<1>19. ASSUME PitClosesStint PROVE OffNames
  BY <1>19, ChargeFacts, CountFacts, SMT DEF OffNames, PitClosesStint, CloseStintRow, Calls, Goto
<1>20. ASSUME EndClosesStint PROVE OffNames
  BY <1>20, ChargeFacts, CountFacts, SMT DEF OffNames, EndClosesStint, CloseStintRow, Calls, Goto
<1>21. ASSUME LapCloses PROVE OffNames
  BY <1>21, ChargeFacts, CountFacts, SMT DEF OffNames, LapCloses, CloseLapRow, Calls, Goto
<1>22. ASSUME EndClosesLap PROVE OffNames
  BY <1>22, ChargeFacts, CountFacts, SMT DEF OffNames, EndClosesLap, CloseLapRow, Calls, Goto
<1>23. ASSUME LapStoresChannel PROVE OffNames
  BY <1>23, ChargeFacts, CountFacts, SMT DEF OffNames, LapStoresChannel, UpdateTelemetry
<1>24. ASSUME EndStoresChannel PROVE OffNames
  BY <1>24, ChargeFacts, CountFacts, SMT DEF OffNames, EndStoresChannel, UpdateTelemetry
<1>25. ASSUME Enter PROVE OffNames
  BY <1>25, ChargeFacts, CountFacts, SMT DEF OffNames, Enter, Goto, db
<1>26. ASSUME Tick PROVE OffNames
  BY <1>26, ChargeFacts, CountFacts, SMT DEF OffNames, Tick, Goto, db
<1>27. ASSUME ReadPit PROVE OffNames
  BY <1>27, ChargeFacts, CountFacts, SMT DEF OffNames, ReadPit, Goto, db
<1>28. ASSUME CheckPit PROVE OffNames
  BY <1>28, ChargeFacts, CountFacts, SMT DEF OffNames, CheckPit, Goto, db
<1>29. ASSUME CheckLap PROVE OffNames
  BY <1>29, ChargeFacts, CountFacts, SMT DEF OffNames, CheckLap, Goto, db
<1>30. ASSUME EndOfTurn PROVE OffNames
  BY <1>30, ChargeFacts, CountFacts, SMT DEF OffNames, EndOfTurn, Goto, db
<1>31. ASSUME CloseDb PROVE OffNames
  BY <1>31, ChargeFacts, CountFacts, SMT DEF OffNames, CloseDb, Goto, db
<1>32. ASSUME ProcessEnds PROVE OffNames
  BY <1>32, ChargeFacts, CountFacts, SMT DEF OffNames, ProcessEnds, Goto, db
<1>33. ASSUME StartRun PROVE OffNames
  BY <1>33, ChargeFacts, CountFacts, SMT DEF OffNames, StartRun, Goto, db
<1>34. ASSUME SimWrites \/ StopRun \/ UNCHANGED vars PROVE UNCHANGED <<catalog, pc, id, asked, faults>>
  BY <1>34, Zenon DEF SimWrites, StopRun, vars, db, local
<1>. QED
  BY <1>1, <1>2, <1>7, <1>8, <1>9, <1>10, <1>11, <1>12, <1>13,
     <1>14, <1>15, <1>16, <1>17, <1>18, <1>19, <1>20, <1>21, <1>22, <1>23, <1>24, <1>25,
     <1>26, <1>27, <1>28, <1>29, <1>30, <1>31, <1>32, <1>33, <1>34, Zenon
  DEF Next, RecorderStep, SetUp, Turn, Stop, Finished

(* Tables that are left alone have no new row to look at.                  *)
LEMMA NamesKept ==
  ASSUME TypeOK, NamesInv, faults <= faults', faults' \in Nat,
         \A t \in Named : catalog'[t] = catalog[t]
  PROVE  NamesRegisteredOnce'
<1>1. faults > 0 => faults' > 0
  BY CountFacts
<1>. QED BY <1>1, Zenon DEF NamesInv, NamesRegisteredOnce

(* What a select leaves the thread with.                                   *)
LEMMA SelectFinds ==
  ASSUME TypeOK, NEW t \in Named, NEW none \in Ids, Select(t, none), catalog' = catalog
  PROVE  id'[t] > 0 \/ Missing(t)'
<1>1. t \in Names /\ t \in Tables
  BY NameFacts
<1>2. catalog[t] \in Seq(CatalogRows)
  BY <1>1 DEF TypeOK, TableTypes
<1>3. PICK n \in SelectIds(catalog[t], sim[t], none) : id' = [id EXCEPT ![t] = n]
  BY DEF Select
<1>4. id'[t] = n /\ asked' = sim[t]
  BY <1>1, <1>3 DEF Select, TypeOK, ThreadTypes
<1>5. n > 0 \/ ~ \E i \in DOMAIN catalog[t] : catalog[t][i].name = sim[t]
  BY <1>2, SelectFacts
<1>. QED BY <1>4, <1>5, Zenon DEF Missing

(* An insert of a name leaves its tables as NamesRegisteredOnce says.      *)
LEMMA AddNameOnce ==
  ASSUME TypeOK, NamesInv, NEW t \in Named, pc = InsertAt[t],
         NEW answer \in InsertAnswers, AddName(t, answer),
         faults <= faults', faults' \in Nat
  PROVE  NamesRegisteredOnce'
<1>1. t \in Names /\ catalog[t] \in Seq(CatalogRows)
  BY NameFacts DEF TypeOK, TableTypes
<1>2. CASE id[t] > 0
  <2>1. catalog' = catalog
    BY <1>2 DEF AddName
  <2>. QED BY <2>1, NamesKept
<1>3. CASE ~(id[t] > 0)
  <2>. DEFINE row == NameRow(sim[t], asked)
  <2>1. Missing(t) \/ (t # "track" /\ faults > 0)
    BY <1>3 DEF NamesInv
  <2>2. AddRow(t, row, answer)
    BY <1>3 DEF AddName
  <2>3. /\ catalog'[t] = Insert(catalog[t], row, answer)
        /\ \A u \in Named : u # t => catalog'[u] = catalog[u]
    BY <1>1, <2>2, NameFacts DEF AddRow, TypeOK, TableTypes
  <2>4. row.name = sim[t] /\ row.asked = asked
    BY DEF NameRow
  <2>. HIDE DEF row
  <2>5. ASSUME NEW u \in Named, NEW j \in DOMAIN catalog'[u], NEW i \in 1 .. j - 1,
               catalog'[u][i].name = catalog'[u][j].name
        PROVE  \/ catalog'[u][j].asked # catalog'[u][j].name
               \/ u # "track" /\ faults' > 0
    <3>1. CASE catalog'[u] = catalog[u]
      BY <2>5, <3>1, CountFacts DEF NamesInv, NamesRegisteredOnce
    <3>2. CASE catalog'[u] # catalog[u]
      <4>1. u = t /\ answer # "failed" /\ catalog'[t] = Append(catalog[t], row)
        BY <2>3, <3>2 DEF Insert
      <4>2. CASE j \in DOMAIN catalog[t]
        <5>1. /\ catalog'[t][j] = catalog[t][j] /\ catalog'[t][i] = catalog[t][i]
          BY <1>1, <2>5, <4>1, <4>2
        <5>. QED BY <2>5, <4>1, <4>2, <5>1, CountFacts DEF NamesInv, NamesRegisteredOnce
      <4>3. CASE j \notin DOMAIN catalog[t]
        <5>1. /\ catalog'[t][j] = row /\ i \in DOMAIN catalog[t]
              /\ catalog'[t][i] = catalog[t][i]
          BY <1>1, <2>5, <4>1, <4>3
        <5>. QED BY <2>1, <2>4, <2>5, <4>1, <5>1, CountFacts DEF Missing
      <4>. QED BY <4>2, <4>3
    <3>. QED BY <3>1, <3>2
  <2>. QED BY <2>5, Zenon DEF NamesRegisteredOnce
<1>. QED BY <1>2, <1>3

(* The selects.                                                            *)
LEMMA GetNameStep ==
  ASSUME TypeOK, TypeOK', NamesInv, NEW t \in Named, catalog' = catalog,
         pc' = InsertAt[t], faults <= faults',
         \/ \E none \in Ids : Select(t, none)
         \/ t # "track" /\ faults' > 0
  PROVE  NamesInv'
<1>1. NamesRegisteredOnce'
  BY NamesKept, CountFacts DEF TypeOK, WorldTypes
<1>2. id'[t] > 0 \/ Missing(t)' \/ (t # "track" /\ faults' > 0)
  BY SelectFinds
<1>. QED BY <1>1, <1>2, InsertAtFacts, Zenon DEF NamesInv

(* Every step keeps it so.                                                 *)
LEMMA NamesStep ==
  ASSUME TypeOK, TypeOK', NamesInv, [Next]_vars
  PROVE  NamesInv'
<1>. faults \in Nat /\ faults' \in Nat
  BY CountFacts DEF TypeOK, WorldTypes
<1>1. CASE OffNames
  <2>1. NamesRegisteredOnce'
    BY <1>1, NamesKept DEF OffNames
  <2>. QED BY <1>1, <2>1, InsertAtFacts, Zenon DEF OffNames, NamesInv
<1>2. CASE UNCHANGED <<catalog, pc, id, asked, faults>>
  BY <1>2, Zenon DEF NamesInv, NamesRegisteredOnce, Missing
<1>3. CASE GetTrack
  <2>1. catalog' = catalog /\ faults <= faults'
    BY <1>3, ChargeFacts DEF GetTrack, db
  <2>2. (pc' = "addtrack" /\ Select("track", NoId)) \/ pc' = "idle"
    BY <1>3, Zenon DEF GetTrack
  <2>3. CASE pc' = "idle"
    BY <2>1, <2>3, <1>1 DEF OffNames
  <2>. QED BY <2>1, <2>2, <2>3, GetNameStep, InsertAtFacts, NameFacts
<1>4. CASE GetDriver
  <2>1. catalog' = catalog /\ faults <= faults' /\ pc' = "adddriver"
    BY <1>4, ChargeFacts DEF GetDriver, GetName, db, Calls, Goto
  <2>2. Select("driver", NoRow) \/ faults' > 0
    BY <1>4, ChargeFacts DEF GetDriver, GetName, Calls, Goto
  <2>. QED BY <2>1, <2>2, GetNameStep, InsertAtFacts, NameFacts
<1>5. CASE GetCar
  <2>1. catalog' = catalog /\ faults <= faults' /\ pc' = "addcar"
    BY <1>5, ChargeFacts DEF GetCar, GetName, db, Calls, Goto
  <2>2. Select("car", NoRow) \/ faults' > 0
    BY <1>5, ChargeFacts DEF GetCar, GetName, Calls, Goto
  <2>. QED BY <2>1, <2>2, GetNameStep, InsertAtFacts, NameFacts
<1>6. CASE AddTrack
  <2>1. PICK answer \in InsertAnswers : AddName("track", answer) /\ Charge(answer)
    BY <1>6, Zenon DEF AddTrack, Calls
  <2>2. pc = "addtrack" /\ pc' \in {"idle", "addevent"} /\ faults <= faults'
    BY <1>6, ChargeFacts DEF AddTrack
  <2>3. NamesRegisteredOnce'
    BY <2>1, <2>2, AddNameOnce, InsertAtFacts, NameFacts
  <2>. QED BY <2>2, <2>3, InsertAtFacts DEF NamesInv
<1>7. CASE AddDriver
  <2>1. PICK answer \in InsertAnswers : AddName("driver", answer) /\ Charge(answer)
    BY <1>7, Zenon DEF AddDriver, AddIfMissing, Calls
  <2>2. pc = "adddriver" /\ pc' \in {"getcar"} /\ faults <= faults'
    BY <1>7, ChargeFacts DEF AddDriver, AddIfMissing, Calls, Goto
  <2>3. NamesRegisteredOnce'
    BY <2>1, <2>2, AddNameOnce, InsertAtFacts, NameFacts
  <2>. QED BY <2>2, <2>3, InsertAtFacts DEF NamesInv
<1>8. CASE AddCar
  <2>1. PICK answer \in InsertAnswers : AddName("car", answer) /\ Charge(answer)
    BY <1>8, Zenon DEF AddCar, AddIfMissing, Calls
  <2>2. pc = "addcar" /\ pc' \in {"firstpit"} /\ faults <= faults'
    BY <1>8, ChargeFacts DEF AddCar, AddIfMissing, Calls, Goto
  <2>3. NamesRegisteredOnce'
    BY <2>1, <2>2, AddNameOnce, InsertAtFacts, NameFacts
  <2>. QED BY <2>2, <2>3, InsertAtFacts DEF NamesInv
<1>. QED BY <1>1, <1>2, <1>3, <1>4, <1>5, <1>6, <1>7, <1>8, NamesMoves

(* However calls fail and processes die, a name gets a second row only by  *)
(* a change of the game's name between select and insert, or by a failed   *)
(* call for a driver or a car.                                             *)
THEOREM NamesRegisteredCorrect == Spec => []NamesRegisteredOnce
<1>1. Init => NamesInv
  <2>1. ASSUME Init PROVE pc = "idle" /\ \A t \in Named : catalog[t] = OldRows
    BY <2>1, NameFacts DEF Init
  <2>. QED BY <2>1, OldRowsFacts, InsertAtFacts, Zenon DEF NamesInv, NamesRegisteredOnce
<1>2. TypeOK /\ TypeOK' /\ NamesInv /\ [Next]_vars => NamesInv'
  BY NamesStep
<1>3. NamesInv => NamesRegisteredOnce
  BY DEF NamesInv
<1>. QED BY <1>1, <1>2, <1>3, TypeCorrect, PTL DEF Spec

-----------------------------------------------------------------------------
(* A pit entry makes at most two stints.                                   *)

(* A stint may follow without another pit entry: inpit is set where the    *)
(* last read did not see it.                                               *)
Waits(inpit, before) == IF inpit /\ ~before THEN 1 ELSE 0

FirstRows == {"addsession", "addstint"}
Adding    == {"p_closestint", "p_addstint"}
PitSeen   == {"checklap", "l_closelap", "l_addtelemetry", "l_update", "l_addlap", "tail"}

(* The stints that may still come without another pit entry, by the step   *)
(* the recorder is about to take, inpit now, as seen in this turn and as   *)
(* it was at the end of the last.                                          *)
Expects(p, inpit, now, before) ==
  CASE p \in Gone -> 0
    [] p \in FirstRows -> 1 + Waits(inpit, before)
    [] p \in NoStint \ FirstRows -> 1
    [] p \in Adding -> 1 + Waits(inpit, now)
    [] p = "checkpit" -> IF before THEN 2 * Waits(inpit, now) ELSE Waits(inpit, before)
    [] p \in PitSeen -> Waits(inpit, now)
    [] OTHER -> Waits(inpit, before)

Expected == Expects(pc, sim.inpit, seen.pit, last.pit)

PitInv ==
  /\ pc \in NoStint => RowsOf(stints, runs) = {}
  /\ Cardinality(RowsOf(stints, runs)) + Expected <= 1 + 2 * pitEntries

(* What is expected at each place.                                         *)
Preparing == {"connect", "gettrack", "addtrack", "addevent", "getdriver", "adddriver",
              "getcar", "addcar", "firstpit"}

LastPit == {"addlap", "enter", "leave", "tick", "s_closestint", "s_closesession",
            "s_addsession", "readpit", "e_addtelemetry", "e_update", "e_closelap",
            "e_closestint", "e_closesession", "close_db"}

(* The cases apart.                                                        *)
LEMMA ExpectsFacts ==
  ASSUME NEW inpit, NEW now, NEW before, NEW p
  PROVE  /\ p \in Gone => Expects(p, inpit, now, before) = 0
         /\ p \in FirstRows => Expects(p, inpit, now, before) = 1 + Waits(inpit, before)
         /\ p \in Preparing => Expects(p, inpit, now, before) = 1
         /\ p \in Adding => Expects(p, inpit, now, before) = 1 + Waits(inpit, now)
         /\ p = "checkpit" =>
              /\ before => Expects(p, inpit, now, before) = 2 * Waits(inpit, now)
              /\ ~before => Expects(p, inpit, now, before) = Waits(inpit, before)
         /\ p \in PitSeen => Expects(p, inpit, now, before) = Waits(inpit, now)
         /\ p \in LastPit => Expects(p, inpit, now, before) = Waits(inpit, before)
<1>1. p \in Gone => Expects(p, inpit, now, before) = 0
  BY SMT DEF Expects, Gone, FirstRows, NoStint, NoSession, BeforeSession, Adding, PitSeen
<1>2. p \in FirstRows => Expects(p, inpit, now, before) = 1 + Waits(inpit, before)
  BY SMT DEF Expects, Gone, FirstRows, NoStint, NoSession, BeforeSession, Adding, PitSeen
<1>3. p \in Preparing => Expects(p, inpit, now, before) = 1
  BY SMT DEF Expects, Gone, FirstRows, NoStint, NoSession, BeforeSession, Adding, PitSeen,
         Preparing
<1>4. p \in Adding => Expects(p, inpit, now, before) = 1 + Waits(inpit, now)
  BY SMT DEF Expects, Gone, FirstRows, NoStint, NoSession, BeforeSession, Adding, PitSeen
<1>5. p = "checkpit" =>
        Expects(p, inpit, now, before)
          = IF before THEN 2 * Waits(inpit, now) ELSE Waits(inpit, before)
  BY SMT DEF Expects, Gone, FirstRows, NoStint, NoSession, BeforeSession, Adding, PitSeen
<1>6. p \in PitSeen => Expects(p, inpit, now, before) = Waits(inpit, now)
  BY SMT DEF Expects, Gone, FirstRows, NoStint, NoSession, BeforeSession, Adding, PitSeen
<1>7. p \in LastPit => Expects(p, inpit, now, before) = Waits(inpit, before)
  BY SMT DEF Expects, Gone, FirstRows, NoStint, NoSession, BeforeSession, Adding, PitSeen,
         LastPit
<1>. QED BY <1>1, <1>2, <1>3, <1>4, <1>5, <1>6, <1>7, Zenon

(* No more than one stint waits; none does where inpit was seen.           *)
LEMMA WaitsFacts ==
  ASSUME NEW inpit
  PROVE  /\ \A before : Waits(inpit, before) \in {0, 1}
         /\ \A before : ~inpit \/ before => Waits(inpit, before) = 0
         /\ \A before : inpit /\ ~before => Waits(inpit, before) = 1
  BY Zenon DEF Waits

(* Every place is one of these.                                            *)
LEMMA Places ==
  Labels = Gone \cup FirstRows \cup Preparing \cup Adding \cup {"checkpit"}
                \cup PitSeen \cup LastPit
  BY SMT DEF Labels, Gone, FirstRows, Preparing, Adding, PitSeen, LastPit

(* At any place at most two stints are expected, and none where nothing    *)
(* runs.                                                                   *)
LEMMA ExpectsBound ==
  ASSUME NEW p \in Labels, NEW inpit, NEW now, NEW before
  PROVE  Expects(p, inpit, now, before) \in {0, 1, 2}
<1>1. Waits(inpit, now) \in {0, 1} /\ Waits(inpit, before) \in {0, 1}
  BY WaitsFacts
<1>2. CASE p = "checkpit"
  <2>1. CASE before
    <3>1. Expects(p, inpit, now, before) = 2 * Waits(inpit, now)
      BY <1>2, <2>1, ExpectsFacts, Zenon
    <3>. QED BY <1>1, <3>1, SMT
  <2>2. CASE ~before
    <3>1. Expects(p, inpit, now, before) = Waits(inpit, before)
      BY <1>2, <2>2, ExpectsFacts, Zenon
    <3>. QED BY <1>1, <3>1, SMT
  <2>. QED BY <2>1, <2>2
<1>3. CASE p # "checkpit"
  <2>1. \/ Expects(p, inpit, now, before) = 0
        \/ Expects(p, inpit, now, before) = 1 + Waits(inpit, before)
        \/ Expects(p, inpit, now, before) = 1
        \/ Expects(p, inpit, now, before) = 1 + Waits(inpit, now)
        \/ Expects(p, inpit, now, before) = Waits(inpit, now)
        \/ Expects(p, inpit, now, before) = Waits(inpit, before)
    BY <1>3, ExpectsFacts, Places, Zenon
  <2>. QED BY <1>1, <2>1, SMT
<1>. QED BY <1>2, <1>3

(* A step that adds no stint and expects no more of them.                  *)
Eases ==
  /\ stints' = stints \/ \E answer \in CallAnswers : CloseStintRow(answer)
  /\ runs' = runs /\ pitEntries' = pitEntries
  /\ pc' \in NoStint => pc \in NoStint
  /\ Expected' <= Expected

(* The facts of what is expected, now and after the step.                  *)
LEMMA ExpectedNow ==
  /\ pc \in Gone => Expected = 0
  /\ pc \in FirstRows => Expected = 1 + Waits(sim.inpit, last.pit)
  /\ pc \in Preparing => Expected = 1
  /\ pc \in Adding => Expected = 1 + Waits(sim.inpit, seen.pit)
  /\ pc = "checkpit" =>
       /\ last.pit => Expected = 2 * Waits(sim.inpit, seen.pit)
       /\ ~last.pit => Expected = Waits(sim.inpit, last.pit)
  /\ pc \in PitSeen => Expected = Waits(sim.inpit, seen.pit)
  /\ pc \in LastPit => Expected = Waits(sim.inpit, last.pit)
  BY ExpectsFacts DEF Expected

(* The same after the step.                                                *)
LEMMA ExpectedThen ==
  /\ pc' \in Gone => Expected' = 0
  /\ pc' \in FirstRows => Expected' = 1 + Waits(sim'.inpit, last'.pit)
  /\ pc' \in Preparing => Expected' = 1
  /\ pc' \in Adding => Expected' = 1 + Waits(sim'.inpit, seen'.pit)
  /\ pc' = "checkpit" =>
       /\ last'.pit => Expected' = 2 * Waits(sim'.inpit, seen'.pit)
       /\ ~last'.pit => Expected' = Waits(sim'.inpit, last'.pit)
  /\ pc' \in PitSeen => Expected' = Waits(sim'.inpit, seen'.pit)
  /\ pc' \in LastPit => Expected' = Waits(sim'.inpit, last'.pit)
  BY ExpectsFacts DEF Expected

(* The steps within one kind of place that leave what it looks at alone.   *)
LEMMA SamePlace ==
  ASSUME TypeOK, sim'.inpit = sim.inpit,
         \/ pc \in LastPit /\ pc' \in LastPit /\ last'.pit = last.pit
         \/ pc \in PitSeen /\ pc' \in PitSeen /\ seen'.pit = seen.pit
         \/ pc \in Adding /\ pc' \in Adding /\ seen'.pit = seen.pit
         \/ pc \in FirstRows /\ pc' \in FirstRows /\ last'.pit = last.pit
         \/ pc \in Preparing /\ pc' \in Preparing
         \/ pc' \in Gone
  PROVE  Expected' <= Expected
<1>1. Expected \in {0, 1, 2}
  BY ExpectsBound, Zenon DEF Expected, TypeOK, ThreadTypes
<1>2. Expected' = Expected \/ Expected' = 0
  BY ExpectedNow, ExpectedThen, Zenon
<1>. QED BY <1>1, <1>2, SMT

(* Every step but four adds no stint and expects no more of them.          *)
LEMMA PitMoves ==
  ASSUME TypeOK, [Next]_vars
  PROVE  \/ Eases \/ AddStint \/ PitAddsStint \/ StartRun \/ SimWrites
<1>. seen \in ReadRecords /\ last \in ReadRecords
  BY DEF TypeOK, ThreadTypes
<1>1. ASSUME Connect PROVE Eases
  <2>1. stints' = stints /\ runs' = runs /\ pitEntries' = pitEntries /\ sim' = sim
    BY <1>1, Zenon DEF Connect, db, world
  <2>2. /\ pc \in Preparing
        /\ pc' \in Preparing \/ pc' \in Gone
        /\ pc' \in NoStint => pc \in NoStint
    BY <1>1, SMT DEF Connect, Preparing, NoStint, NoSession, BeforeSession, Gone
  <2>. QED BY <2>1, <2>2, SamePlace DEF Eases
<1>2. ASSUME GetTrack PROVE Eases
  <2>1. stints' = stints /\ runs' = runs /\ pitEntries' = pitEntries /\ sim' = sim
    BY <1>2, Zenon DEF GetTrack, db, world
  <2>2. /\ pc \in Preparing
        /\ pc' \in Preparing \/ pc' \in Gone
        /\ pc' \in NoStint => pc \in NoStint
    BY <1>2, SMT DEF GetTrack, Preparing, NoStint, NoSession, BeforeSession, Gone
  <2>. QED BY <2>1, <2>2, SamePlace DEF Eases
<1>3. ASSUME AddTrack PROVE Eases
  <2>1. stints' = stints /\ runs' = runs /\ pitEntries' = pitEntries /\ sim' = sim
    BY <1>3, Zenon DEF AddTrack, db, world
  <2>2. /\ pc \in Preparing
        /\ pc' \in Preparing \/ pc' \in Gone
        /\ pc' \in NoStint => pc \in NoStint
    BY <1>3, SMT DEF AddTrack, Preparing, NoStint, NoSession, BeforeSession, Gone
  <2>. QED BY <2>1, <2>2, SamePlace DEF Eases
<1>4. ASSUME AddEvent PROVE Eases
  <2>1. /\ stints' = stints
        /\ runs' = runs /\ pitEntries' = pitEntries /\ sim' = sim
    BY <1>4, Zenon DEF AddEvent, Keep, world
  <2>2. pc \in Preparing /\ pc' \in Preparing /\ (pc' \in NoStint => pc \in NoStint)
    BY <1>4, SMT DEF AddEvent, Calls, Goto, Preparing, NoStint, NoSession, BeforeSession, Gone
  <2>. QED BY <2>1, <2>2, SamePlace DEF Eases
<1>5. ASSUME GetDriver PROVE Eases
  <2>1. /\ stints' = stints
        /\ runs' = runs /\ pitEntries' = pitEntries /\ sim' = sim
    BY <1>5, Zenon DEF GetDriver, GetName, Keep, world, db
  <2>2. pc \in Preparing /\ pc' \in Preparing /\ (pc' \in NoStint => pc \in NoStint)
  BY <1>5, SMT DEF GetDriver, GetName, Calls, Goto, Preparing, NoStint, NoSession,
     BeforeSession, Gone
  <2>. QED BY <2>1, <2>2, SamePlace DEF Eases
<1>6. ASSUME GetCar PROVE Eases
  <2>1. /\ stints' = stints
        /\ runs' = runs /\ pitEntries' = pitEntries /\ sim' = sim
    BY <1>6, Zenon DEF GetCar, GetName, Keep, world, db
  <2>2. pc \in Preparing /\ pc' \in Preparing /\ (pc' \in NoStint => pc \in NoStint)
  BY <1>6, SMT DEF GetCar, GetName, Calls, Goto, Preparing, NoStint, NoSession,
     BeforeSession, Gone
  <2>. QED BY <2>1, <2>2, SamePlace DEF Eases
<1>7. ASSUME AddDriver PROVE Eases
  <2>1. /\ stints' = stints
        /\ runs' = runs /\ pitEntries' = pitEntries /\ sim' = sim
    BY <1>7, Zenon DEF AddDriver, AddIfMissing, Keep, world
  <2>2. pc \in Preparing /\ pc' \in Preparing /\ (pc' \in NoStint => pc \in NoStint)
  BY <1>7, SMT DEF AddDriver, AddIfMissing, Calls, Goto, Preparing, NoStint, NoSession,
     BeforeSession, Gone
  <2>. QED BY <2>1, <2>2, SamePlace DEF Eases
<1>8. ASSUME AddCar PROVE Eases
  <2>1. /\ stints' = stints
        /\ runs' = runs /\ pitEntries' = pitEntries /\ sim' = sim
    BY <1>8, Zenon DEF AddCar, AddIfMissing, Keep, world
  <2>2. pc \in Preparing /\ pc' \in Preparing /\ (pc' \in NoStint => pc \in NoStint)
  BY <1>8, SMT DEF AddCar, AddIfMissing, Calls, Goto, Preparing, NoStint, NoSession,
     BeforeSession, Gone
  <2>. QED BY <2>1, <2>2, SamePlace DEF Eases
<1>9. ASSUME FirstPit PROVE Eases
  <2>1. stints' = stints /\ runs' = runs /\ pitEntries' = pitEntries /\ sim' = sim
    BY <1>9, Zenon DEF FirstPit, Keep, world, db
  <2>2. /\ pc \in Preparing /\ pc' \in FirstRows
        /\ pc' \in NoStint => pc \in NoStint
    BY <1>9, SMT DEF FirstPit, Goto, Preparing, FirstRows, NoStint, NoSession, BeforeSession, Gone
  <2>3. last'.pit = sim.inpit
    BY <1>9 DEF FirstPit, ReadRecords
  <2>4. Waits(sim'.inpit, last'.pit) = 0
    BY <2>1, <2>3 DEF Waits
  <2>5. Expected = 1 /\ Expected' = 1 + Waits(sim'.inpit, last'.pit)
    BY <2>2, ExpectedNow, ExpectedThen, Zenon
  <2>. QED BY <2>1, <2>2, <2>4, <2>5 DEF Eases
<1>10. ASSUME AddSession PROVE Eases
  <2>1. /\ stints' = stints
        /\ runs' = runs /\ pitEntries' = pitEntries /\ sim' = sim
    BY <1>10, Zenon DEF AddSession, AddSessionRow, Keep, world
  <2>2. pc \in FirstRows /\ pc' \in FirstRows /\ (pc' \in NoStint => pc \in NoStint)
    BY <1>10, SMT DEF AddSession, Calls, Goto, FirstRows, NoStint, NoSession, BeforeSession, Gone
  <2>3. last'.pit = last.pit
    BY <1>10 DEF AddSession, AddSessionRow, reads, ReadRecords
  <2>. QED BY <2>1, <2>2, <2>3, SamePlace DEF Eases
<1>11. ASSUME AddLap PROVE Eases
  <2>1. /\ stints' = stints
        /\ runs' = runs /\ pitEntries' = pitEntries /\ sim' = sim
    BY <1>11, Zenon DEF AddLap, AddLapRow, Keep, world
  <2>2. pc \in LastPit /\ pc' \in LastPit /\ (pc' \in NoStint => pc \in NoStint)
    BY <1>11, SMT DEF AddLap, Calls, Goto, LastPit, NoStint, NoSession, BeforeSession, Gone
  <2>3. last'.pit = last.pit
    BY <1>11 DEF AddLap, AddLapRow, reads, ReadRecords
  <2>. QED BY <2>1, <2>2, <2>3, SamePlace DEF Eases
<1>12. ASSUME Enter PROVE Eases
  <2>1. /\ stints' = stints
        /\ runs' = runs /\ pitEntries' = pitEntries /\ sim' = sim
    BY <1>12, Zenon DEF Enter, Keep, world, db
  <2>2. pc \in LastPit /\ pc' \in LastPit /\ (pc' \in NoStint => pc \in NoStint)
    BY <1>12, SMT DEF Enter, LastPit, NoStint, NoSession, BeforeSession, Gone
  <2>3. last'.pit = last.pit
    BY <1>12 DEF Enter, ReadRecords
  <2>. QED BY <2>1, <2>2, <2>3, SamePlace DEF Eases
<1>13. ASSUME Tick PROVE Eases
  <2>1. /\ stints' = stints
        /\ runs' = runs /\ pitEntries' = pitEntries /\ sim' = sim
    BY <1>13, Zenon DEF Tick, Keep, world, db
  <2>2. pc \in LastPit /\ pc' \in LastPit /\ (pc' \in NoStint => pc \in NoStint)
    BY <1>13, SMT DEF Tick, LastPit, NoStint, NoSession, BeforeSession, Gone
  <2>3. last'.pit = last.pit
    BY <1>13 DEF Tick, ReadRecords
  <2>. QED BY <2>1, <2>2, <2>3, SamePlace DEF Eases
<1>14. ASSUME SessionClosesStint PROVE Eases
  <2>1. /\ \E answer \in CallAnswers : CloseStintRow(answer)
        /\ runs' = runs /\ pitEntries' = pitEntries /\ sim' = sim
    BY <1>14, Zenon DEF SessionClosesStint, CloseStintRow, Keep, world
  <2>2. pc \in LastPit /\ pc' \in LastPit /\ (pc' \in NoStint => pc \in NoStint)
  BY <1>14, SMT DEF SessionClosesStint, Calls, Goto, LastPit, NoStint, NoSession,
     BeforeSession, Gone
  <2>3. last'.pit = last.pit
    BY <1>14 DEF SessionClosesStint, CloseStintRow, local, reads, ReadRecords
  <2>. QED BY <2>1, <2>2, <2>3, SamePlace DEF Eases
<1>15. ASSUME SessionCloses PROVE Eases
  <2>1. /\ stints' = stints
        /\ runs' = runs /\ pitEntries' = pitEntries /\ sim' = sim
    BY <1>15, Zenon DEF SessionCloses, CloseSessionRow, Keep, world
  <2>2. pc \in LastPit /\ pc' \in LastPit /\ (pc' \in NoStint => pc \in NoStint)
    BY <1>15, SMT DEF SessionCloses, Calls, Goto, LastPit, NoStint, NoSession, BeforeSession, Gone
  <2>3. last'.pit = last.pit
    BY <1>15 DEF SessionCloses, CloseSessionRow, reads, ReadRecords
  <2>. QED BY <2>1, <2>2, <2>3, SamePlace DEF Eases
<1>16. ASSUME SessionAdds PROVE Eases
  <2>1. /\ stints' = stints
        /\ runs' = runs /\ pitEntries' = pitEntries /\ sim' = sim
    BY <1>16, Zenon DEF SessionAdds, AddSessionRow, Keep, world
  <2>2. pc \in LastPit /\ pc' \in LastPit /\ (pc' \in NoStint => pc \in NoStint)
    BY <1>16, SMT DEF SessionAdds, Calls, Goto, LastPit, NoStint, NoSession, BeforeSession, Gone
  <2>3. last'.pit = last.pit
    BY <1>16 DEF SessionAdds, AddSessionRow, reads, ReadRecords
  <2>. QED BY <2>1, <2>2, <2>3, SamePlace DEF Eases
<1>17. ASSUME ReadPit PROVE Eases
  <2>1. stints' = stints /\ runs' = runs /\ pitEntries' = pitEntries /\ sim' = sim
    BY <1>17, Zenon DEF ReadPit, Keep, world, db
  <2>2. pc \in LastPit /\ pc' = "checkpit" /\ pc' \notin NoStint
    BY <1>17, SMT DEF ReadPit, Goto, LastPit, NoStint, NoSession, BeforeSession, Gone
  <2>3. seen'.pit = sim.inpit /\ last' = last
    BY <1>17 DEF ReadPit, ReadRecords
  <2>4. Expected = Waits(sim.inpit, last.pit)
    BY <2>2, ExpectedNow, ExpectedThen, Zenon
  <2>5. CASE last.pit
    <3>1. Waits(sim'.inpit, seen'.pit) = 0
      BY <2>1, <2>3 DEF Waits
    <3>2. Expected' = 2 * Waits(sim'.inpit, seen'.pit)
      BY <2>2, <2>3, <2>5, ExpectedNow, ExpectedThen, Zenon
    <3>3. Expected \in {0, 1}
      BY <2>4, WaitsFacts, Zenon
    <3>4. Expected' <= Expected
      BY <3>1, <3>2, <3>3, SMT
    <3>. QED BY <2>1, <2>2, <3>4, Zenon DEF Eases
  <2>6. CASE ~last.pit
    <3>1. Expected' = Expected
      BY <2>1, <2>2, <2>3, <2>4, <2>6, ExpectedNow, ExpectedThen, Zenon
    <3>2. Expected \in {0, 1}
      BY <2>4, WaitsFacts, Zenon
    <3>3. Expected' <= Expected
      BY <3>1, <3>2, SMT
    <3>. QED BY <2>1, <2>2, <3>3, Zenon DEF Eases
  <2>. QED BY <2>5, <2>6
<1>18. ASSUME CheckPit PROVE Eases
  <2>1. stints' = stints /\ runs' = runs /\ pitEntries' = pitEntries /\ sim' = sim
    BY <1>18, Zenon DEF CheckPit, Keep, world, db
  <2>2. pc = "checkpit" /\ pc' \notin NoStint
    BY <1>18, SMT DEF CheckPit, Goto, NoStint, NoSession, BeforeSession, Gone
  <2>3. seen' = seen /\ last' = last
    BY <1>18, Zenon DEF CheckPit, local, reads
  <2>4. \/ pc' = "p_closestint" /\ sim.inpit /\ seen.pit # last.pit
        \/ pc' = "checklap"
    BY <1>18 DEF CheckPit, Goto
  <2>5. Waits(sim.inpit, seen.pit) \in {0, 1} /\ Waits(sim.inpit, last.pit) \in {0, 1}
    BY WaitsFacts, Zenon
  <2>6. pc' = "p_closestint" => Expected' = 1 + Waits(sim.inpit, seen.pit)
    <3>1. pc' = "p_closestint" => pc' \in Adding
      BY DEF Adding
    <3>. QED BY <2>1, <2>3, <3>1, ExpectedNow, ExpectedThen, Zenon
  <2>7. pc' = "checklap" => Expected' = Waits(sim.inpit, seen.pit)
    <3>1. pc' = "checklap" => pc' \in PitSeen
      BY DEF PitSeen
    <3>. QED BY <2>1, <2>3, <3>1, ExpectedNow, ExpectedThen, Zenon
  <2>8. CASE last.pit
    <3>1. Expected = 2 * Waits(sim.inpit, seen.pit)
      BY <2>2, <2>8, ExpectedNow, ExpectedThen, Zenon
    <3>2. sim.inpit /\ seen.pit # last.pit => Waits(sim.inpit, seen.pit) = 1
      <4>1. seen.pit # last.pit => ~seen.pit
        BY <2>8 DEF ReadRecords
      <4>. QED BY <4>1, Zenon DEF Waits
    <3>3. Expected' <= Expected
      BY <2>4, <2>5, <2>6, <2>7, <3>1, <3>2, SMT
    <3>. QED BY <2>1, <2>2, <3>3, Zenon DEF Eases
  <2>9. CASE ~last.pit
    <3>1. Expected = Waits(sim.inpit, last.pit)
      BY <2>2, <2>9, ExpectedNow, ExpectedThen, Zenon
    <3>2. /\ sim.inpit => Waits(sim.inpit, last.pit) = 1
          /\ ~sim.inpit => Waits(sim.inpit, seen.pit) = 0
      BY <2>9, WaitsFacts, Zenon
    <3>3. seen.pit # last.pit => Waits(sim.inpit, seen.pit) = 0
      <4>1. seen.pit # last.pit => seen.pit
        BY <2>9 DEF ReadRecords
      <4>. QED BY <4>1, WaitsFacts, Zenon
    <3>4. Expected' <= Expected
      <4>1. CASE pc' = "p_closestint"
        BY <2>4, <2>5, <2>6, <3>1, <3>2, <3>3, <4>1, SMT
      <4>2. CASE pc' = "checklap"
        BY <2>5, <2>7, <3>1, <3>2, <4>2, SMT
      <4>. QED BY <2>4, <4>1, <4>2
    <3>. QED BY <2>1, <2>2, <3>4, Zenon DEF Eases
  <2>. QED BY <2>8, <2>9
<1>19. ASSUME PitClosesStint PROVE Eases
  <2>1. /\ \E answer \in CallAnswers : CloseStintRow(answer)
        /\ runs' = runs /\ pitEntries' = pitEntries /\ sim' = sim
    BY <1>19, Zenon DEF PitClosesStint, CloseStintRow, Keep, world
  <2>2. pc \in Adding /\ pc' \in Adding /\ (pc' \in NoStint => pc \in NoStint)
    BY <1>19, SMT DEF PitClosesStint, Calls, Goto, Adding, NoStint, NoSession, BeforeSession, Gone
  <2>3. seen'.pit = seen.pit
    BY <1>19 DEF PitClosesStint, CloseStintRow, local, reads, ReadRecords
  <2>. QED BY <2>1, <2>2, <2>3, SamePlace DEF Eases
<1>20. ASSUME CheckLap PROVE Eases
  <2>1. /\ stints' = stints
        /\ runs' = runs /\ pitEntries' = pitEntries /\ sim' = sim
    BY <1>20, Zenon DEF CheckLap, Keep, world, db
  <2>2. pc \in PitSeen /\ pc' \in PitSeen /\ (pc' \in NoStint => pc \in NoStint)
    BY <1>20, SMT DEF CheckLap, PitSeen, NoStint, NoSession, BeforeSession, Gone
  <2>3. seen'.pit = seen.pit
    BY <1>20 DEF CheckLap, reads, ReadRecords
  <2>. QED BY <2>1, <2>2, <2>3, SamePlace DEF Eases
<1>21. ASSUME LapCloses PROVE Eases
  <2>1. /\ stints' = stints
        /\ runs' = runs /\ pitEntries' = pitEntries /\ sim' = sim
    BY <1>21, Zenon DEF LapCloses, CloseLapRow, Keep, world
  <2>2. pc \in PitSeen /\ pc' \in PitSeen /\ (pc' \in NoStint => pc \in NoStint)
    BY <1>21, SMT DEF LapCloses, Calls, Goto, PitSeen, NoStint, NoSession, BeforeSession, Gone
  <2>3. seen'.pit = seen.pit
    BY <1>21 DEF LapCloses, CloseLapRow, local, reads, ReadRecords
  <2>. QED BY <2>1, <2>2, <2>3, SamePlace DEF Eases
<1>22. ASSUME LapAddsTelemetry PROVE Eases
  <2>1. /\ stints' = stints
        /\ runs' = runs /\ pitEntries' = pitEntries /\ sim' = sim
    BY <1>22, Zenon DEF LapAddsTelemetry, AddTelemetryRow, Keep, world
  <2>2. pc \in PitSeen /\ pc' \in PitSeen /\ (pc' \in NoStint => pc \in NoStint)
  BY <1>22, SMT DEF LapAddsTelemetry, Calls, Goto, PitSeen, NoStint, NoSession,
     BeforeSession, Gone
  <2>3. seen'.pit = seen.pit
    BY <1>22 DEF LapAddsTelemetry, AddTelemetryRow, reads, ReadRecords
  <2>. QED BY <2>1, <2>2, <2>3, SamePlace DEF Eases
<1>23. ASSUME LapStoresChannel PROVE Eases
  <2>1. /\ stints' = stints
        /\ runs' = runs /\ pitEntries' = pitEntries /\ sim' = sim
    BY <1>23, Zenon DEF LapStoresChannel, UpdateTelemetry, Keep, world
  <2>2. pc \in PitSeen /\ pc' \in PitSeen /\ (pc' \in NoStint => pc \in NoStint)
  BY <1>23, SMT DEF LapStoresChannel, UpdateTelemetry, PitSeen, NoStint, NoSession,
     BeforeSession, Gone
  <2>3. seen'.pit = seen.pit
    BY <1>23 DEF LapStoresChannel, UpdateTelemetry, reads, ReadRecords
  <2>. QED BY <2>1, <2>2, <2>3, SamePlace DEF Eases
<1>24. ASSUME LapAdds PROVE Eases
  <2>1. /\ stints' = stints
        /\ runs' = runs /\ pitEntries' = pitEntries /\ sim' = sim
    BY <1>24, Zenon DEF LapAdds, AddLapRow, Keep, world
  <2>2. pc \in PitSeen /\ pc' \in PitSeen /\ (pc' \in NoStint => pc \in NoStint)
    BY <1>24, SMT DEF LapAdds, Calls, Goto, PitSeen, NoStint, NoSession, BeforeSession, Gone
  <2>3. seen'.pit = seen.pit
    BY <1>24 DEF LapAdds, AddLapRow, reads, ReadRecords
  <2>. QED BY <2>1, <2>2, <2>3, SamePlace DEF Eases
<1>25. ASSUME EndOfTurn PROVE Eases
  <2>1. stints' = stints /\ runs' = runs /\ pitEntries' = pitEntries /\ sim' = sim
    BY <1>25, Zenon DEF EndOfTurn, Keep, world, db
  <2>2. pc \in PitSeen /\ pc' \in LastPit /\ pc' \notin NoStint
    BY <1>25, SMT DEF EndOfTurn, PitSeen, LastPit, NoStint, NoSession, BeforeSession, Gone
  <2>3. last'.pit = seen.pit
    BY <1>25, Zenon DEF EndOfTurn
  <2>4. Expected = Waits(sim.inpit, seen.pit) /\ Expected' = Waits(sim'.inpit, last'.pit)
    BY <2>2, ExpectedNow, ExpectedThen, Zenon
  <2>5. Expected' = Expected /\ Expected \in {0, 1}
    BY <2>1, <2>3, <2>4, WaitsFacts, Zenon
  <2>6. Expected' <= Expected
    BY <2>5, SMT
  <2>. QED BY <2>1, <2>2, <2>6, Zenon DEF Eases
<1>26. ASSUME EndAddsTelemetry PROVE Eases
  <2>1. /\ stints' = stints
        /\ runs' = runs /\ pitEntries' = pitEntries /\ sim' = sim
    BY <1>26, Zenon DEF EndAddsTelemetry, AddTelemetryRow, Keep, world
  <2>2. pc \in LastPit /\ pc' \in LastPit /\ (pc' \in NoStint => pc \in NoStint)
  BY <1>26, SMT DEF EndAddsTelemetry, Calls, Goto, LastPit, NoStint, NoSession,
     BeforeSession, Gone
  <2>3. last'.pit = last.pit
    BY <1>26 DEF EndAddsTelemetry, AddTelemetryRow, reads, ReadRecords
  <2>. QED BY <2>1, <2>2, <2>3, SamePlace DEF Eases
<1>27. ASSUME EndStoresChannel PROVE Eases
  <2>1. /\ stints' = stints
        /\ runs' = runs /\ pitEntries' = pitEntries /\ sim' = sim
    BY <1>27, Zenon DEF EndStoresChannel, UpdateTelemetry, Keep, world
  <2>2. pc \in LastPit /\ pc' \in LastPit /\ (pc' \in NoStint => pc \in NoStint)
  BY <1>27, SMT DEF EndStoresChannel, UpdateTelemetry, LastPit, NoStint, NoSession,
     BeforeSession, Gone
  <2>3. last'.pit = last.pit
    BY <1>27 DEF EndStoresChannel, UpdateTelemetry, reads, ReadRecords
  <2>. QED BY <2>1, <2>2, <2>3, SamePlace DEF Eases
<1>28. ASSUME EndClosesLap PROVE Eases
  <2>1. /\ stints' = stints
        /\ runs' = runs /\ pitEntries' = pitEntries /\ sim' = sim
    BY <1>28, Zenon DEF EndClosesLap, CloseLapRow, Keep, world
  <2>2. pc \in LastPit /\ pc' \in LastPit /\ (pc' \in NoStint => pc \in NoStint)
    BY <1>28, SMT DEF EndClosesLap, Calls, Goto, LastPit, NoStint, NoSession, BeforeSession, Gone
  <2>3. last'.pit = last.pit
    BY <1>28 DEF EndClosesLap, CloseLapRow, local, reads, ReadRecords
  <2>. QED BY <2>1, <2>2, <2>3, SamePlace DEF Eases
<1>29. ASSUME EndClosesStint PROVE Eases
  <2>1. /\ \E answer \in CallAnswers : CloseStintRow(answer)
        /\ runs' = runs /\ pitEntries' = pitEntries /\ sim' = sim
    BY <1>29, Zenon DEF EndClosesStint, CloseStintRow, Keep, world
  <2>2. pc \in LastPit /\ pc' \in LastPit /\ (pc' \in NoStint => pc \in NoStint)
    BY <1>29, SMT DEF EndClosesStint, Calls, Goto, LastPit, NoStint, NoSession, BeforeSession, Gone
  <2>3. last'.pit = last.pit
    BY <1>29 DEF EndClosesStint, CloseStintRow, local, reads, ReadRecords
  <2>. QED BY <2>1, <2>2, <2>3, SamePlace DEF Eases
<1>30. ASSUME EndClosesSession PROVE Eases
  <2>1. /\ stints' = stints
        /\ runs' = runs /\ pitEntries' = pitEntries /\ sim' = sim
    BY <1>30, Zenon DEF EndClosesSession, CloseSessionRow, Keep, world
  <2>2. pc \in LastPit /\ pc' \in LastPit /\ (pc' \in NoStint => pc \in NoStint)
  BY <1>30, SMT DEF EndClosesSession, Calls, Goto, LastPit, NoStint, NoSession,
     BeforeSession, Gone
  <2>3. last'.pit = last.pit
    BY <1>30 DEF EndClosesSession, CloseSessionRow, reads, ReadRecords
  <2>. QED BY <2>1, <2>2, <2>3, SamePlace DEF Eases
<1>31. ASSUME CloseDb PROVE Eases
  <2>1. /\ stints' = stints
        /\ runs' = runs /\ pitEntries' = pitEntries /\ sim' = sim
    BY <1>31, Zenon DEF CloseDb, Keep, world, db
  <2>2. pc' \in Gone /\ pc' \notin NoStint
    BY <1>31, SMT DEF CloseDb, NoStint, NoSession, BeforeSession, Gone
  <2>. QED BY <2>1, <2>2, SamePlace DEF Eases
<1>32. ASSUME ProcessEnds PROVE Eases
  <2>1. /\ stints' = stints
        /\ runs' = runs /\ pitEntries' = pitEntries /\ sim' = sim
    BY <1>32, Zenon DEF ProcessEnds, world, db
  <2>2. pc' \in Gone /\ pc' \notin NoStint
    BY <1>32, SMT DEF ProcessEnds, NoStint, NoSession, BeforeSession, Gone
  <2>. QED BY <2>1, <2>2, SamePlace DEF Eases
<1>33. ASSUME StopRun \/ UNCHANGED vars PROVE Eases
  <2>1. UNCHANGED <<stints, runs, pitEntries, pc, sim, seen, last>>
    BY <1>33, Zenon DEF StopRun, vars, db, local, reads, world
  <2>2. Expected' = Expected /\ Expected \in {0, 1, 2}
    BY <2>1, ExpectsBound, Zenon DEF Expected, TypeOK, ThreadTypes
  <2>3. Expected' <= Expected
    BY <2>2, SMT
  <2>. QED BY <2>1, <2>3, Zenon DEF Eases
<1>. QED
  BY <1>1, <1>2, <1>3, <1>4, <1>5, <1>6, <1>7, <1>8, <1>9, <1>10, <1>11, <1>12, <1>13,
     <1>14, <1>15, <1>16, <1>17, <1>18, <1>19, <1>20, <1>21, <1>22, <1>23, <1>24, <1>25,
     <1>26, <1>27, <1>28, <1>29, <1>30, <1>31, <1>32, <1>33, Zenon
  DEF Next, RecorderStep, SetUp, Turn, Stop, Finished

(* The rows of a run are counted.                                          *)
LEMMA RowsCounted ==
  ASSUME NEW S, NEW table \in Seq(S), NEW n
  PROVE  IsFiniteSet(RowsOf(table, n)) /\ Cardinality(RowsOf(table, n)) \in Nat
<1>1. IsFiniteSet(1 .. Len(table))
  BY FS_Interval
<1>2. RowsOf(table, n) \subseteq 1 .. Len(table)
  BY DEF RowsOf
<1>. QED BY <1>1, <1>2, FS_Subset, FS_CardinalityType

(* An insert counts at most one up.                                        *)
LEMMA InsertCounted ==
  ASSUME NEW S, NEW table \in Seq(S), NEW row \in S, NEW answer \in InsertAnswers, NEW n
  PROVE  /\ IsFiniteSet(RowsOf(Insert(table, row, answer), n))
         /\ Cardinality(RowsOf(Insert(table, row, answer), n)) <= Cardinality(RowsOf(table, n)) + 1
<1>1. /\ DOMAIN table \subseteq DOMAIN Insert(table, row, answer)
      /\ \A i \in DOMAIN table : Insert(table, row, answer)[i] = table[i]
      /\ \A i \in DOMAIN Insert(table, row, answer) : i \in DOMAIN table \/ i = Len(table) + 1
  BY InsertFacts
<1>2. /\ IsFiniteSet(RowsOf(table, n)) /\ Cardinality(RowsOf(table, n)) \in Nat
  BY RowsCounted
<1>3. \/ RowsOf(Insert(table, row, answer), n) = RowsOf(table, n)
      \/ RowsOf(Insert(table, row, answer), n) = RowsOf(table, n) \cup {Len(table) + 1}
  BY <1>1 DEF RowsOf
<1>4. /\ IsFiniteSet(RowsOf(table, n) \cup {Len(table) + 1})
      /\ \/ Cardinality(RowsOf(table, n) \cup {Len(table) + 1}) = Cardinality(RowsOf(table, n))
         \/ Cardinality(RowsOf(table, n) \cup {Len(table) + 1}) = Cardinality(RowsOf(table, n)) + 1
  BY <1>2, FS_AddElement
<1>5. CASE RowsOf(Insert(table, row, answer), n) = RowsOf(table, n)
  BY <1>2, <1>5
<1>6. CASE RowsOf(Insert(table, row, answer), n) = RowsOf(table, n) \cup {Len(table) + 1}
  BY <1>2, <1>4, <1>6
<1>. QED BY <1>3, <1>5, <1>6

(* The sums that are compared.                                             *)
LEMMA SumKept ==
  ASSUME NEW m \in Nat, NEW e \in Nat, NEW f \in Nat, NEW p \in Nat, NEW q \in Nat,
         m + e <= 1 + 2 * p, f - 2 * q <= e - 2 * p
  PROVE  m + f <= 1 + 2 * q
  BY SMT

(* One more counted, one less expected.                                    *)
LEMMA SumMoved ==
  ASSUME NEW m \in Nat, NEW n \in Nat, NEW e \in Nat, NEW f \in Nat, NEW p \in Nat,
         m + e <= 1 + 2 * p, n <= m + 1, f + 1 <= e
  PROVE  n + f <= 1 + 2 * p
  BY SMT

(* Less expected, as many pit entries.                                     *)
LEMMA SumLess ==
  ASSUME NEW e \in Nat, NEW f \in Nat, NEW p \in Nat, f <= e
  PROVE  f - 2 * p <= e - 2 * p
  BY SMT

(* One more pit entry, two more expected.                                  *)
LEMMA SumTwo ==
  ASSUME NEW e \in {0, 1, 2}, NEW f \in {0, 1, 2}, NEW p \in Nat
  PROVE  f - 2 * (p + 1) <= e - 2 * p
  BY SMT

(* A stint is added where one was expected.                                *)
LEMMA StintAdded ==
  ASSUME TypeOK, PitInv, NEW answer \in InsertAnswers, AddStintRow(answer),
         pc' \notin NoStint, Expected' + 1 <= Expected, Expected' \in Nat, Expected \in Nat
  PROVE  PitInv'
<1>1. stints' = Insert(stints, StintRow(id.session, id.driver, runs), answer)
  BY Zenon DEF AddStintRow
<1>2. runs' = runs /\ pitEntries' = pitEntries
  BY Zenon DEF AddStintRow, Keep, world
<1>3. stints \in Seq(StintRows) /\ StintRow(id.session, id.driver, runs) \in StintRows
  BY NewRows DEF TypeOK, TableTypes
<1>4. /\ Cardinality(RowsOf(stints', runs')) <= Cardinality(RowsOf(stints, runs)) + 1
      /\ IsFiniteSet(RowsOf(stints', runs'))
  BY <1>1, <1>2, <1>3, InsertCounted, Zenon
<1>5. Cardinality(RowsOf(stints, runs)) \in Nat /\ Cardinality(RowsOf(stints', runs')) \in Nat
  BY <1>3, <1>4, RowsCounted, FS_CardinalityType
<1>6. pitEntries \in Nat
  BY DEF TypeOK, WorldTypes
<1>7. Cardinality(RowsOf(stints, runs)) + Expected <= 1 + 2 * pitEntries
  BY DEF PitInv
<1>8. Cardinality(RowsOf(stints', runs')) + Expected' <= 1 + 2 * pitEntries
  <2>. DEFINE m == Cardinality(RowsOf(stints, runs))
              n == Cardinality(RowsOf(stints', runs'))
  <2>1. n <= m + 1 /\ m \in Nat /\ n \in Nat /\ m + Expected <= 1 + 2 * pitEntries
    BY <1>4, <1>5, <1>7
  <2>. HIDE DEF m, n
  <2>2. n + Expected' <= 1 + 2 * pitEntries
    BY <1>6, <2>1, SumMoved
  <2>. QED BY <2>2 DEF n
<1>. QED BY <1>2, <1>8 DEF PitInv

(* The pit entries make up for what they let be expected.                  *)
LEMMA PitWritten ==
  ASSUME TypeOK, SimWrites
  PROVE  /\ UNCHANGED <<pc, stints, runs>>
         /\ Expected' - 2 * pitEntries' <= Expected - 2 * pitEntries
<1>1. UNCHANGED <<pc, stints, runs, seen, last>>
  BY Zenon DEF SimWrites, db, local, reads
<1>2. Expected \in {0, 1, 2} /\ pitEntries \in Nat /\ pc \in Labels
  BY ExpectsBound DEF Expected, TypeOK, ThreadTypes, WorldTypes
<1>3. Expected' \in {0, 1, 2}
  BY <1>1, <1>2, ExpectsBound, Zenon DEF Expected
<1>4. \/ sim'.inpit = sim.inpit /\ pitEntries' = pitEntries
      \/ sim.inpit /\ ~sim'.inpit /\ pitEntries' = pitEntries
      \/ ~sim.inpit /\ pitEntries' = pitEntries + 1
  <2>1. CASE \E t \in Named : \E n \in GameNames[t] \ {sim[t]} :
               sim' = [sim EXCEPT ![t] = n] /\ UNCHANGED pitEntries
    <3>1. PICK t \in Named : \E n \in GameNames[t] :
            sim' = [sim EXCEPT ![t] = n] /\ UNCHANGED pitEntries
      BY <2>1
    <3>2. sim'.inpit = sim.inpit
      BY <3>1, SimNameFacts, Zenon DEF TypeOK, WorldTypes
    <3>. QED BY <3>1, <3>2, Zenon
  <2>2. CASE \/ \E s \in SessionTypes \ {sim.session} :
                  sim' = [sim EXCEPT !.session = s] /\ UNCHANGED pitEntries
             \/ \E n \in (0 .. MaxLap) \ {sim.lap} :
                  sim' = [sim EXCEPT !.lap = n] /\ UNCHANGED pitEntries
             \/ /\ sim' = [sim EXCEPT !.inpit = ~@]
                /\ pitEntries' = IF sim.inpit THEN pitEntries ELSE pitEntries + 1
             \/ sim' = [sim EXCEPT !.valid = ~@] /\ UNCHANGED pitEntries
    BY <2>2 DEF TypeOK, WorldTypes, SimRecords
  <2>. QED BY <2>1, <2>2, Zenon DEF SimWrites
<1>5. CASE sim'.inpit = sim.inpit /\ pitEntries' = pitEntries
  <2>1. Expected' = Expected
    BY <1>1, <1>5, Zenon DEF Expected
  <2>2. Expected - 2 * pitEntries <= Expected - 2 * pitEntries
    BY <1>2, SMT
  <2>3. Expected' - 2 * pitEntries' <= Expected - 2 * pitEntries
    BY <1>5, <2>1, <2>2, Zenon
  <2>. QED BY <1>1, <2>3, Zenon
<1>6. CASE sim.inpit /\ ~sim'.inpit /\ pitEntries' = pitEntries
  <2>1. /\ Waits(sim'.inpit, seen'.pit) = 0 /\ Waits(sim'.inpit, last'.pit) = 0
        /\ Waits(sim.inpit, seen.pit) \in {0, 1} /\ Waits(sim.inpit, last.pit) \in {0, 1}
    BY <1>6, Zenon DEF Waits
  <2>2. Expected' <= Expected
    <3>1. pc \in Gone \/ pc \in FirstRows \/ pc \in Preparing \/ pc \in Adding
            \/ pc = "checkpit" \/ pc \in PitSeen \/ pc \in LastPit
      BY <1>2, Places, Zenon
    <3>2. pc = "checkpit" => Expected' = 0
      <4>1. pc = "checkpit" /\ last'.pit => Expected' = 2 * Waits(sim'.inpit, seen'.pit)
        BY <1>1, ExpectedThen, Zenon
      <4>2. pc = "checkpit" /\ ~last'.pit => Expected' = Waits(sim'.inpit, last'.pit)
        BY <1>1, ExpectedThen, Zenon
      <4>3. 2 * Waits(sim'.inpit, seen'.pit) = 0
        BY <2>1, SMT
      <4>. QED BY <2>1, <4>1, <4>2, <4>3, Zenon
    <3>3. pc \in FirstRows \/ pc \in Adding => Expected' = 1
      <4>1. pc \in FirstRows => Expected' = 1 + Waits(sim'.inpit, last'.pit)
        BY <1>1, ExpectedThen, Zenon
      <4>2. pc \in Adding => Expected' = 1 + Waits(sim'.inpit, seen'.pit)
        BY <1>1, ExpectedThen, Zenon
      <4>. QED BY <2>1, <4>1, <4>2
    <3>4. pc \in FirstRows \/ pc \in Adding => Expected >= 1
      <4>1. pc \in FirstRows => Expected = 1 + Waits(sim.inpit, last.pit)
        BY ExpectedNow, Zenon
      <4>2. pc \in Adding => Expected = 1 + Waits(sim.inpit, seen.pit)
        BY ExpectedNow, Zenon
      <4>. QED BY <2>1, <4>1, <4>2
    <3>5. pc \in Preparing => Expected' = Expected
      BY <1>1, ExpectedNow, ExpectedThen, Zenon
    <3>6. pc \in Gone \/ pc \in PitSeen \/ pc \in LastPit => Expected' = 0
      BY <1>1, <2>1, ExpectedThen, Zenon
    <3>. QED BY <1>2, <1>3, <3>1, <3>2, <3>3, <3>4, <3>5, <3>6
  <2>3. Expected' - 2 * pitEntries <= Expected - 2 * pitEntries
    BY <1>2, <1>3, <2>2, SumLess
  <2>4. Expected' - 2 * pitEntries' <= Expected - 2 * pitEntries
    BY <1>6, <2>3, Zenon
  <2>. QED BY <1>1, <2>4, Zenon
<1>7. CASE ~sim.inpit /\ pitEntries' = pitEntries + 1
  <2>1. Expected' - 2 * (pitEntries + 1) <= Expected - 2 * pitEntries
    BY <1>2, <1>3, SumTwo
  <2>2. Expected' - 2 * pitEntries' <= Expected - 2 * pitEntries
    BY <1>7, <2>1, Zenon
  <2>. QED BY <1>1, <2>2, Zenon
<1>. QED BY <1>4, <1>5, <1>6, <1>7

(* Every step keeps the count of stints.                                   *)
LEMMA PitStep ==
  ASSUME TypeOK, TypeOK', Past(stints), PitInv, [Next]_vars
  PROVE  PitInv'
<1>. DEFINE m == Cardinality(RowsOf(stints, runs))
<1>0. /\ m \in Nat /\ Expected \in Nat /\ Expected' \in Nat
      /\ pitEntries \in Nat /\ pitEntries' \in Nat
  <2>1. Expected \in {0, 1, 2} /\ Expected' \in {0, 1, 2}
    BY ExpectsBound DEF Expected, TypeOK, ThreadTypes
  <2>2. m \in Nat
    BY RowsCounted DEF TypeOK, TableTypes
  <2>. QED BY <2>1, <2>2 DEF TypeOK, WorldTypes
<1>1. m + Expected <= 1 + 2 * pitEntries
  BY DEF PitInv
<1>2. ASSUME Eases PROVE PitInv'
  <2>1. runs' = runs /\ pitEntries' = pitEntries /\ Expected' <= Expected
    BY <1>2 DEF Eases
  <2>2. RowsOf(stints', runs') = RowsOf(stints, runs)
    <3>1. CASE stints' = stints
      BY <2>1, <3>1, Zenon
    <3>2. CASE \E answer \in CallAnswers : CloseStintRow(answer)
      BY <2>1, <3>2, CloseEffect DEF RowsOf, Grows
    <3>. QED BY <1>2, <3>1, <3>2, Zenon DEF Eases
  <2>3. pc' \in NoStint => RowsOf(stints', runs') = {}
    BY <1>2, <2>2, Zenon DEF Eases, PitInv
  <2>. HIDE DEF m
  <2>4. Expected' - 2 * pitEntries' <= Expected - 2 * pitEntries
    <3>1. Expected' - 2 * pitEntries <= Expected - 2 * pitEntries
      BY <1>0, <2>1, SumLess
    <3>. QED BY <2>1, <3>1, Zenon
  <2>5. m + Expected' <= 1 + 2 * pitEntries'
    BY <1>0, <1>1, <2>4, SumKept
  <2>. QED BY <2>2, <2>3, <2>5, Zenon DEF PitInv, m
<1>3. ASSUME AddStint PROVE PitInv'
  <2>1. PICK answer \in InsertAnswers : AddStintRow(answer)
    BY <1>3, Zenon DEF AddStint
  <2>2. pc \in FirstRows /\ pc' \in LastPit /\ pc' \notin NoStint
  BY <1>3, SMT DEF AddStint, Calls, Goto, FirstRows, LastPit, NoStint, NoSession,
     BeforeSession, Gone
  <2>3. sim' = sim /\ last' = last
    BY <1>3, Zenon DEF AddStint, AddStintRow, Keep, world, reads
  <2>4. Expected = 1 + Waits(sim.inpit, last.pit) /\ Expected' = Waits(sim.inpit, last.pit)
    BY <2>2, <2>3, ExpectedNow, ExpectedThen, Zenon
  <2>5. Waits(sim.inpit, last.pit) \in {0, 1}
    BY WaitsFacts
  <2>6. Expected' + 1 <= Expected /\ Expected' \in Nat /\ Expected \in Nat
    BY <2>4, <2>5
  <2>. QED BY <2>1, <2>2, <2>6, StintAdded
<1>4. ASSUME PitAddsStint PROVE PitInv'
  <2>1. PICK answer \in InsertAnswers : AddStintRow(answer)
    BY <1>4, Zenon DEF PitAddsStint
  <2>2. pc \in Adding /\ pc' \in PitSeen /\ pc' \notin NoStint
  BY <1>4, SMT DEF PitAddsStint, Calls, Goto, Adding, PitSeen, NoStint, NoSession,
     BeforeSession, Gone
  <2>3. sim' = sim /\ seen' = seen
    BY <1>4, Zenon DEF PitAddsStint, AddStintRow, Keep, world, reads
  <2>4. Expected = 1 + Waits(sim.inpit, seen.pit) /\ Expected' = Waits(sim.inpit, seen.pit)
    BY <2>2, <2>3, ExpectedNow, ExpectedThen, Zenon
  <2>5. Waits(sim.inpit, seen.pit) \in {0, 1}
    BY WaitsFacts
  <2>6. Expected' + 1 <= Expected /\ Expected' \in Nat /\ Expected \in Nat
    BY <2>4, <2>5
  <2>. QED BY <2>1, <2>2, <2>6, StintAdded
<1>5. ASSUME StartRun PROVE PitInv'
  <2>1. stints' = stints /\ runs' = runs + 1 /\ pitEntries' = 0 /\ pc' \in Preparing
    BY <1>5 DEF StartRun, db, Preparing
  <2>2. RowsOf(stints', runs') = {}
    BY <2>1, FreshRun DEF TypeOK, TableTypes
  <2>3. Expected' = 1
    BY <2>1, ExpectedThen, Zenon
  <2>4. Cardinality(RowsOf(stints', runs')) = 0
    BY <2>2, FS_EmptySet
  <2>. QED BY <2>1, <2>2, <2>3, <2>4 DEF PitInv
<1>6. ASSUME SimWrites PROVE PitInv'
  <2>1. /\ UNCHANGED <<pc, stints, runs>>
        /\ Expected' - 2 * pitEntries' <= Expected - 2 * pitEntries
    BY <1>6, PitWritten
  <2>. HIDE DEF m
  <2>2. m + Expected' <= 1 + 2 * pitEntries'
    BY <1>0, <1>1, <2>1, SumKept
  <2>. QED BY <2>1, <2>2, Zenon DEF PitInv, m
<1>. QED BY <1>2, <1>3, <1>4, <1>5, <1>6, PitMoves, Zenon

(* In a run a pit entry makes at most two stints, the second only when     *)
(* inpit changes between its two reads of one turn.                        *)
THEOREM StintsPerPitCorrect == Spec => []StintsPerPitEntry
<1>1. Init => PitInv
  <2>1. ASSUME Init PROVE stints = <<>> /\ pc \in Gone /\ pitEntries = 0
    BY <2>1 DEF Init, Gone
  <2>2. ASSUME Init PROVE RowsOf(stints, runs) = {}
    BY <2>1, <2>2 DEF RowsOf
  <2>3. ASSUME Init PROVE Expected = 0
    BY <2>1, <2>3, ExpectedNow, Zenon
  <2>4. ASSUME Init PROVE Cardinality(RowsOf(stints, runs)) = 0
    BY <2>2, <2>4, FS_EmptySet
  <2>. QED BY <2>1, <2>2, <2>3, <2>4 DEF PitInv
<1>2. TypeOK /\ TypeOK' /\ RowsInv /\ PitInv /\ [Next]_vars => PitInv'
  BY PitStep, Zenon DEF RowsInv
<1>3. TypeOK /\ PitInv => StintsPerPitEntry
  <2>. SUFFICES ASSUME TypeOK, PitInv PROVE StintsPerPitEntry
    OBVIOUS
  <2>. DEFINE m == Cardinality(RowsOf(stints, runs))
  <2>1. Expected \in {0, 1, 2} /\ pitEntries \in Nat
    BY ExpectsBound DEF Expected, TypeOK, ThreadTypes, WorldTypes
  <2>2. m \in Nat
    BY RowsCounted DEF TypeOK, TableTypes
  <2>3. m + Expected <= 1 + 2 * pitEntries
    BY DEF PitInv
  <2>. HIDE DEF m
  <2>4. m <= 1 + 2 * pitEntries
    BY <2>1, <2>2, <2>3, SMT
  <2>. QED BY <2>4, Zenon DEF StintsPerPitEntry, OfRun, RowsOf, m
<1>. QED BY <1>1, <1>2, <1>3, RowsInvariant, PTL DEF Spec

-----------------------------------------------------------------------------
(* The lap counts of a stint.                                              *)

UnderOf(table, stint) == {l \in DOMAIN table : table[l].stint = stint}

(* Where the counts of the recorder are those of the stint it holds, and   *)
(* where the lap that has ended is counted and the next has no row yet.    *)
Counting == (LastPit \ {"addlap", "enter"}) \cup PitSeen \cup Adding \cup {"checkpit"}
Ahead    == {"l_closelap", "l_addtelemetry", "l_update", "l_addlap"}
Slack(p) == IF p \in Ahead THEN 2 ELSE 1

HeldCounts ==
  pc \in Counting =>
    /\ validstintlaps < stintlaps
    /\ faults = 0 => stintlaps <= Cardinality(UnderOf(laps, id.stint)) + Slack(pc)

CountsInv == HeldCounts /\ StintCounts

(* The laps of a stint are counted.                                        *)
LEMMA UnderCounted ==
  ASSUME NEW S, NEW table \in Seq(S), NEW stint
  PROVE  /\ IsFiniteSet(UnderOf(table, stint))
         /\ Cardinality(UnderOf(table, stint)) \in Nat
<1>1. IsFiniteSet(1 .. Len(table))
  BY FS_Interval
<1>2. UnderOf(table, stint) \subseteq 1 .. Len(table)
  BY DEF UnderOf
<1>. QED BY <1>1, <1>2, FS_Subset, FS_CardinalityType

(* No step takes a lap from a stint.                                       *)
LEMMA UnderGrows ==
  ASSUME TypeOK, TypeOK', [Next]_vars, NEW stint
  PROVE  /\ Cardinality(UnderOf(laps, stint)) <= Cardinality(UnderOf(laps', stint))
         /\ Cardinality(UnderOf(laps, stint)) \in Nat
         /\ Cardinality(UnderOf(laps', stint)) \in Nat
<1>1. UnderOf(laps, stint) \subseteq UnderOf(laps', stint)
  <2>1. ASSUME laps' = laps PROVE UnderOf(laps, stint) \subseteq UnderOf(laps', stint)
    BY <2>1, Zenon
  <2>2. ASSUME NEW answer, InsertsLap(answer)
        PROVE  UnderOf(laps, stint) \subseteq UnderOf(laps', stint)
    <3>1. /\ answer \in InsertAnswers
          /\ laps' = Insert(laps, LapRow(id.stint, runs), answer)
      BY <2>2, Zenon DEF InsertsLap, Inserts, AddLapRow
    <3>2. laps \in Seq(LapRows) /\ LapRow(id.stint, runs) \in LapRows
      BY NewRows DEF TypeOK, TableTypes
    <3>3. \A i \in DOMAIN laps : i \in DOMAIN laps' /\ laps'[i] = laps[i]
      BY <3>1, <3>2, InsertFacts
    <3>. QED BY <3>3, Zenon DEF UnderOf
  <2>3. ASSUME NEW answer, ClosesLap(answer)
        PROVE  UnderOf(laps, stint) \subseteq UnderOf(laps', stint)
    <3>1. answer \in CallAnswers /\ CloseLapRow(answer)
      BY <2>3, Zenon DEF ClosesLap, Closes
    <3>. QED BY <3>1, CloseEffect DEF UnderOf
  <2>4. ASSUME NEW answer,
               \/ InsertsSession(answer) \/ InsertsStint(answer) \/ InsertsTelemetry(answer)
               \/ ClosesSession(answer) \/ ClosesStint(answer)
        PROVE  laps' = laps
    BY <2>4, Zenon DEF InsertsSession, InsertsStint, InsertsTelemetry, ClosesSession, ClosesStint,
       AddSessionRow, AddStintRow, AddTelemetryRow, CloseSessionRow, CloseStintRow
  <2>5. ASSUME Aside \/ Leaves \/ Starts \/ Prepares \/ Looks \/ Stores
        PROVE  laps' = laps
    BY <2>5, Zenon DEF Aside, Leaves, Starts, Prepares, Looks, Still, Stores, UpdateTelemetry
  <2>. QED BY <2>1, <2>2, <2>3, <2>4, <2>5, Moves, Zenon
<1>2. IsFiniteSet(UnderOf(laps', stint)) /\ Cardinality(UnderOf(laps', stint)) \in Nat
  BY UnderCounted DEF TypeOK, TableTypes
<1>3. Cardinality(UnderOf(laps, stint)) \in Nat
  BY UnderCounted DEF TypeOK, TableTypes
<1>. QED BY <1>1, <1>2, <1>3, FS_Subset

(* A step that keeps the counts.                                           *)
LEMMA HeldCountsKept ==
  ASSUME TypeOK, TypeOK', [Next]_vars, HeldCounts, UNCHANGED counts,
         id'.stint = id.stint,
         pc' \in Counting => pc \in Counting /\ (pc \in Ahead => pc' \in Ahead)
  PROVE  HeldCounts'
<1>. SUFFICES ASSUME pc' \in Counting PROVE HeldCounts'
  BY DEF HeldCounts
<1>1. stintlaps' = stintlaps /\ validstintlaps' = validstintlaps
  BY Zenon DEF counts
<1>2. validstintlaps' < stintlaps'
  BY <1>1, Zenon DEF HeldCounts
<1>3. ASSUME faults' = 0
      PROVE  stintlaps' <= Cardinality(UnderOf(laps', id'.stint)) + Slack(pc')
  <2>. DEFINE m == Cardinality(UnderOf(laps, id.stint))
              n == Cardinality(UnderOf(laps', id.stint))
  <2>1. m <= n /\ m \in Nat /\ n \in Nat
    BY UnderGrows
  <2>2. faults = 0
    BY <1>3, FaultFree
  <2>3. stintlaps <= m + Slack(pc)
    BY <2>2, Zenon DEF HeldCounts
  <2>4. Slack(pc) \in {1, 2} /\ Slack(pc') \in {1, 2} /\ Slack(pc) <= Slack(pc')
    BY DEF Slack
  <2>5. stintlaps \in Nat
    BY DEF TypeOK, ThreadTypes
  <2>. HIDE DEF m, n
  <2>6. stintlaps <= n + Slack(pc')
    BY <2>1, <2>3, <2>4, <2>5
  <2>. QED BY <1>1, <2>6, Zenon DEF n
<1>. QED BY <1>2, <1>3, Zenon DEF HeldCounts

(* A step that starts counting again.                                      *)
LEMMA HeldCountsReset ==
  ASSUME TypeOK', ResetCounts
  PROVE  HeldCounts'
<1>1. validstintlaps' = 0 /\ stintlaps' = 1
  BY DEF ResetCounts
<1>2. Cardinality(UnderOf(laps', id'.stint)) \in Nat
  BY UnderCounted DEF TypeOK, TableTypes
<1>3. Slack(pc') \in {1, 2}
  BY DEF Slack
<1>4. 1 <= Cardinality(UnderOf(laps', id'.stint)) + Slack(pc')
  BY <1>2, <1>3
<1>5. 0 < 1
  OBVIOUS
<1>. QED BY <1>1, <1>4, <1>5, Zenon DEF HeldCounts

(* A lap is counted before it has a row after it.                          *)
LEMMA HeldCountsLap ==
  ASSUME TypeOK, TypeOK', [Next]_vars, HeldCounts, CountsLap, id' = id,
         pc = "checklap", pc' = "l_closelap"
  PROVE  HeldCounts'
<1>1. pc \in Counting /\ Slack(pc) = 1 /\ Slack(pc') = 2
  BY DEF Counting, LastPit, PitSeen, Adding, Ahead, Slack
<1>2. stintlaps' = stintlaps + 1 /\ \E n \in {0, 1} : validstintlaps' = validstintlaps + n
  BY DEF CountsLap
<1>3. stintlaps \in Nat /\ validstintlaps \in Nat
  BY DEF TypeOK, ThreadTypes
<1>4. validstintlaps < stintlaps
  BY <1>1, Zenon DEF HeldCounts
<1>5. validstintlaps' < stintlaps'
  BY <1>2, <1>3, <1>4
<1>6. ASSUME faults' = 0
      PROVE  stintlaps' <= Cardinality(UnderOf(laps', id'.stint)) + Slack(pc')
  <2>. DEFINE m == Cardinality(UnderOf(laps, id.stint))
              n == Cardinality(UnderOf(laps', id.stint))
  <2>1. m <= n /\ m \in Nat /\ n \in Nat
    BY UnderGrows
  <2>2. faults = 0
    BY <1>6, FaultFree
  <2>3. stintlaps <= m + 1
    BY <1>1, <2>2, Zenon DEF HeldCounts
  <2>. HIDE DEF m, n
  <2>4. stintlaps + 1 <= n + 2
    BY <1>3, <2>1, <2>3
  <2>. QED BY <1>1, <1>2, <2>4, Zenon DEF n
<1>. QED BY <1>5, <1>6, Zenon DEF HeldCounts

(* The row of the next lap makes up for it.                                *)
LEMMA HeldCountsRow ==
  ASSUME TypeOK, TypeOK', [Next]_vars, HeldCounts, NEW answer, InsertsLap(answer),
         pc = "l_addlap", pc' = "tail"
  PROVE  HeldCounts'
<1>1. pc \in Counting /\ Slack(pc) = 2 /\ Slack(pc') = 1
  BY DEF Counting, LastPit, PitSeen, Adding, Ahead, Slack
<1>2. answer \in InsertAnswers /\ Charge(answer) /\ AddLapRow(answer)
  BY Zenon DEF InsertsLap, Inserts
<1>3. stintlaps' = stintlaps /\ validstintlaps' = validstintlaps /\ id'.stint = id.stint
  <2>1. stintlaps' = stintlaps /\ validstintlaps' = validstintlaps
    BY <1>2, Zenon DEF AddLapRow, counts
  <2>2. id'.stint = id.stint
    BY <1>2, NewIds, Zenon
  <2>. QED BY <2>1, <2>2
<1>4. validstintlaps' < stintlaps'
  BY <1>1, <1>3, Zenon DEF HeldCounts
<1>5. ASSUME faults' = 0
      PROVE  stintlaps' <= Cardinality(UnderOf(laps', id'.stint)) + Slack(pc')
  <2>. DEFINE m == Cardinality(UnderOf(laps, id.stint))
              row == LapRow(id.stint, runs)
  <2>1. faults = 0 /\ answer = "ok"
    BY <1>2, <1>5, Worked
  <2>2. laps' = Append(laps, row)
    BY <1>2, <2>1, OkInsert, Zenon DEF AddLapRow
  <2>3. laps \in Seq(LapRows)
    BY DEF TypeOK, TableTypes
  <2>4. row.stint = id.stint
    BY DEF LapRow
  <2>. HIDE DEF row
  <2>5. UnderOf(laps', id.stint) = UnderOf(laps, id.stint) \cup {Len(laps) + 1}
    BY <2>2, <2>3, <2>4 DEF UnderOf
  <2>6. Len(laps) + 1 \notin UnderOf(laps, id.stint)
    BY <2>3 DEF UnderOf
  <2>7. IsFiniteSet(UnderOf(laps, id.stint)) /\ m \in Nat
    BY <2>3, UnderCounted
  <2>8. Cardinality(UnderOf(laps, id.stint) \cup {Len(laps) + 1}) = m + 1
    BY <2>6, <2>7, FS_AddElement
  <2>9. stintlaps <= m + 2
    BY <1>1, <2>1, Zenon DEF HeldCounts
  <2>10. stintlaps \in Nat
    BY DEF TypeOK, ThreadTypes
  <2>. HIDE DEF m
  <2>11. stintlaps <= (m + 1) + 1
    BY <2>7, <2>9, <2>10
  <2>. QED BY <1>1, <1>3, <2>5, <2>8, <2>11, Zenon
<1>. QED BY <1>4, <1>5, Zenon DEF HeldCounts

(* Every step keeps the counts true.                                       *)
LEMMA HeldStep ==
  ASSUME TypeOK, TypeOK', HeldCounts, [Next]_vars
  PROVE  HeldCounts'
<1>1. ASSUME pc' \notin Counting PROVE HeldCounts'
  BY <1>1, Zenon DEF HeldCounts
<1>2. ASSUME Aside PROVE HeldCounts'
  <2>1. UNCHANGED counts /\ id' = id /\ pc' = pc
    BY <1>2, Zenon DEF Aside
  <2>. QED BY <2>1, HeldCountsKept, Zenon
<1>3. ASSUME Leaves \/ Starts \/ Prepares PROVE HeldCounts'
  <2>1. pc' \notin Counting
  BY <1>3, SMT DEF Leaves, Starts, Prepares, NoSession, BeforeSession, Gone, Counting,
     LastPit, PitSeen, Adding, Ahead
  <2>. QED BY <1>1, <2>1
<1>4. ASSUME Looks PROVE HeldCounts'
  <2>1. id' = id
    BY <1>4, Zenon DEF Looks
  <2>2. CASE pc # "enter" /\ pc' # "l_closelap" /\ UNCHANGED counts
    <3>1. pc \in Counting /\ pc \notin Ahead
      BY <1>4, <2>2, SMT DEF Looks, Counting, LastPit, PitSeen, Adding, Ahead
    <3>. QED BY <2>1, <2>2, <3>1, HeldCountsKept, Zenon
  <2>3. CASE ResetCounts
    BY <2>3, HeldCountsReset
  <2>4. CASE pc = "checklap" /\ pc' = "l_closelap" /\ CountsLap
    BY <2>1, <2>4, HeldCountsLap
  <2>. QED BY <1>4, <2>2, <2>3, <2>4, Zenon DEF Looks
<1>5. ASSUME NEW answer, InsertsSession(answer) PROVE HeldCounts'
  <2>1. pc' \notin Counting \/ ResetCounts
    BY <1>5, SMT DEF InsertsSession, Inserts, Counting, LastPit, PitSeen, Adding, Ahead
  <2>. QED BY <1>1, <2>1, HeldCountsReset
<1>6. ASSUME NEW answer, InsertsStint(answer) PROVE HeldCounts'
  <2>1. pc' \notin Counting \/ ResetCounts
    BY <1>6, SMT DEF InsertsStint, Inserts, Counting, LastPit, PitSeen, Adding, Ahead
  <2>. QED BY <1>1, <2>1, HeldCountsReset
<1>7. ASSUME NEW answer, InsertsLap(answer) PROVE HeldCounts'
  <2>1. pc' \notin Counting \/ (pc = "l_addlap" /\ pc' = "tail")
    BY <1>7, SMT DEF InsertsLap, Inserts, Counting, LastPit, PitSeen, Adding, Ahead
  <2>. QED BY <1>1, <1>7, <2>1, HeldCountsRow
<1>8. ASSUME NEW answer, InsertsTelemetry(answer) PROVE HeldCounts'
  <2>1. answer \in InsertAnswers /\ AddTelemetryRow(answer)
    BY <1>8, Zenon DEF InsertsTelemetry, Inserts
  <2>2. UNCHANGED counts /\ id'.stint = id.stint
    BY <2>1, NewIds, Zenon DEF AddTelemetryRow
  <2>3. pc \in Counting /\ (pc \in Ahead => pc' \in Ahead)
    BY <1>8, SMT DEF InsertsTelemetry, Inserts, Counting, LastPit, PitSeen, Adding, Ahead
  <2>. QED BY <2>2, <2>3, HeldCountsKept, Zenon
<1>9. ASSUME NEW answer, ClosesSession(answer) PROVE HeldCounts'
  <2>1. id' = id /\ (UNCHANGED counts \/ ResetCounts)
    BY <1>9, Zenon DEF ClosesSession, CloseSessionRow
  <2>2. pc \in Counting /\ pc \notin Ahead
    BY <1>9, SMT DEF ClosesSession, Closes, Counting, LastPit, PitSeen, Adding, Ahead
  <2>. QED BY <2>1, <2>2, HeldCountsKept, HeldCountsReset, Zenon
<1>10. ASSUME NEW answer, ClosesStint(answer) \/ ClosesLap(answer) PROVE HeldCounts'
  <2>1. id' = id /\ UNCHANGED counts
    BY <1>10, Zenon DEF ClosesStint, ClosesLap, CloseStintRow, CloseLapRow, local
  <2>2. pc \in Counting /\ (pc \in Ahead => pc' \in Ahead)
    BY <1>10, SMT DEF ClosesStint, ClosesLap, Closes, Counting, LastPit, PitSeen, Adding, Ahead
  <2>. QED BY <2>1, <2>2, HeldCountsKept, Zenon
<1>11. ASSUME Stores PROVE HeldCounts'
  <2>1. id' = id /\ UNCHANGED counts
    BY <1>11, Zenon DEF Stores, UpdateTelemetry
  <2>2. pc \in Counting /\ (pc \in Ahead => pc' \in Ahead)
    BY <1>11, SMT DEF Stores, UpdateTelemetry, Counting, LastPit, PitSeen, Adding, Ahead
  <2>. QED BY <2>1, <2>2, HeldCountsKept, Zenon
<1>. QED
  BY <1>2, <1>3, <1>4, <1>5, <1>6, <1>7, <1>8, <1>9, <1>10, <1>11, Moves, Zenon

(* A row of stints stays, is new and open, or is the one that is closed,   *)
(* with the counts of the recorder.                                        *)
LEMMA StintRowsStep ==
  ASSUME TypeOK, [Next]_vars, NEW s \in DOMAIN stints', stints'[s].finished
  PROVE  \/ s \in DOMAIN stints /\ stints'[s] = stints[s]
         \/ /\ s = id.stint /\ pc \in Counting \ Ahead
            /\ stints'[s].laps = stintlaps /\ stints'[s].valid = validstintlaps
<1>. DEFINE Goal == \/ s \in DOMAIN stints /\ stints'[s] = stints[s]
                    \/ /\ s = id.stint /\ pc \in Counting \ Ahead
                       /\ stints'[s].laps = stintlaps /\ stints'[s].valid = validstintlaps
<1>1. ASSUME stints' = stints PROVE Goal
  BY <1>1, Zenon
<1>2. ASSUME NEW answer, InsertsStint(answer) PROVE Goal
  <2>. DEFINE row == StintRow(id.session, id.driver, runs)
  <2>1. answer \in InsertAnswers /\ stints' = Insert(stints, row, answer)
    BY <1>2, Zenon DEF InsertsStint, Inserts, AddStintRow
  <2>2. stints \in Seq(StintRows) /\ row \in StintRows /\ row.finished = FALSE
    BY NewRows DEF TypeOK, TableTypes
  <2>. HIDE DEF row
  <2>3. /\ \A i \in DOMAIN stints : stints'[i] = stints[i]
        /\ \A i \in DOMAIN stints' : i \in DOMAIN stints \/ stints'[i] = row
    BY <2>1, <2>2, InsertFacts
  <2>. QED BY <2>2, <2>3, Zenon
<1>3. ASSUME NEW answer, ClosesStint(answer) PROVE Goal
  <2>1. answer \in CallAnswers /\ CloseStintRow(answer)
    BY <1>3, Zenon DEF ClosesStint, Closes
  <2>2. pc \in Counting \ Ahead
    BY <1>3, SMT DEF ClosesStint, Closes, Counting, LastPit, PitSeen, Adding, Ahead
  <2>3. stints' = closestint(stints, id.stint, stintlaps, validstintlaps, answer)
    BY <2>1, Zenon DEF CloseStintRow
  <2>4. stints \in Seq(StintRows)
    BY DEF TypeOK, TableTypes
  <2>5. CASE ~Updates(stints, id.stint, answer)
    BY <2>3, <2>5, Zenon DEF closestint
  <2>6. CASE Updates(stints, id.stint, answer)
    <3>. DEFINE row == [stints[id.stint] EXCEPT !.laps = stintlaps, !.valid = validstintlaps,
                                                !.finished = TRUE]
    <3>1. id.stint \in DOMAIN stints /\ stints[id.stint] \in StintRows
      BY <2>4, <2>6, RowFacts DEF Updates
    <3>2. row.laps = stintlaps /\ row.valid = validstintlaps
      BY <3>1, Zenon DEF StintRows
    <3>. HIDE DEF row
    <3>3. stints' = [stints EXCEPT ![id.stint] = row]
      BY <2>3, <2>6, Zenon DEF closestint, row
    <3>4. /\ DOMAIN stints' = DOMAIN stints
          /\ \A i \in DOMAIN stints : i # id.stint => stints'[i] = stints[i]
          /\ stints'[id.stint] = row
      BY <2>4, <3>1, <3>3
    <3>5. CASE s = id.stint
      BY <2>2, <3>2, <3>4, <3>5, Zenon
    <3>6. CASE s # id.stint
      BY <3>4, <3>6, Zenon
    <3>. QED BY <3>5, <3>6
  <2>. QED BY <2>5, <2>6
<1>4. ASSUME NEW answer,
             \/ InsertsSession(answer) \/ InsertsLap(answer) \/ InsertsTelemetry(answer)
             \/ ClosesSession(answer) \/ ClosesLap(answer)
      PROVE  stints' = stints
  BY <1>4, Zenon DEF InsertsSession, InsertsLap, InsertsTelemetry, ClosesSession, ClosesLap,
     AddSessionRow, AddLapRow, AddTelemetryRow, CloseSessionRow, CloseLapRow
<1>5. ASSUME Aside \/ Leaves \/ Starts \/ Prepares \/ Looks \/ Stores
      PROVE  stints' = stints
  BY <1>5, Zenon DEF Aside, Leaves, Starts, Prepares, Looks, Still, Stores, UpdateTelemetry
<1>. HIDE DEF Goal
<1>6. Goal
  BY <1>1, <1>2, <1>3, <1>4, <1>5, Moves, Zenon
<1>. QED BY <1>6 DEF Goal

(* Every step keeps what closed stints say.                                *)
LEMMA StintCountsStep ==
  ASSUME TypeOK, TypeOK', CountsInv, [Next]_vars
  PROVE  StintCounts'
<1>. SUFFICES ASSUME NEW s \in DOMAIN stints', stints'[s].finished
              PROVE  /\ stints'[s].valid < stints'[s].laps
                     /\ faults' = 0 =>
                          stints'[s].laps <= Cardinality(UnderOf(laps', s)) + 1
  BY Zenon DEF StintCounts, UnderOf
<1>1. faults' = 0 => faults = 0
  BY FaultFree
<1>2. /\ Cardinality(UnderOf(laps, s)) <= Cardinality(UnderOf(laps', s))
      /\ Cardinality(UnderOf(laps, s)) \in Nat /\ Cardinality(UnderOf(laps', s)) \in Nat
  BY UnderGrows
<1>3. stints'[s].laps \in Nat
  <2>1. stints'[s] \in StintRows
    BY RowFacts DEF TypeOK, TableTypes
  <2>. QED BY <2>1 DEF StintRows
<1>. DEFINE m == Cardinality(UnderOf(laps, s))
            n == Cardinality(UnderOf(laps', s))
<1>4. CASE s \in DOMAIN stints /\ stints'[s] = stints[s]
  <2>1. stints[s].finished
    BY <1>4, Zenon
  <2>2. /\ stints[s].valid < stints[s].laps
        /\ faults = 0 => stints[s].laps <= m + 1
    BY <1>4, <2>1, Zenon DEF CountsInv, StintCounts, UnderOf
  <2>3. /\ stints'[s].valid < stints'[s].laps
        /\ faults' = 0 => stints'[s].laps <= m + 1
    BY <1>1, <1>4, <2>2, Zenon
  <2>. HIDE DEF m, n
  <2>4. m <= n /\ m \in Nat /\ n \in Nat
    BY <1>2 DEF m, n
  <2>5. faults' = 0 => stints'[s].laps <= n + 1
    BY <1>3, <2>3, <2>4
  <2>. QED BY <2>3, <2>5, Zenon DEF n
<1>5. CASE /\ s = id.stint /\ pc \in Counting \ Ahead
           /\ stints'[s].laps = stintlaps /\ stints'[s].valid = validstintlaps
  <2>1. Slack(pc) = 1
    BY <1>5 DEF Slack
  <2>2. /\ validstintlaps < stintlaps
        /\ faults = 0 => stintlaps <= m + 1
    BY <1>5, <2>1, Zenon DEF CountsInv, HeldCounts
  <2>3. /\ stints'[s].valid < stints'[s].laps
        /\ faults' = 0 => stints'[s].laps <= m + 1
    BY <1>1, <1>5, <2>2, Zenon
  <2>. HIDE DEF m, n
  <2>4. m <= n /\ m \in Nat /\ n \in Nat
    BY <1>2 DEF m, n
  <2>5. faults' = 0 => stints'[s].laps <= n + 1
    BY <1>3, <2>3, <2>4
  <2>. QED BY <2>3, <2>5, Zenon DEF n
<1>. QED BY <1>4, <1>5, StintRowsStep, Zenon

(* A closed stint counts fewer valid laps than laps, and, when no call     *)
(* failed, at most one lap more than it has rows of.                       *)
THEOREM StintCountsCorrect == Spec => []StintCounts
<1>1. Init => CountsInv
  <2>1. ASSUME Init PROVE pc \notin Counting /\ stints = <<>>
    BY <2>1 DEF Init, Counting, LastPit, PitSeen, Adding, Ahead
  <2>2. ASSUME Init PROVE StintCounts
    BY <2>1, <2>2 DEF StintCounts
  <2>. QED BY <2>1, <2>2, Zenon DEF CountsInv, HeldCounts
<1>2. TypeOK /\ TypeOK' /\ CountsInv /\ [Next]_vars => CountsInv'
  BY HeldStep, StintCountsStep, Zenon DEF CountsInv
<1>3. CountsInv => StintCounts
  BY DEF CountsInv
<1>. QED BY <1>1, <1>2, <1>3, TypeCorrect, PTL DEF Spec
=============================================================================
